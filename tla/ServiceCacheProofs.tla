------------------------- MODULE ServiceCacheProofs -------------------------
(***************************************************************************)
(* Proofs about ServiceCache for any services, instances, goroutines,      *)
(* users, settings and bounds.  Two arguments: the permits that are free   *)
(* and the updater's goroutines that run add up to UpdateThreadNum; and a  *)
(* ProcessService that is alone with its service carries, from the read of *)
(* the cache to the call of the callbacks, what the callbacks know.        *)
(***************************************************************************)
EXTENDS ServiceCache, FiniteSetTheorems, TLAPS

Job == [pc : {"query", "load", "store", "write", "notify"}, key : Services, new : Old, old : Old]
UserCall == [pc : {"add", "remove", "check", "stop"}, key : Services, funcs : SUBSET Users]

(* A service that is going to be stored is one. *)
Accepted == \A g \in Goroutines : job[g].pc \in {"store", "write", "notify"} => job[g].new \in Service

(* The updater's goroutines that run have the permits that are not free. *)
Busy == {p \in Pollers : ~At(p, "idle")}
PermitsHeld == IsFiniteSet(Busy) /\ permits + Cardinality(Busy) = UpdateThreadNum

(* The callbacks of s know nothing, or the instances in hosts. *)
Know(s, hosts) == \A u \in Users : told[s][u] \in {NoService, hosts}

(* What a ProcessService in progress carries: before its store the callbacks *)
(* know what it read, after it the cache has its service (or Unsubscribe     *)
(* removed it).                                                              *)
Carries(g, s) ==
    /\ At(g, "store") /\ job[g].old # NoService => Know(s, job[g].old.hosts)
    /\ ~At(g, "store") => serviceInfoMap[s] \in {job[g].new, NoService}

ToldAgrees(s) ==
    /\ \A u \in Users \ callbackFuncMap[s] : told[s][u] = NoService
    /\ s \notin overlap =>
          /\ \A g, h \in Processing(s) : g = h
          /\ \A g \in Processing(s) : Carries(g, s)
          /\ Processing(s) = {} /\ serviceInfoMap[s] # NoService => Know(s, serviceInfoMap[s].hosts)

ToldInv == \A s \in Services : ToldAgrees(s)

CacheInv == TypeOK /\ Accepted /\ PermitsHeld /\ ToldInv
-----------------------------------------------------------------------------
(* Types and permits. *)

(* A goroutine, or a user, that is at a step has a job, or a call. *)
LEMMA AtWork ==
    ASSUME TypeOK
    PROVE  /\ \A g \in Goroutines : IF job[g].pc = "idle" THEN job[g] = NoJob ELSE job[g] \in Job
           /\ \A u \in Users : IF user[u].pc = "idle" THEN user[u] = NoCall ELSE user[u] \in UserCall
  BY DEF TypeOK, Job, UserCall, NoJob, NoCall

(* One permit is taken with a goroutine that starts, one given back with    *)
(* one that ends.                                                           *)
LEMMA PermitsMove ==
    ASSUME PermitsHeld, permits \in 0..UpdateThreadNum, NEW p,
           \/ UNCHANGED <<Busy, permits>>
           \/ p \notin Busy /\ Busy' = Busy \union {p} /\ Acquire
           \/ p \in Busy /\ Busy' = Busy \ {p} /\ Release
    PROVE  permits' \in 0..UpdateThreadNum /\ PermitsHeld'
  <1> DEFINE n == Cardinality(Busy)
  <1>1. IsFiniteSet(Busy) /\ n \in Nat /\ permits + n = UpdateThreadNum /\ UpdateThreadNum \in Nat
    BY FS_CardinalityType, CacheAssumption DEF PermitsHeld
  <1>2. CASE UNCHANGED <<Busy, permits>>
    BY <1>2 DEF PermitsHeld
  <1>3. CASE p \notin Busy /\ Busy' = Busy \union {p} /\ Acquire
    <2>1. IsFiniteSet(Busy') /\ Cardinality(Busy') = n + 1
      BY <1>1, <1>3, FS_AddElement
    <2> QED BY <1>1, <1>3, <2>1 DEF PermitsHeld, Acquire
  <1>4. CASE p \in Busy /\ Busy' = Busy \ {p} /\ Release
    <2>1. IsFiniteSet(Busy') /\ Cardinality(Busy') = n - 1
      BY <1>1, <1>4, FS_RemoveElement
    <2>2. n # 0
      BY <1>1, <1>4, FS_EmptySet
    <2> QED BY <1>1, <1>4, <2>1, <2>2 DEF PermitsHeld, Release
  <1> QED BY <1>2, <1>3, <1>4

(* A goroutine's step, seen by the types and the permits: a job goes on, or *)
(* ends, or a feeder takes one.                                             *)
LEMMA JobMoves ==
    ASSUME TypeOK, Accepted, PermitsHeld, NEW g \in Goroutines, \A h \in Goroutines \ {g} : job'[h] = job[h],
           job' \in [Goroutines -> Job \union {NoJob}],
           job'[g].pc \in {"store", "write", "notify"} => job'[g].new \in Service,
           \/ ~At(g, "idle") /\ job'[g].pc # "idle" /\ UNCHANGED permits
           \/ ~At(g, "idle") /\ Ends(g)
           \/ g \in Feeders /\ UNCHANGED permits
    PROVE  permits' \in 0..UpdateThreadNum /\ PermitsHeld' /\ Accepted'
  <1>1. Accepted'
    BY DEF Accepted
  <1>2. permits \in 0..UpdateThreadNum
    BY DEF TypeOK
  <1>3. \/ UNCHANGED <<Busy, permits>>
        \/ g \in Busy /\ Busy' = Busy \ {g} /\ Release
    <2>1. ASSUME UNCHANGED permits, g \in Pollers => ~At(g, "idle") /\ job'[g].pc # "idle"
          PROVE  UNCHANGED <<Busy, permits>>
      BY <2>1 DEF Busy, At, Goroutines
    <2>2. CASE ~At(g, "idle") /\ Ends(g)
      <3>1. job'[g] = NoJob
        BY <2>2 DEF Ends, TypeOK
      <3>2. CASE g \in Pollers
        <4>1. Busy' = Busy \ {g}
          BY <3>1, <3>2 DEF Busy, At, NoJob, Goroutines
        <4> QED BY <2>2, <3>2, <4>1 DEF Ends, Busy
      <3>3. CASE g \notin Pollers
        BY <2>2, <3>3 DEF Ends, Busy, At, Goroutines
      <3> QED BY <3>2, <3>3
    <2> QED BY <2>1, <2>2, CacheAssumption
  <1> QED BY <1>1, <1>2, <1>3, PermitsMove

(* A step of ProcessService keeps types and permits. *)
LEMMA ProcessTyped ==
    ASSUME TypeOK, Accepted, PermitsHeld, NEW g \in Goroutines, Process(g)
    PROVE  TypeOK' /\ Accepted' /\ PermitsHeld'
  <1>1. ~At(g, "idle")
    BY DEF Process, ProcessLoads, ProcessStores, WriteServicesToFile, ServiceChanged, At
  <1>2. job[g] \in Job
    BY <1>1, AtWork DEF At
  <1>3. ASSUME Ends(g)
        PROVE  /\ permits' \in 0..UpdateThreadNum /\ PermitsHeld' /\ Accepted'
               /\ job' \in [Goroutines -> Job \union {NoJob}]
    <2>1. /\ job' \in [Goroutines -> Job \union {NoJob}] /\ job'[g] = NoJob
          /\ \A h \in Goroutines \ {g} : job'[h] = job[h]
      BY <1>3 DEF Ends, TypeOK, Job
    <2> QED BY <1>1, <1>3, <2>1, JobMoves DEF NoJob
  <1>4. ASSUME NEW pc \in {"write", "notify"}, Goes(g, pc), UNCHANGED permits, job[g].new \in Service
        PROVE  /\ permits' \in 0..UpdateThreadNum /\ PermitsHeld' /\ Accepted'
               /\ job' \in [Goroutines -> Job \union {NoJob}]
    <2>1. /\ job' \in [Goroutines -> Job \union {NoJob}] /\ job'[g].pc = pc /\ job'[g].new = job[g].new
          /\ \A h \in Goroutines \ {g} : job'[h] = job[h]
      BY <1>2, <1>4 DEF Goes, TypeOK, Job
    <2> QED BY <1>1, <1>4, <2>1, JobMoves
  <1>5. CASE ProcessLoads(g)
    <2>1. /\ permits' \in 0..UpdateThreadNum /\ PermitsHeld' /\ Accepted'
          /\ job' \in [Goroutines -> Job \union {NoJob}]
          /\ overlap' \subseteq Services
      <3>1. CASE Refused(job[g].new) \/ OutOfDate(serviceInfoMap[job[g].key], job[g].new)
        BY <1>3, <1>5, <3>1 DEF ProcessLoads, TypeOK
      <3>2. CASE ~(Refused(job[g].new) \/ OutOfDate(serviceInfoMap[job[g].key], job[g].new))
        <4>1. /\ job' = [job EXCEPT ![g].pc = "store", ![g].old = serviceInfoMap[job[g].key]]
              /\ overlap' \subseteq overlap \union {job[g].key}
              /\ UNCHANGED permits
          BY <1>5, <3>2 DEF ProcessLoads
        <4>2. job[g].new \in Service /\ job[g].key \in Services
          BY <1>2, <3>2 DEF Refused, Job, Old
        <4>3. serviceInfoMap[job[g].key] \in Old
          BY <4>2 DEF TypeOK
        <4>4. /\ job' \in [Goroutines -> Job \union {NoJob}] /\ job'[g].pc = "store" /\ job'[g].new = job[g].new
              /\ \A h \in Goroutines \ {g} : job'[h] = job[h]
          BY <1>2, <4>1, <4>3 DEF TypeOK, Job
        <4>5. permits' \in 0..UpdateThreadNum /\ PermitsHeld' /\ Accepted'
          BY <1>1, <4>1, <4>2, <4>4, JobMoves
        <4> QED BY <4>1, <4>2, <4>4, <4>5 DEF TypeOK
      <3> QED BY <3>1, <3>2
    <2> QED BY <1>5, <2>1 DEF ProcessLoads, TypeOK, Job, userVars
  <1>6. CASE ProcessStores(g)
    <2>1. job[g].new \in Service /\ job[g].key \in Services
      BY <1>2, <1>6 DEF ProcessStores, At, Accepted, Job
    <2>2. /\ permits' \in 0..UpdateThreadNum /\ PermitsHeld' /\ Accepted'
          /\ job' \in [Goroutines -> Job \union {NoJob}]
      <3>1. (Goes(g, "write") /\ UNCHANGED permits) \/ Ends(g)
        BY <1>6 DEF ProcessStores
      <3> QED BY <1>3, <1>4, <2>1, <3>1
    <2>3. serviceInfoMap' \in [Services -> Old] /\ fresh' \subseteq Services
      BY <1>6, <2>1 DEF ProcessStores, TypeOK, Old
    <2> QED BY <1>6, <2>2, <2>3 DEF ProcessStores, TypeOK, Job, userVars, historyVars
  <1>7. CASE WriteServicesToFile(g)
    <2>1. job[g].new \in Service /\ job[g].key \in Services
      BY <1>2, <1>7 DEF WriteServicesToFile, At, Accepted, Job
    <2>2. /\ permits' \in 0..UpdateThreadNum /\ PermitsHeld' /\ Accepted'
          /\ job' \in [Goroutines -> Job \union {NoJob}]
      BY <1>4, <1>7, <2>1 DEF WriteServicesToFile, updaterVars
    <2>3. file' \in [Services -> Old]
      BY <1>7, <2>1 DEF WriteServicesToFile, TypeOK, Old
    <2> QED BY <1>7, <2>2, <2>3 DEF WriteServicesToFile, TypeOK, Job, userVars, updaterVars, historyVars
  <1>8. CASE ServiceChanged(g)
    <2>1. job[g].new \in Service /\ job[g].key \in Services
      BY <1>2, <1>8 DEF ServiceChanged, At, Accepted, Job
    <2>2. /\ permits' \in 0..UpdateThreadNum /\ PermitsHeld' /\ Accepted'
          /\ job' \in [Goroutines -> Job \union {NoJob}]
      BY <1>3, <1>8 DEF ServiceChanged
    <2>3. told' \in [Services -> [Users -> HostLists \union {NoService}]]
      <3>1. job[g].new.hosts \in HostLists
        BY <2>1 DEF Service
      <3> QED BY <1>8, <2>1, <3>1 DEF ServiceChanged, TypeOK
    <2> QED BY <1>8, <2>2, <2>3 DEF ServiceChanged, TypeOK, Job, userVars
  <1> QED BY <1>5, <1>6, <1>7, <1>8 DEF Process

(* So do the services that arrive, the queries and the updater. *)
LEMMA FeedTyped ==
    ASSUME TypeOK, Accepted, PermitsHeld,
           \/ \E g \in Feeders, s \in Services : NamingPush(g, s) \/ handleClient(g, s)
           \/ \E p \in Pollers : QueryFails(p) \/ updateServiceNow(p)
           \/ Update
    PROVE  TypeOK' /\ Accepted' /\ PermitsHeld'
  <1>1. ASSUME NEW g \in Feeders, NEW s \in Services, NEW new \in Old, Brings(g, s, new)
        PROVE  TypeOK' /\ Accepted' /\ PermitsHeld'
    <2>0. g \in Goroutines /\ [pc |-> "load", key |-> s, new |-> new, old |-> NoService] \in Job
      BY DEF Goroutines, Job, Old
    <2>1. /\ job' \in [Goroutines -> Job \union {NoJob}]
          /\ job'[g] = [pc |-> "load", key |-> s, new |-> new, old |-> NoService]
          /\ \A h \in Goroutines \ {g} : job'[h] = job[h]
      BY <1>1, <2>0 DEF Brings, TypeOK, Job
    <2>2. job'[g].pc = "load" /\ permits' = permits
      BY <1>1, <2>1 DEF Brings, updaterVars
    <2>3. permits' \in 0..UpdateThreadNum /\ PermitsHeld' /\ Accepted'
      BY <2>0, <2>1, <2>2, JobMoves
    <2> QED BY <1>1, <2>1, <2>3 DEF Brings, TypeOK, Job, userVars, updaterVars, historyVars
  <1>2. ASSUME NEW g \in Feeders, NEW s \in Services, NamingPush(g, s) \/ handleClient(g, s)
        PROVE  TypeOK' /\ Accepted' /\ PermitsHeld'
    <2>1. server[s] \in Old /\ NoService \in Old
      BY DEF TypeOK, Old
    <2> QED BY <1>1, <1>2, <2>1 DEF NamingPush, handleClient
  <1>3. ASSUME NEW p \in Pollers, QueryFails(p) PROVE TypeOK' /\ Accepted' /\ PermitsHeld'
    <2>1. p \in Goroutines /\ ~At(p, "idle") /\ Ends(p)
      BY <1>3 DEF QueryFails, At, Goroutines
    <2>2. /\ job' \in [Goroutines -> Job \union {NoJob}] /\ job'[p] = NoJob
          /\ \A h \in Goroutines \ {p} : job'[h] = job[h]
      BY <2>1 DEF Ends, TypeOK, Job
    <2>3. permits' \in 0..UpdateThreadNum /\ PermitsHeld' /\ Accepted'
      BY <2>1, <2>2, JobMoves DEF NoJob
    <2> QED BY <1>3, <2>2, <2>3 DEF QueryFails, TypeOK, Job, userVars, historyVars
  <1>4. ASSUME NEW p \in Pollers, updateServiceNow(p) PROVE TypeOK' /\ Accepted' /\ PermitsHeld'
    <2>1. p \in Goroutines /\ ~At(p, "idle") /\ job[p] \in Job
      BY <1>4, AtWork DEF updateServiceNow, At, Goroutines
    <2>2. server[job[p].key] \in Old
      BY <2>1 DEF Job, TypeOK, Old
    <2>3. /\ job' \in [Goroutines -> Job \union {NoJob}] /\ job'[p].pc = "load"
          /\ \A h \in Goroutines \ {p} : job'[h] = job[h]
      BY <1>4, <2>1, <2>2 DEF updateServiceNow, TypeOK, Job
    <2>4. permits' = permits
      BY <1>4 DEF updateServiceNow, updaterVars
    <2>5. permits' \in 0..UpdateThreadNum /\ PermitsHeld' /\ Accepted'
      BY <2>1, <2>3, <2>4, JobMoves
    <2> QED BY <1>4, <2>3, <2>5 DEF updateServiceNow, TypeOK, Job, userVars, updaterVars, historyVars
  <1>5. ASSUME NEW s \in Services, NEW p \in Pollers, UpdaterPolls(s, p)
        PROVE  TypeOK' /\ Accepted' /\ PermitsHeld'
    <2>1. p \in Goroutines /\ At(p, "idle") /\ Acquire
      BY <1>5 DEF UpdaterPolls, Goroutines
    <2>2. [pc |-> "query", key |-> s, new |-> NoService, old |-> NoService] \in Job
      BY DEF Job, Old
    <2>3. /\ job' \in [Goroutines -> Job \union {NoJob}]
          /\ job'[p] = [pc |-> "query", key |-> s, new |-> NoService, old |-> NoService]
          /\ \A h \in Goroutines \ {p} : job'[h] = job[h]
      BY <1>5, <2>1, <2>2 DEF UpdaterPolls, TypeOK, Job, Old
    <2>4. job'[p].pc = "query"
      BY <2>3
    <2>5. p \notin Busy /\ Busy' = Busy \union {p}
      BY <2>1, <2>3, <2>4 DEF Busy, At, Goroutines
    <2>6. permits' \in 0..UpdateThreadNum /\ PermitsHeld'
      BY <2>1, <2>5, PermitsMove DEF TypeOK
    <2>7. Accepted'
      BY <2>3, <2>4 DEF Accepted
    <2> QED BY <1>5, <2>3, <2>6, <2>7 DEF UpdaterPolls, UpdaterVars, TypeOK, Job, userVars, historyVars
  <1>6. ASSUME UpdaterWakes \/ UpdaterSleeps \/ (\E s \in Services : UpdaterSkips(s) \/ UpdaterFinds(s))
        PROVE  TypeOK' /\ Accepted' /\ PermitsHeld'
    <2>1. /\ UNCHANGED <<job, permits, serviceInfoMap, fresh, file, userVars, server, historyVars>>
          /\ updater' \in {"sleep", "range"} /\ todo' \subseteq Services /\ due' \subseteq Services
      BY <1>6 DEF UpdaterWakes, UpdaterSleeps, UpdaterSkips, UpdaterFinds, UpdaterVars, Cached, TypeOK
    <2> QED BY <2>1 DEF TypeOK, Accepted, PermitsHeld, Busy, At, userVars, historyVars
  <1> QED BY <1>2, <1>3, <1>4, <1>5, <1>6 DEF Update

(* So do the users, the server and time. *)
LEMMA OthersTyped ==
    ASSUME TypeOK, Accepted, PermitsHeld,
           \/ \E u \in Users : UserStep(u)
           \/ \E s \in Services : TimePasses(s) \/ Publish(s)
    PROVE  TypeOK' /\ Accepted' /\ PermitsHeld'
  <1> USE CacheAssumption
  <1>1. ASSUME UNCHANGED <<job, permits>>, TypeOK' PROVE TypeOK' /\ Accepted' /\ PermitsHeld'
    BY <1>1 DEF Accepted, PermitsHeld, Busy, At
  <1>2. ASSUME NEW s \in Services, TimePasses(s) PROVE TypeOK' /\ Accepted' /\ PermitsHeld'
    BY <1>1, <1>2 DEF TimePasses, TypeOK, userVars, updaterVars, historyVars
  <1>3. ASSUME NEW s \in Services, Publish(s) PROVE TypeOK' /\ Accepted' /\ PermitsHeld'
    <2>1. PICK h \in HostLists : server' = [server EXCEPT ![s] = [time |-> server[s].time + 1, hosts |-> h]]
      BY <1>3 DEF Publish
    <2>2. server[s].time \in 0..MaxTime /\ server[s].time < MaxTime
      BY <1>3 DEF Publish, TypeOK, Service
    <2>3. [time |-> server[s].time + 1, hosts |-> h] \in Service
      BY <2>2 DEF Service
    <2>4. server' \in [Services -> Service]
      BY <2>1, <2>3 DEF TypeOK
    <2> QED BY <1>1, <1>3, <2>4 DEF Publish, TypeOK, userVars, updaterVars, historyVars
  <1>4. ASSUME NEW s \in Services, NEW funcs \in SUBSET Users, Registers(s, funcs)
        PROVE  /\ callbackFuncMap' \in [Services -> SUBSET Users]
               /\ told' \in [Services -> [Users -> HostLists \union {NoService}]]
    BY <1>4 DEF Registers, TypeOK
  <1>5. ASSUME NEW u \in Users, UserStep(u) PROVE TypeOK' /\ Accepted' /\ PermitsHeld'
    <2>0. ASSUME serviceInfoMap' \in [Services -> Old], callbackFuncMap' \in [Services -> SUBSET Users],
                 told' \in [Services -> [Users -> HostLists \union {NoService}]],
                 user' \in [Users -> UserCall \union {NoCall}], mux' \in Users \union {NoService},
                 calls' \in 0..MaxCalls, UserVars
          PROVE  TypeOK'
      BY <2>0 DEF UserVars, TypeOK, UserCall, updaterVars
    <2>1. ASSUME NEW s \in Services, AddReads(u, s) \/ RemoveReads(u, s) PROVE TypeOK'
      <3>1. user' \in [Users -> UserCall \union {NoCall}]
        BY <2>1 DEF AddReads, RemoveReads, TypeOK, UserCall
      <3>2. calls' \in 0..MaxCalls /\ mux' \in Users \union {NoService}
        BY <2>1 DEF AddReads, RemoveReads, TypeOK
      <3> QED BY <2>0, <2>1, <3>1, <3>2 DEF AddReads, RemoveReads, TypeOK
    <2>2. ASSUME AddCallbackFunc(u) PROVE TypeOK'
      <3>1. user[u].key \in Services /\ user[u].funcs \union {u} \in SUBSET Users
        BY <2>2, AtWork DEF AddCallbackFunc, UserCall
      <3>2. user' \in [Users -> UserCall \union {NoCall}] /\ mux' \in Users \union {NoService}
        BY <2>2 DEF AddCallbackFunc, TypeOK, UserCall
      <3> QED BY <1>4, <2>0, <2>2, <3>1, <3>2 DEF AddCallbackFunc, TypeOK
    <2>3. ASSUME RemoveCallbackFunc(u) PROVE TypeOK'
      <3>1. user[u] \in UserCall /\ user[u].key \in Services /\ user[u].funcs \ {u} \in SUBSET Users
        BY <2>3, AtWork DEF RemoveCallbackFunc, UserCall
      <3>2. user' \in [Users -> UserCall \union {NoCall}]
        BY <2>3, <3>1 DEF RemoveCallbackFunc, TypeOK, UserCall
      <3> QED BY <1>4, <2>0, <2>3, <3>1, <3>2 DEF RemoveCallbackFunc, TypeOK
    <2>4. ASSUME IsSubscribed(u) PROVE TypeOK'
      <3>1. user[u] \in UserCall
        BY <2>4, AtWork DEF IsSubscribed
      <3>2. user' \in [Users -> UserCall \union {NoCall}]
        BY <2>4, <3>1 DEF IsSubscribed, TypeOK, UserCall
      <3> QED BY <2>0, <2>4, <3>2 DEF IsSubscribed, TypeOK
    <2>5. ASSUME StopUpdateIfContain(u) PROVE TypeOK'
      <3>1. user' \in [Users -> UserCall \union {NoCall}] /\ serviceInfoMap' \in [Services -> Old]
        BY <2>5 DEF StopUpdateIfContain, TypeOK, UserCall, Old
      <3> QED BY <2>0, <2>5, <3>1 DEF StopUpdateIfContain, TypeOK
    <2>6. UNCHANGED <<job, permits>>
      BY <1>5 DEF UserStep, AddReads, RemoveReads, AddCallbackFunc, RemoveCallbackFunc, IsSubscribed,
                  StopUpdateIfContain, UserVars, updaterVars
    <2> QED BY <1>1, <1>5, <2>1, <2>2, <2>3, <2>4, <2>5, <2>6 DEF UserStep
  <1> QED BY <1>2, <1>3, <1>5

-----------------------------------------------------------------------------
(* What the callbacks know. *)

InProcess == {"store", "write", "notify"}

(* Nothing that matters to the callbacks of s happens. *)
ToldFrame(s) ==
    /\ Processing(s)' = Processing(s) /\ \A g \in Processing(s) : job'[g] = job[g]
    /\ told'[s] = told[s] /\ callbackFuncMap'[s] = callbackFuncMap[s]
    /\ serviceInfoMap'[s] = serviceInfoMap[s]
    /\ s \in overlap => s \in overlap'

(* Then what is known stays. *)
LEMMA ToldFrameKeeps ==
    ASSUME NEW s, ToldFrame(s), ToldAgrees(s) PROVE ToldAgrees(s)'
  <1>1. ASSUME NEW g \in Processing(s), Carries(g, s) PROVE Carries(g, s)'
    BY <1>1 DEF ToldFrame, Carries, At, Know
  <1> QED BY <1>1 DEF ToldFrame, ToldAgrees, Know

(* A goroutine that is and stays out of ProcessService's critical part.     *)
LEMMA OutsideKeepsTold ==
    ASSUME ToldInv, NEW g \in Goroutines, \A h \in Goroutines \ {g} : job'[h] = job[h],
           job[g].pc \notin InProcess, job'[g].pc \notin InProcess,
           UNCHANGED <<told, callbackFuncMap, serviceInfoMap, overlap>>
    PROVE  ToldInv'
  <1>1. \A s \in Services : ToldFrame(s)
    BY DEF ToldFrame, Processing, InProcess
  <1> QED BY <1>1, ToldFrameKeeps DEF ToldInv

(* Jobs that stay as they are. *)
LEMMA SameJobsKeepTold ==
    ASSUME ToldInv, UNCHANGED <<job, told, callbackFuncMap, serviceInfoMap, overlap>>
    PROVE  ToldInv'
  <1>1. \A s \in Services : ToldFrame(s)
    BY DEF ToldFrame, Processing
  <1> QED BY <1>1, ToldFrameKeeps DEF ToldInv

(* A verdict that nothing changed is right. *)
LEMMA UnchangedIsSame ==
    ASSUME NEW old, NEW new, FALSE \in checkInstanceChanged(old, new)
    PROVE  old # NoService /\ old.hosts = new.hosts
  BY DEF checkInstanceChanged

(* The steps of ProcessService. *)
LEMMA ProcessKeepsTold ==
    ASSUME CacheInv, NEW g \in Goroutines, Process(g)
    PROVE  ToldInv'
  <1>0. ~At(g, "idle") /\ TypeOK /\ ToldInv
    BY DEF Process, ProcessLoads, ProcessStores, WriteServicesToFile, ServiceChanged, At, CacheInv
  <1>1. job[g] \in Job
    BY <1>0, AtWork DEF At
  <1> PICK s \in Services : s = job[g].key
    BY <1>1 DEF Job
  <1>2. ASSUME Ends(g) PROVE job'[g] = NoJob /\ \A h \in Goroutines \ {g} : job'[h] = job[h]
    BY <1>0, <1>2 DEF Ends, TypeOK
  <1>3. ASSUME NEW pc, Goes(g, pc)
        PROVE  /\ job'[g].pc = pc /\ job'[g].key = s /\ job'[g].new = job[g].new
               /\ \A h \in Goroutines \ {g} : job'[h] = job[h]
    BY <1>0, <1>1, <1>3 DEF Goes, TypeOK, Job
  <1>4. SUFFICES ASSUME job'[g] = NoJob \/ job'[g].key = s PROVE ToldInv'
    <2>1. CASE ProcessLoads(g)
      <3>1. Ends(g) \/ job' = [job EXCEPT ![g].pc = "store", ![g].old = serviceInfoMap[job[g].key]]
        BY <2>1 DEF ProcessLoads
      <3>2. ASSUME job' = [job EXCEPT ![g].pc = "store", ![g].old = serviceInfoMap[job[g].key]]
            PROVE  job'[g].key = s
        BY <1>0, <1>1, <3>2 DEF TypeOK, Job
      <3> QED BY <1>2, <3>1, <3>2
    <2>2. CASE ProcessStores(g) \/ WriteServicesToFile(g) \/ ServiceChanged(g)
      <3>1. Ends(g) \/ (\E pc : Goes(g, pc))
        BY <2>2 DEF ProcessStores, WriteServicesToFile, ServiceChanged
      <3> QED BY <1>2, <1>3, <3>1
    <2> QED BY <2>1, <2>2 DEF Process
  <1>5. \A h \in Goroutines \ {g} : job'[h] = job[h]
    <2>1. Ends(g) \/ (\E pc : Goes(g, pc))
            \/ job' = [job EXCEPT ![g].pc = "store", ![g].old = serviceInfoMap[job[g].key]]
      BY DEF Process, ProcessLoads, ProcessStores, WriteServicesToFile, ServiceChanged
    <2> QED BY <1>0, <2>1 DEF Ends, Goes, TypeOK
  <1>6. ASSUME NEW q \in Services, q # s PROVE ToldFrame(q)
    <2>1. Processing(q)' = Processing(q) /\ \A h \in Processing(q) : job'[h] = job[h]
      BY <1>4, <1>5, <1>6 DEF Processing, NoJob
    <2>2. /\ told'[q] = told[q] /\ callbackFuncMap'[q] = callbackFuncMap[q]
          /\ serviceInfoMap'[q] = serviceInfoMap[q]
          /\ q \in overlap => q \in overlap'
      BY <1>0, <1>6 DEF Process, ProcessLoads, ProcessStores, WriteServicesToFile, ServiceChanged, TypeOK,
            userVars, historyVars
    <2> QED BY <2>1, <2>2 DEF ToldFrame
  <1>7. ToldAgrees(s)'
    <2>0. ToldAgrees(s)
      BY <1>0 DEF ToldInv
    <2>1. CASE ProcessLoads(g)
      <3>1. UNCHANGED <<told, callbackFuncMap, serviceInfoMap>> /\ At(g, "load")
        BY <2>1 DEF ProcessLoads, userVars
      <3>2. CASE Ends(g) /\ UNCHANGED overlap
        <4>1. job[g].pc \notin InProcess /\ job'[g].pc \notin InProcess
          BY <1>2, <3>1, <3>2 DEF InProcess, NoJob, At
        <4>2. ToldInv'
          BY <1>0, <1>5, <3>1, <3>2, <4>1, OutsideKeepsTold
        <4> QED BY <4>2 DEF ToldInv
      <3>3. CASE /\ job' = [job EXCEPT ![g].pc = "store", ![g].old = serviceInfoMap[s]]
                 /\ overlap' = IF Processing(s) = {} THEN overlap ELSE overlap \union {s}
        <4>1. job'[g].pc = "store" /\ job'[g].key = s /\ job'[g].old = serviceInfoMap[s]
          BY <1>0, <1>1, <3>3 DEF TypeOK, Job
        <4>2. ASSUME s \notin overlap'
              PROVE  Processing(s) = {} /\ Processing(s)' = {g} /\ s \notin overlap
          <5>1. Processing(s) = {} /\ s \notin overlap
            BY <3>3, <4>2
          <5> QED BY <1>5, <4>1, <5>1 DEF Processing
        <4>3. ASSUME s \notin overlap' PROVE Carries(g, s)'
          BY <2>0, <3>1, <4>1, <4>2, <4>3 DEF Carries, At, ToldAgrees, Know
        <4> QED BY <2>0, <3>1, <4>2, <4>3 DEF ToldAgrees
      <3> QED BY <2>1, <3>2, <3>3 DEF ProcessLoads
    <2>2. CASE ProcessStores(g)
      <3>1. UNCHANGED <<told, callbackFuncMap, overlap>> /\ At(g, "store") /\ serviceInfoMap'[s] = job[g].new
        BY <1>0, <2>2 DEF ProcessStores, userVars, historyVars, TypeOK
      <3>2. g \in Processing(s)
        BY <3>1 DEF Processing, At
      <3>3. ASSUME s \notin overlap PROVE Processing(s) = {g} /\ Carries(g, s)
        BY <2>0, <3>2, <3>3 DEF ToldAgrees
      <3>4. CASE Goes(g, "write")
        <4>1. job'[g].pc = "write" /\ job'[g].key = s /\ job'[g].new = job[g].new
          BY <1>3, <3>4
        <4>2. Processing(s)' = Processing(s)
          BY <1>5, <3>2, <4>1 DEF Processing
        <4>3. Carries(g, s)'
          BY <3>1, <4>1 DEF Carries, At
        <4> QED BY <2>0, <3>1, <3>3, <4>2, <4>3 DEF ToldAgrees
      <3>5. CASE Ends(g) /\ FALSE \in checkInstanceChanged(job[g].old, job[g].new)
        <4>1. job'[g] = NoJob
          BY <1>2, <3>5
        <4>2. Processing(s)' = Processing(s) \ {g}
          BY <1>5, <4>1 DEF Processing, NoJob
        <4>3. job[g].old # NoService /\ job[g].old.hosts = job[g].new.hosts
          BY <3>5, UnchangedIsSame
        <4>4. ASSUME s \notin overlap PROVE Know(s, serviceInfoMap[s].hosts)'
          BY <3>1, <3>3, <4>3, <4>4 DEF Carries, Know
        <4> QED BY <2>0, <3>1, <3>3, <4>2, <4>4 DEF ToldAgrees
      <3>6. checkInstanceChanged(job[g].old, job[g].new) \subseteq BOOLEAN
        BY DEF checkInstanceChanged
      <3> QED BY <2>2, <3>4, <3>5, <3>6 DEF ProcessStores
    <2>3. CASE WriteServicesToFile(g)
      <3>1. UNCHANGED <<told, callbackFuncMap, serviceInfoMap, overlap>> /\ At(g, "write") /\ Goes(g, "notify")
        BY <2>3 DEF WriteServicesToFile, userVars, historyVars
      <3>2. g \in Processing(s)
        BY <3>1 DEF Processing, At
      <3>3. ASSUME s \notin overlap PROVE Processing(s) = {g} /\ Carries(g, s)
        BY <2>0, <3>2, <3>3 DEF ToldAgrees
      <3>4. job'[g].pc = "notify" /\ job'[g].key = s /\ job'[g].new = job[g].new
        BY <1>3, <3>1
      <3>5. Processing(s)' = Processing(s)
        BY <1>5, <3>2, <3>4 DEF Processing
      <3>6. ASSUME s \notin overlap PROVE Carries(g, s)'
        BY <3>1, <3>3, <3>4, <3>6 DEF Carries, At
      <3> QED BY <2>0, <3>1, <3>3, <3>5, <3>6 DEF ToldAgrees
    <2>4. CASE ServiceChanged(g)
      <3>1. /\ UNCHANGED <<callbackFuncMap, serviceInfoMap, overlap>> /\ At(g, "notify") /\ Ends(g)
            /\ \A u \in Users : told'[s][u] = IF u \in callbackFuncMap[s] THEN job[g].new.hosts ELSE told[s][u]
        BY <1>0, <2>4 DEF ServiceChanged, userVars, TypeOK
      <3>2. g \in Processing(s)
        BY <3>1 DEF Processing, At
      <3>3. ASSUME s \notin overlap PROVE Processing(s) = {g} /\ Carries(g, s)
        BY <2>0, <3>2, <3>3 DEF ToldAgrees
      <3>4. Processing(s)' = Processing(s) \ {g}
        BY <1>2, <1>5, <3>1 DEF Processing, NoJob
      <3>5. \A u \in Users : told'[s][u] \in {NoService, job[g].new.hosts}
        BY <2>0, <3>1 DEF ToldAgrees
      <3>6. ASSUME s \notin overlap, serviceInfoMap[s] # NoService PROVE Know(s, serviceInfoMap[s].hosts)'
        <4>1. serviceInfoMap'[s] = job[g].new
          BY <3>1, <3>3, <3>6 DEF Carries, At
        <4> QED BY <3>1, <3>5, <4>1 DEF Know
      <3> QED BY <2>0, <3>1, <3>3, <3>4, <3>6 DEF ToldAgrees
    <2> QED BY <2>1, <2>2, <2>3, <2>4 DEF Process
  <1> QED BY <1>0, <1>6, <1>7, ToldFrameKeeps DEF ToldInv

(* The services that arrive, the queries and the updater. *)
LEMMA FeedKeepsTold ==
    ASSUME CacheInv,
           \/ \E g \in Feeders, s \in Services : NamingPush(g, s) \/ handleClient(g, s)
           \/ \E p \in Pollers : QueryFails(p) \/ updateServiceNow(p)
           \/ Update
    PROVE  ToldInv'
  <1>0. TypeOK /\ ToldInv
    BY DEF CacheInv
  <1>1. ASSUME NEW g \in Feeders, NEW s \in Services, NEW new, Brings(g, s, new) PROVE ToldInv'
    <2>1. g \in Goroutines /\ At(g, "idle")
      BY <1>1 DEF Goroutines, Brings
    <2>2. /\ job'[g] = [pc |-> "load", key |-> s, new |-> new, old |-> NoService]
          /\ \A h \in Goroutines \ {g} : job'[h] = job[h]
      BY <1>0, <1>1, <2>1 DEF Brings, TypeOK
    <2>3. job[g].pc \notin InProcess /\ job'[g].pc \notin InProcess
      BY <2>1, <2>2 DEF InProcess, At
    <2> QED BY <1>0, <1>1, <2>1, <2>2, <2>3, OutsideKeepsTold DEF Brings, userVars, historyVars
  <1>2. ASSUME NEW p \in Pollers, QueryFails(p) \/ updateServiceNow(p) PROVE ToldInv'
    <2>1. p \in Goroutines /\ At(p, "query")
      BY <1>2 DEF Goroutines, QueryFails, updateServiceNow
    <2>2. job[p] \in Job
      BY <1>0, <2>1, AtWork DEF At
    <2>3. job'[p].pc \in {"idle", "load"} /\ \A h \in Goroutines \ {p} : job'[h] = job[h]
      <3>1. CASE QueryFails(p)
        BY <1>0, <2>1, <3>1 DEF QueryFails, Ends, TypeOK, NoJob
      <3>2. CASE updateServiceNow(p)
        BY <1>0, <2>1, <2>2, <3>2 DEF updateServiceNow, TypeOK, Job
      <3> QED BY <1>2, <3>1, <3>2
    <2>4. job[p].pc \notin InProcess /\ job'[p].pc \notin InProcess
      BY <2>1, <2>3 DEF InProcess, At
    <2>5. UNCHANGED <<told, callbackFuncMap, serviceInfoMap, overlap>>
      BY <1>2 DEF QueryFails, updateServiceNow, userVars, historyVars
    <2> QED BY <1>0, <2>1, <2>3, <2>4, <2>5, OutsideKeepsTold
  <1>3. ASSUME NEW s \in Services, NEW p \in Pollers, UpdaterPolls(s, p) PROVE ToldInv'
    <2>1. p \in Goroutines /\ At(p, "idle")
      BY <1>3 DEF Goroutines, UpdaterPolls
    <2>2. /\ job'[p] = [pc |-> "query", key |-> s, new |-> NoService, old |-> NoService]
          /\ \A h \in Goroutines \ {p} : job'[h] = job[h]
      BY <1>0, <1>3, <2>1 DEF UpdaterPolls, TypeOK
    <2>3. job[p].pc \notin InProcess /\ job'[p].pc \notin InProcess
      BY <2>1, <2>2 DEF InProcess, At
    <2>4. UNCHANGED <<told, callbackFuncMap, serviceInfoMap, overlap>>
      BY <1>3 DEF UpdaterPolls, UpdaterVars, userVars, historyVars
    <2> QED BY <1>0, <2>1, <2>2, <2>3, <2>4, OutsideKeepsTold
  <1>4. ASSUME UpdaterWakes \/ UpdaterSleeps \/ (\E s \in Services : UpdaterSkips(s) \/ UpdaterFinds(s)) PROVE ToldInv'
    <2>1. UNCHANGED <<job, told, callbackFuncMap, serviceInfoMap, overlap>>
      BY <1>4 DEF UpdaterWakes, UpdaterSleeps, UpdaterSkips, UpdaterFinds, UpdaterVars, userVars, historyVars
    <2> QED BY <1>0, <2>1, SameJobsKeepTold
  <1> QED BY <1>1, <1>2, <1>3, <1>4 DEF Update, NamingPush, handleClient

(* The users, the server and time. *)
LEMMA OthersKeepTold ==
    ASSUME CacheInv,
           \/ \E u \in Users : UserStep(u)
           \/ \E s \in Services : TimePasses(s) \/ Publish(s)
    PROVE  ToldInv'
  <1>0. TypeOK /\ ToldInv
    BY DEF CacheInv
  <1>1. ASSUME NEW s \in Services, TimePasses(s) \/ Publish(s) PROVE ToldInv'
    <2>1. UNCHANGED <<job, told, callbackFuncMap, serviceInfoMap, overlap>>
      BY <1>1 DEF TimePasses, Publish, userVars, historyVars
    <2> QED BY <1>0, <2>1, SameJobsKeepTold
  <1>2. ASSUME NEW s \in Services, NEW funcs \in SUBSET Users, Registers(s, funcs),
               UNCHANGED <<job, serviceInfoMap, overlap>>
        PROVE  ToldInv'
    <2>1. /\ callbackFuncMap'[s] = funcs
          /\ \A u \in Users : told'[s][u] = IF u \in funcs THEN told[s][u] ELSE NoService
          /\ \A q \in Services \ {s} : callbackFuncMap'[q] = callbackFuncMap[q] /\ told'[q] = told[q]
      BY <1>0, <1>2 DEF Registers, TypeOK
    <2>2. \A q \in Services \ {s} : ToldFrame(q)
      BY <1>2, <2>1 DEF ToldFrame, Processing
    <2>3. ToldAgrees(s)'
      <3>1. ToldAgrees(s)
        BY <1>0 DEF ToldInv
      <3>2. Processing(s)' = Processing(s)
        BY <1>2 DEF Processing
      <3>3. \A hosts : Know(s, hosts) => \A u \in Users : told'[s][u] \in {NoService, hosts}
        BY <2>1 DEF Know
      <3>4. ASSUME NEW g \in Processing(s), Carries(g, s) PROVE Carries(g, s)'
        BY <1>2, <3>3, <3>4 DEF Carries, At, Know
      <3>5. serviceInfoMap[s] # NoService /\ Know(s, serviceInfoMap[s].hosts) => Know(s, serviceInfoMap[s].hosts)'
        BY <1>2, <3>3 DEF Know
      <3>6. \A u \in Users \ callbackFuncMap'[s] : told'[s][u] = NoService
        BY <2>1
      <3> QED BY <1>2, <3>1, <3>2, <3>4, <3>5, <3>6 DEF ToldAgrees
    <2> QED BY <1>0, <2>2, <2>3, ToldFrameKeeps DEF ToldInv
  <1>3. ASSUME NEW u \in Users, AddCallbackFunc(u) \/ RemoveCallbackFunc(u) PROVE ToldInv'
    <2>1. user[u] \in UserCall
      BY <1>0, <1>3, AtWork DEF AddCallbackFunc, RemoveCallbackFunc
    <2>2. /\ user[u].key \in Services
          /\ user[u].funcs \union {u} \in SUBSET Users /\ user[u].funcs \ {u} \in SUBSET Users
      BY <2>1 DEF UserCall
    <2>3. UNCHANGED <<job, serviceInfoMap, overlap>>
      BY <1>3 DEF AddCallbackFunc, RemoveCallbackFunc, UserVars
    <2> QED BY <1>2, <1>3, <2>2, <2>3 DEF AddCallbackFunc, RemoveCallbackFunc
  <1>4. ASSUME NEW u \in Users, IsSubscribed(u) \/ (\E s \in Services : AddReads(u, s) \/ RemoveReads(u, s))
        PROVE  ToldInv'
    <2>1. UNCHANGED <<job, told, callbackFuncMap, serviceInfoMap, overlap>>
      BY <1>4 DEF IsSubscribed, AddReads, RemoveReads, UserVars
    <2> QED BY <1>0, <2>1, SameJobsKeepTold
  <1>5. ASSUME NEW u \in Users, StopUpdateIfContain(u) PROVE ToldInv'
    <2>1. PICK s \in Services : s = user[u].key
      BY <1>0, <1>5, AtWork DEF StopUpdateIfContain, UserCall
    <2>2. /\ UNCHANGED <<job, told, callbackFuncMap, overlap>>
          /\ serviceInfoMap'[s] = NoService
          /\ \A q \in Services \ {s} : serviceInfoMap'[q] = serviceInfoMap[q]
      BY <1>0, <1>5, <2>1 DEF StopUpdateIfContain, UserVars, TypeOK
    <2>3. \A q \in Services \ {s} : ToldFrame(q)
      BY <2>2 DEF ToldFrame, Processing
    <2>4. ToldAgrees(s)'
      <3>1. ToldAgrees(s)
        BY <1>0 DEF ToldInv
      <3>2. Processing(s)' = Processing(s)
        BY <2>2 DEF Processing
      <3>3. ASSUME NEW g \in Processing(s), Carries(g, s) PROVE Carries(g, s)'
        BY <2>2, <3>3 DEF Carries, At, Know
      <3> QED BY <2>2, <3>1, <3>2, <3>3 DEF ToldAgrees
    <2> QED BY <1>0, <2>3, <2>4, ToldFrameKeeps DEF ToldInv
  <1> QED BY <1>1, <1>3, <1>4, <1>5 DEF UserStep

-----------------------------------------------------------------------------
(* The theorems. *)

(* The client starts with what the files have, no callback and all permits. *)
LEMMA InitInv == Init => CacheInv
  <1> SUFFICES ASSUME Init PROVE CacheInv
    OBVIOUS
  <1> USE CacheAssumption DEF Init
  <1>1. \A s : Processing(s) = {}
    BY DEF Processing, NoJob
  <1>2. Busy = {}
    BY DEF Busy, At, NoJob, Goroutines
  <1>3. PermitsHeld
    <2>1. IsFiniteSet(Busy) /\ Cardinality(Busy) = 0
      BY <1>2, FS_EmptySet
    <2> QED BY <2>1 DEF PermitsHeld
  <1>4. Accepted
    BY DEF Accepted, NoJob
  <1>5. ToldInv
    BY <1>1 DEF ToldInv, ToldAgrees, Know
  <1>6. TypeOK
    <2>1. server \in [Services -> Service]
      BY DEF Service
    <2>2. file \in [Services -> Old]
      <3>1. \A h \in HostLists : [time |-> 0, hosts |-> h] \in Service
        BY DEF Service
      <3> QED BY <3>1 DEF Old
    <2>3. serviceInfoMap \in [Services -> Old]
      BY <2>2 DEF loadCacheFromDisk, Old
    <2>4. /\ job \in [Goroutines -> Job \union {NoJob}] /\ user \in [Users -> UserCall \union {NoCall}]
          /\ callbackFuncMap \in [Services -> SUBSET Users]
          /\ told \in [Services -> [Users -> HostLists \union {NoService}]]
      OBVIOUS
    <2>5. permits \in 0..UpdateThreadNum /\ calls \in 0..MaxCalls
      OBVIOUS
    <2> QED BY <2>1, <2>2, <2>3, <2>4, <2>5 DEF TypeOK, Job, UserCall
  <1> QED BY <1>3, <1>4, <1>5, <1>6 DEF CacheInv

(* Every step keeps the inductive invariant. *)
LEMMA NextInv == CacheInv /\ [Next]_vars => CacheInv'
  <1> SUFFICES ASSUME CacheInv, [Next]_vars PROVE CacheInv'
    OBVIOUS
  <1>0. TypeOK /\ Accepted /\ PermitsHeld /\ ToldInv
    BY DEF CacheInv
  <1>1. ASSUME NEW g \in Goroutines, Process(g) PROVE CacheInv'
    BY <1>0, <1>1, ProcessTyped, ProcessKeepsTold DEF CacheInv
  <1>2. CASE \/ \E g \in Feeders, s \in Services : NamingPush(g, s) \/ handleClient(g, s)
             \/ \E p \in Pollers : QueryFails(p) \/ updateServiceNow(p)
             \/ Update
    BY <1>0, <1>2, FeedTyped, FeedKeepsTold DEF CacheInv
  <1>3. CASE \/ \E u \in Users : UserStep(u)
             \/ \E s \in Services : TimePasses(s) \/ Publish(s)
    BY <1>0, <1>3, OthersTyped, OthersKeepTold DEF CacheInv
  <1>4. CASE UNCHANGED vars
    <2>1. ToldInv'
      BY <1>0, <1>4, SameJobsKeepTold DEF vars, userVars, historyVars
    <2>2. TypeOK' /\ Accepted' /\ PermitsHeld'
      BY <1>0, <1>4 DEF vars, userVars, updaterVars, historyVars, TypeOK, Accepted, PermitsHeld, Busy, At
    <2> QED BY <2>1, <2>2 DEF CacheInv
  <1> QED BY <1>1, <1>2, <1>3, <1>4 DEF Next

(* The inductive invariant holds of every behaviour. *)
LEMMA Invariants == Spec => []CacheInv
  BY InitInv, NextInv, PTL DEF Spec

(* The cache, the callbacks, the jobs and the permits have their types; in  *)
(* particular no permit is given back that was not taken.                   *)
THEOREM TypeCorrect == Spec => []TypeOK
  <1>1. CacheInv => TypeOK
    BY DEF CacheInv
  <1> QED BY <1>1, Invariants, PTL

(* The updater never runs more queries than it has permits, however many    *)
(* services are due and on whichever path its goroutines end.               *)
THEOREM UpdaterIsBounded == Spec => []QueriesBounded
  <1>1. CacheInv => QueriesBounded
    <2> SUFFICES ASSUME CacheInv PROVE Cardinality(Busy) <= UpdateThreadNum
      BY DEF QueriesBounded, Busy
    <2>1. Cardinality(Busy) \in Nat /\ permits \in Nat /\ permits + Cardinality(Busy) = UpdateThreadNum
      BY FS_CardinalityType DEF CacheInv, PermitsHeld, TypeOK
    <2> QED BY <2>1, CacheAssumption
  <1> QED BY <1>1, Invariants, PTL

(* A callback knows what the cache holds: for any number of services, users *)
(* and goroutines, with callbacks added and removed without a lock and      *)
(* services removed by Unsubscribe, as long as no two ProcessService of the *)
(* service overlapped.                                                      *)
THEOREM CallbacksKnowTheCache == Spec => []LastToldIsCached
  <1>1. CacheInv => LastToldIsCached
    BY DEF CacheInv, TypeOK, ToldInv, ToldAgrees, Know, LastToldIsCached
  <1> QED BY <1>1, Invariants, PTL
-----------------------------------------------------------------------------
(* The times of cached services. *)

(* A ProcessService that is alone with its service and about to store holds *)
(* a newer one than the cache, which is still as it read it, or empty.      *)
StoresNewer(s) ==
    s \notin overlap =>
        \A g \in Processing(s) : At(g, "store") =>
            /\ serviceInfoMap[s] \in {job[g].old, NoService}
            /\ ~OutOfDate(job[g].old, job[g].new)

NewerInv == \A s \in Services : StoresNewer(s)

(* No cached service is replaced by one of the same time or an older one. *)
MovesForward ==
    \A s \in Services \ overlap :
        \/ serviceInfoMap'[s] \in {serviceInfoMap[s], NoService}
        \/ serviceInfoMap[s] = NoService
        \/ serviceInfoMap'[s].time > serviceInfoMap[s].time

(* A step that brings nobody to the store and stores nothing keeps NewerInv. *)
LEMMA NewerKept ==
    ASSUME NewerInv, overlap \subseteq overlap',
           \A s \in Services : serviceInfoMap'[s] \in {serviceInfoMap[s], NoService},
           \A g \in Goroutines : job'[g] = job[g] \/ job'[g].pc # "store"
    PROVE  NewerInv'
  <1> SUFFICES ASSUME NEW s \in Services, s \notin overlap', NEW g \in Processing(s)', At(g, "store")'
               PROVE  /\ serviceInfoMap'[s] \in {job'[g].old, NoService}
                      /\ ~OutOfDate(job'[g].old, job'[g].new)
    BY DEF NewerInv, StoresNewer
  <1>1. g \in Goroutines /\ job'[g] = job[g] /\ g \in Processing(s) /\ At(g, "store")
    BY DEF Processing, At
  <1>2. serviceInfoMap[s] \in {job[g].old, NoService} /\ ~OutOfDate(job[g].old, job[g].new)
    BY <1>1 DEF NewerInv, StoresNewer
  <1> QED BY <1>1, <1>2

(* A goroutine that ends, or goes past the store, is not at it. *)
LEMMA GoesElsewhere ==
    ASSUME job \in [Goroutines -> Job \union {NoJob}], NEW g \in Goroutines,
           \/ Ends(g)
           \/ job[g] \in Job /\ \E pc \in {"write", "notify"} : Goes(g, pc)
    PROVE  job'[g].pc # "store" /\ \A h \in Goroutines \ {g} : job'[h] = job[h]
  <1>1. CASE Ends(g)
    BY <1>1 DEF Ends, NoJob
  <1>2. ASSUME job[g] \in Job, NEW pc \in {"write", "notify"}, Goes(g, pc)
        PROVE  job'[g].pc # "store" /\ \A h \in Goroutines \ {g} : job'[h] = job[h]
    <2>1. job'[g] = [job[g] EXCEPT !.pc = pc] /\ \A h \in Goroutines \ {g} : job'[h] = job[h]
      BY <1>2 DEF Goes
    <2>2. job'[g].pc = pc
      BY <1>2, <2>1 DEF Job
    <2> QED BY <2>1, <2>2
  <1> QED BY <1>1, <1>2

(* ProcessService reads, compares and stores; nobody else stores. *)
LEMMA ProcessKeepsNewer ==
    ASSUME CacheInv, NewerInv, NEW g \in Goroutines, Process(g)
    PROVE  NewerInv' /\ MovesForward
  <1> DEFINE s == job[g].key
  <1>0. TypeOK /\ Accepted /\ ToldInv /\ job \in [Goroutines -> Job \union {NoJob}]
    BY DEF CacheInv, TypeOK, Job
  <1>1. ~At(g, "idle") /\ job[g] \in Job /\ s \in Services
    <2>1. ~At(g, "idle")
      BY DEF Process, ProcessLoads, ProcessStores, WriteServicesToFile, ServiceChanged, At
    <2> QED BY <1>0, <2>1, AtWork DEF At, Job
  <1>2. CASE ProcessLoads(g)
    <2>1. UNCHANGED serviceInfoMap /\ overlap \subseteq overlap'
      BY <1>2 DEF ProcessLoads
    <2>2. MovesForward
      BY <2>1 DEF MovesForward
    <2>3. CASE job' = [job EXCEPT ![g] = NoJob]
      <3>1. \A h \in Goroutines : job'[h] = job[h] \/ job'[h].pc # "store"
        BY <1>0, <2>3 DEF NoJob
      <3> QED BY <2>1, <2>2, <3>1, NewerKept
    <2>4. CASE /\ job' = [job EXCEPT ![g].pc = "store", ![g].old = serviceInfoMap[s]]
               /\ ~OutOfDate(serviceInfoMap[s], job[g].new)
      <3>1. /\ job'[g].pc = "store" /\ job'[g].key = s
            /\ job'[g].old = serviceInfoMap[s] /\ job'[g].new = job[g].new
            /\ \A h \in Goroutines \ {g} : job'[h] = job[h]
        BY <1>0, <1>1, <2>4 DEF Job
      <3> SUFFICES ASSUME NEW r \in Services, r \notin overlap', NEW h \in Processing(r)',
                          At(h, "store")'
                   PROVE  /\ serviceInfoMap'[r] \in {job'[h].old, NoService}
                          /\ ~OutOfDate(job'[h].old, job'[h].new)
        BY <2>2 DEF NewerInv, StoresNewer
      <3>2. CASE h = g
        <4>1. r = s
          BY <3>1, <3>2 DEF Processing
        <4> QED BY <2>1, <2>4, <3>1, <3>2, <4>1
      <3>3. CASE h # g
        <4>1. h \in Goroutines /\ job'[h] = job[h] /\ h \in Processing(r) /\ At(h, "store")
          BY <3>1, <3>3 DEF Processing, At
        <4> QED BY <2>1, <4>1 DEF NewerInv, StoresNewer
      <3> QED BY <3>2, <3>3
    <2> QED BY <1>2, <2>3, <2>4 DEF ProcessLoads, Ends
  <1>3. CASE ProcessStores(g)
    <2>1. /\ serviceInfoMap' = [serviceInfoMap EXCEPT ![s] = job[g].new]
          /\ UNCHANGED overlap /\ g \in Processing(s) /\ At(g, "store")
      BY <1>3 DEF ProcessStores, Processing, At, historyVars
    <2>2. job'[g].pc # "store" /\ \A h \in Goroutines \ {g} : job'[h] = job[h]
      <3>1. Ends(g) \/ Goes(g, "write")
        BY <1>3 DEF ProcessStores
      <3> QED BY <1>0, <1>1, <3>1, GoesElsewhere
    <2>3. job[g].new \in Service /\ serviceInfoMap \in [Services -> Old]
      BY <1>0, <2>1 DEF Accepted, At, TypeOK
    <2>4. MovesForward
      <3> SUFFICES ASSUME s \notin overlap, serviceInfoMap[s] # NoService
                   PROVE  job[g].new.time > serviceInfoMap[s].time
        BY <1>1, <2>1, <2>3 DEF MovesForward
      <3>1. serviceInfoMap[s] = job[g].old /\ ~OutOfDate(job[g].old, job[g].new)
        BY <1>1, <2>1 DEF NewerInv, StoresNewer
      <3>2. serviceInfoMap[s].time \in 0..MaxTime /\ job[g].new.time \in 0..MaxTime
        BY <1>1, <2>3 DEF Old, Service
      <3> QED BY <3>1, <3>2, CacheAssumption DEF OutOfDate
    <2>5. NewerInv'
      <3> SUFFICES ASSUME NEW r \in Services, r \notin overlap, NEW h \in Processing(r)',
                          At(h, "store")'
                   PROVE  /\ serviceInfoMap'[r] \in {job'[h].old, NoService}
                          /\ ~OutOfDate(job'[h].old, job'[h].new)
        BY <2>1 DEF NewerInv, StoresNewer
      <3>1. h \in Goroutines /\ h # g /\ job'[h] = job[h] /\ h \in Processing(r) /\ At(h, "store")
        BY <2>2 DEF Processing, At
      <3>2. r # s
        BY <1>0, <2>1, <3>1 DEF ToldInv, ToldAgrees
      <3> QED BY <2>1, <2>3, <3>1, <3>2 DEF NewerInv, StoresNewer
    <2> QED BY <2>4, <2>5
  <1>4. CASE WriteServicesToFile(g) \/ ServiceChanged(g)
    <2>1. UNCHANGED <<serviceInfoMap, overlap>>
      BY <1>4 DEF WriteServicesToFile, ServiceChanged, historyVars
    <2>2. \A h \in Goroutines : job'[h] = job[h] \/ job'[h].pc # "store"
      <3>1. Ends(g) \/ Goes(g, "notify")
        BY <1>4 DEF WriteServicesToFile, ServiceChanged
      <3>2. job'[g].pc # "store" /\ \A h \in Goroutines \ {g} : job'[h] = job[h]
        BY <1>0, <1>1, <3>1, GoesElsewhere
      <3> QED BY <3>2
    <2> QED BY <2>1, <2>2, NewerKept DEF MovesForward
  <1> QED BY <1>2, <1>3, <1>4 DEF Process

(* Those who bring services, the updater, users and the server store none. *)
LEMMA OthersKeepNewer ==
    ASSUME CacheInv, NewerInv,
           \/ \E g \in Feeders, s \in Services : NamingPush(g, s) \/ handleClient(g, s)
           \/ Update
           \/ \E p \in Pollers : QueryFails(p) \/ updateServiceNow(p)
           \/ \E u \in Users : UserStep(u)
           \/ \E s \in Services : TimePasses(s) \/ Publish(s)
           \/ UNCHANGED vars
    PROVE  NewerInv' /\ MovesForward
  <1>0. /\ job \in [Goroutines -> Job \union {NoJob}]
        /\ serviceInfoMap \in [Services -> Old]
    BY DEF CacheInv, TypeOK, Job
  <1> DEFINE Emptied == \A s \in Services : serviceInfoMap'[s] \in {serviceInfoMap[s], NoService}
             NoneLoads == \A g \in Goroutines : job'[g] = job[g] \/ job'[g].pc # "store"
  <1>1. UNCHANGED overlap
    BY DEF NamingPush, handleClient, Brings, Update, UpdaterWakes, UpdaterSkips, UpdaterFinds, UpdaterPolls,
       UpdaterSleeps, UpdaterVars, QueryFails, updateServiceNow, UserStep, AddReads,
       AddCallbackFunc, RemoveReads, RemoveCallbackFunc, IsSubscribed, StopUpdateIfContain,
       UserVars, TimePasses, Publish, historyVars, vars
  <1>2. Emptied
    <2>1. CASE \E u \in Users : StopUpdateIfContain(u)
      BY <1>0, <2>1 DEF StopUpdateIfContain
    <2>2. CASE UNCHANGED serviceInfoMap
      BY <2>2
    <2> QED
      BY <2>1, <2>2 DEF NamingPush, handleClient, Brings, Update, UpdaterWakes, UpdaterSkips, UpdaterFinds,
         UpdaterPolls, UpdaterSleeps, UpdaterVars, QueryFails, updateServiceNow, UserStep,
         AddReads, AddCallbackFunc, RemoveReads, RemoveCallbackFunc, IsSubscribed,
         TimePasses, Publish, vars
  <1>3. NoneLoads
    <2>1. ASSUME NEW g \in Feeders, NEW s \in Services, NEW new, Brings(g, s, new) PROVE NoneLoads
      BY <1>0, <2>1 DEF Brings
    <2>2. ASSUME NEW p \in Pollers, NEW s \in Services, UpdaterPolls(s, p) PROVE NoneLoads
      BY <1>0, <2>2 DEF UpdaterPolls
    <2>3. ASSUME NEW p \in Pollers, QueryFails(p) \/ updateServiceNow(p) PROVE NoneLoads
      <3>1. p \in Goroutines
        BY DEF Goroutines
      <3>2. CASE QueryFails(p)
        <4>1. job'[p].pc # "store" /\ \A h \in Goroutines \ {p} : job'[h] = job[h]
          BY <1>0, <3>1, <3>2, GoesElsewhere DEF QueryFails
        <4> QED BY <4>1
      <3>3. CASE updateServiceNow(p)
        <4>1. job[p] \in Job
          BY <1>0, <3>1, <3>3, AtWork DEF updateServiceNow, At, CacheInv
        <4>2. /\ job'[p] = [job[p] EXCEPT !.pc = "load", !.new = server[job[p].key]]
              /\ \A h \in Goroutines \ {p} : job'[h] = job[h]
          BY <1>0, <3>1, <3>3 DEF updateServiceNow
        <4>3. job'[p].pc = "load"
          BY <4>1, <4>2 DEF Job
        <4> QED BY <4>2, <4>3
      <3> QED BY <2>3, <3>2, <3>3
    <2>4. CASE UNCHANGED job
      BY <2>4
    <2> HIDE DEF NoneLoads
    <2>5. CASE \E g \in Feeders, s \in Services : NamingPush(g, s) \/ handleClient(g, s)
      BY <2>1, <2>5 DEF NamingPush, handleClient
    <2>6. CASE Update
      BY <2>2, <2>4, <2>6 DEF Update, UpdaterWakes, UpdaterSleeps, UpdaterSkips, UpdaterFinds
    <2>7. CASE (\E u \in Users : UserStep(u)) \/ (\E s \in Services : TimePasses(s) \/ Publish(s))
               \/ UNCHANGED vars
      BY <2>4, <2>7 DEF UserStep, AddReads, AddCallbackFunc, RemoveReads, RemoveCallbackFunc,
         IsSubscribed, StopUpdateIfContain, UserVars, TimePasses, Publish, vars
    <2> QED BY <2>3, <2>5, <2>6, <2>7
  <1> QED BY <1>1, <1>2, <1>3, NewerKept DEF MovesForward

(* The cache of a service never goes back in time: a push or an answer that *)
(* is late, or repeated, does not replace what came before it, as long as   *)
(* no two ProcessService of the service overlapped.  Only Unsubscribe       *)
(* empties an entry.                                                        *)
THEOREM CacheNeverGoesBack == Spec => [][MovesForward]_vars
  <1>1. Init => NewerInv
    BY DEF Init, NewerInv, StoresNewer, Processing, NoJob
  <1>2. CacheInv /\ NewerInv /\ [Next]_vars => NewerInv' /\ MovesForward
    BY ProcessKeepsNewer, OthersKeepNewer DEF Next
  <1> QED BY <1>1, <1>2, Invariants, PTL DEF Spec
=============================================================================
