---------------------------- MODULE ConfigListen ----------------------------
(***************************************************************************)
(* How the config client keeps the listened configs up to date:            *)
(* clients/config_client.  Goroutines that share cacheMap, whose values    *)
(* are copied out, changed and set back without a lock around the three:   *)
(*   loop      executeConfigListen, on a signal or every executorErrDelay  *)
(*   pusher    a connection's receiver in ConfigChangeNotifyRequestHandler *)
(*   event     a connection's event loop in ConfigConnectionEventListener  *)
(*   user      ListenConfig and CancelListenConfig                         *)
(* A copy shares the cacheDataListener, and so lastMd5, with the original. *)
(* isInitializing only tells the server why a query is made: left out.     *)
(***************************************************************************)
EXTENDS Naturals, FiniteSets, Functions

CONSTANTS
    Keys,               \* config cache keys
    Contents,           \* contents a config may have on the server
    NoContent,          \* the empty content: the config does not exist
    Listeners,          \* cacheDataListener objects, reused when unreferenced
    NoEntry,            \* cacheMap has no value for the key
    PerTaskConfigSize,  \* perTaskConfigSize
    MaxPublishes,       \* bound: changes made on the server
    MaxListens,         \* bound: calls of ListenConfig
    MaxDrops,           \* bound: connections replaced
    MaxSignals,         \* bound: goroutines waiting to send to listenExecute
    Cancels             \* TRUE when the user may call CancelListenConfig

Tasks == 0 .. Cardinality(Keys) \div PerTaskConfigSize
Content == Contents \union {NoContent}
Entry == [content : Content, synced : BOOLEAN, taskId : Tasks, listener : Listeners]

ASSUME ListenAssumption ==
    /\ IsFiniteSet(Keys)
    /\ NoContent \notin Contents
    /\ NoEntry \notin Entry
    /\ PerTaskConfigSize \in Nat \ {0}
    /\ MaxPublishes \in Nat /\ MaxListens \in Nat /\ MaxDrops \in Nat
    /\ MaxSignals \in Nat \ {0}
    /\ Cancels \in BOOLEAN

(* util.Md5: different for different contents, empty for the empty one.     *)
NoMd5 == [md5 |-> NoContent]
Md5(content) == [md5 |-> content]

VARIABLES
    cacheMap,        \* key -> copy of cacheData, or NoEntry
    lastMd5,         \* listener object -> lastMd5
    snapshot,        \* key -> content of the snapshot file
    signals,         \* goroutines blocked in asyncNotifyListenConfig
    syncDue,         \* ALL_SYNC_INTERNAL has passed since lastAllSyncTime
    loop, needAllSync, hasChangedKeys,
    items,           \* the copies that an iteration over Items() has left
    todo,            \* listenTaskMap: contexts of the tasks not yet requested
    changed,         \* ChangedConfigs not yet refreshed
    changeKeys,      \* keys of the response's ChangedConfigs
    refreshed,       \* refreshContentAndCheck: key and copy with the new content
    pusher,          \* task -> copy that RequestReply is about to set
    event, lost,     \* task -> OnDisConnect / OnConnected, and copies left to set
    user,            \* ListenConfig: key and copy about to be set
    server,          \* external: key -> content on the server
    registered,      \* external: <<key, task>> the server pushes changes for
    pushes,          \* external: <<key, task>> notifications on their way
    published, listens, drops    \* counters against the bounds

loopVars   == <<loop, needAllSync, hasChangedKeys, items, todo, changed, changeKeys, refreshed>>
eventVars  == <<event, lost>>
serverVars == <<server, registered, pushes>>
counters   == <<published, listens, drops>>
vars == <<cacheMap, lastMd5, snapshot, signals, syncDue, loopVars, pusher, eventVars,
          user, serverVars, counters>>

None == [key |-> NoEntry, entry |-> NoEntry]
Copy == [key : Keys, entry : Entry]
Partial == UNION {[S -> Entry] : S \in SUBSET Keys}

LoopPC == {"idle", "build", "tasks", "changed", "check", "mark"}

TypeOK ==
    /\ cacheMap \in [Keys -> Entry \union {NoEntry}]
    /\ lastMd5 \in [Listeners -> {Md5(c) : c \in Content}]
    /\ snapshot \in [Keys -> Content]
    /\ signals \in 0..MaxSignals
    /\ syncDue \in BOOLEAN
    /\ loop \in LoopPC /\ needAllSync \in BOOLEAN /\ hasChangedKeys \in BOOLEAN
    /\ items \in Partial
    /\ todo \subseteq [key : Keys, md5 : {Md5(c) : c \in Content}, taskId : Tasks]
    /\ changed \subseteq Keys /\ changeKeys \subseteq Keys
    /\ refreshed \in Copy \union {None}
    /\ pusher \in [Tasks -> Copy \union {None}]
    /\ event \in [Tasks -> {"up", "down", "writing"}]
    /\ lost \in [Tasks -> Partial]
    /\ user \in Copy \union {None}
    /\ server \in [Keys -> Content]
    /\ registered \subseteq Keys \X Tasks /\ pushes \subseteq Keys \X Tasks
    /\ published \in 0..MaxPublishes /\ listens \in 0..MaxListens
    /\ drops \in 0..MaxDrops

NoItems == [k \in {} |-> NoEntry]

Init ==
    /\ cacheMap = [k \in Keys |-> NoEntry]
    /\ lastMd5 = [l \in Listeners |-> NoMd5]
    /\ snapshot \in [Keys -> Content]
    /\ signals = 0 /\ syncDue = TRUE
    /\ loop = "idle" /\ needAllSync = FALSE /\ hasChangedKeys = FALSE
    /\ items = NoItems /\ todo = {} /\ changed = {} /\ changeKeys = {}
    /\ refreshed = None
    /\ pusher = [t \in Tasks |-> None]
    /\ event = [t \in Tasks |-> "up"] /\ lost = [t \in Tasks |-> NoItems]
    /\ user = None
    /\ server \in [Keys -> Content]
    /\ registered = {} /\ pushes = {}
    /\ published = 0 /\ listens = 0 /\ drops = 0

-----------------------------------------------------------------------------
(* Shared steps.                                                            *)

Present == {k \in Keys : cacheMap[k] # NoEntry}
Items == [k \in Present |-> cacheMap[k]]
Without(f, k) == Restrict(f, DOMAIN f \ {k})

Set(k, entry) == cacheMap' = [cacheMap EXCEPT ![k] = entry]

asyncNotifyListenConfig ==
    signals' = IF signals < MaxSignals THEN signals + 1 ELSE signals

(* executeListener: lastMd5, the set, then the call in a goroutine of its   *)
(* own.  When the filter chain fails there is no call, and lastMd5 has      *)
(* moved on all the same: it stands for what the listener was told.         *)
executeListener(k, entry) ==
    /\ lastMd5' = [lastMd5 EXCEPT ![entry.listener] = Md5(entry.content)]
    /\ Set(k, entry)

Outdated(entry) == Md5(entry.content) # lastMd5[entry.listener]

-----------------------------------------------------------------------------
(* The loop: executeConfigListen.                                           *)

LoopGoes(from, to) ==
    /\ loop = from
    /\ loop' = to
    /\ UNCHANGED <<pusher, eventVars, user, server, pushes, counters>>

(* On a signal or on the timer; buildListenTask takes the items.            *)
executeConfigListen ==
    /\ LoopGoes("idle", "build")
    /\ signals' = IF signals > 0 THEN signals - 1 ELSE 0
    /\ needAllSync' = syncDue /\ hasChangedKeys' = FALSE
    /\ items' = Items
    /\ UNCHANGED <<cacheMap, lastMd5, snapshot, syncDue, todo, changed, changeKeys,
                   refreshed, registered>>

(* Mutant: entries in sync are skipped even when a full sync is due.        *)
buildSkipsSynced(k) ==
    /\ LoopGoes("build", "build")
    /\ k \in DOMAIN items
    /\ LET data == items[k] IN
          /\ \/ /\ data.synced /\ Outdated(data)
                /\ executeListener(k, data)
             \/ /\ ~(data.synced /\ Outdated(data))
                /\ UNCHANGED <<cacheMap, lastMd5>>
          /\ todo' = IF data.synced THEN todo
                     ELSE todo \union {[key |-> k, md5 |-> Md5(data.content), taskId |-> data.taskId]}
    /\ items' = Without(items, k)
    /\ UNCHANGED <<snapshot, signals, syncDue, needAllSync, hasChangedKeys, changed,
                   changeKeys, refreshed, registered>>

(* An entry in sync whose md5 is news is told to its listener, and is       *)
(* listened for again only when a full sync is due.                         *)
buildListenTask(k) ==
    /\ LoopGoes("build", "build")
    /\ k \in DOMAIN items
    /\ LET data == items[k] IN
          /\ \/ /\ data.synced /\ Outdated(data)
                /\ executeListener(k, data)
             \/ /\ ~(data.synced /\ Outdated(data))
                /\ UNCHANGED <<cacheMap, lastMd5>>
          /\ todo' = IF data.synced /\ ~needAllSync THEN todo
                     ELSE todo \union {[key |-> k, md5 |-> Md5(data.content), taskId |-> data.taskId]}
    /\ items' = Without(items, k)
    /\ UNCHANGED <<snapshot, signals, syncDue, needAllSync, hasChangedKeys, changed,
                   changeKeys, refreshed, registered>>

NothingToListen ==
    /\ LoopGoes("build", "idle")
    /\ items = NoItems /\ todo = {}
    /\ UNCHANGED <<cacheMap, lastMd5, snapshot, signals, syncDue, needAllSync,
                   hasChangedKeys, items, todo, changed, changeKeys, refreshed, registered>>

TasksBuilt ==
    /\ LoopGoes("build", "tasks")
    /\ items = NoItems /\ todo # {}
    /\ UNCHANGED <<cacheMap, lastMd5, snapshot, signals, syncDue, needAllSync,
                   hasChangedKeys, items, todo, changed, changeKeys, refreshed, registered>>

Batch(t) == {r \in todo : r.taskId = t}

(* The ConfigBatchListenRequest of a task fails, in any of four ways.       *)
ListenFails(t) ==
    /\ LoopGoes("tasks", "tasks")
    /\ Batch(t) # {}
    /\ todo' = todo \ Batch(t)
    /\ UNCHANGED <<cacheMap, lastMd5, snapshot, signals, syncDue, needAllSync,
                   hasChangedKeys, items, changed, changeKeys, refreshed, registered>>

(* The server answers with the keys whose md5 differs, and pushes changes   *)
(* of all of them from now on.                                              *)
ListenServed(t) ==
    /\ LoopGoes("tasks", "changed")
    /\ Batch(t) # {}
    /\ todo' = todo \ Batch(t)
    /\ changeKeys' = {r.key : r \in {q \in Batch(t) : q.md5 # Md5(server[q.key])}}
    /\ changed' = changeKeys'
    /\ hasChangedKeys' = (hasChangedKeys \/ changeKeys' # {})
    /\ registered' = registered \union {<<r.key, t>> : r \in Batch(t)}
    /\ UNCHANGED <<cacheMap, lastMd5, snapshot, signals, syncDue, needAllSync, items,
                   refreshed>>

(* refreshContentAndCheck for a changed key still in the map: the copy is   *)
(* taken and the query served.                                              *)
RefreshQueries(k) ==
    /\ LoopGoes("changed", "check")
    /\ k \in changed /\ changed' = changed \ {k}
    /\ cacheMap[k] # NoEntry
    /\ refreshed' = [key |-> k, entry |-> [cacheMap[k] EXCEPT !.content = server[k]]]
    /\ snapshot' = [snapshot EXCEPT ![k] = server[k]]
    /\ UNCHANGED <<cacheMap, lastMd5, signals, syncDue, needAllSync, hasChangedKeys, items,
                   todo, changeKeys, registered>>

(* The key is gone, the limiter refuses the query, or it fails.             *)
RefreshSkips(k) ==
    /\ LoopGoes("changed", "changed")
    /\ k \in changed /\ changed' = changed \ {k}
    /\ UNCHANGED <<cacheMap, lastMd5, snapshot, signals, syncDue, needAllSync,
                   hasChangedKeys, items, todo, changeKeys, refreshed, registered>>

(* The copy is set, and the listener called, only if the md5 is news.       *)
RefreshChecks ==
    /\ LoopGoes("check", "changed")
    /\ LET k == refreshed.key  data == refreshed.entry IN
          \/ /\ Outdated(data)
             /\ executeListener(k, data)
          \/ /\ ~Outdated(data)
             /\ UNCHANGED <<cacheMap, lastMd5>>
    /\ refreshed' = None
    /\ UNCHANGED <<snapshot, signals, syncDue, needAllSync, hasChangedKeys, items, todo,
                   changed, changeKeys, registered>>

(* All entries of the map, of whatever task, are copied ...                 *)
MarkReads ==
    /\ LoopGoes("changed", "mark")
    /\ changed = {}
    /\ items' = Items
    /\ UNCHANGED <<cacheMap, lastMd5, snapshot, signals, syncDue, needAllSync,
                   hasChangedKeys, todo, changed, changeKeys, refreshed, registered>>

(* ... and set back one by one, in sync unless the response named the key.  *)
MarkSets(k) ==
    /\ LoopGoes("mark", "mark")
    /\ k \in DOMAIN items
    /\ Set(k, [items[k] EXCEPT !.synced = (k \notin changeKeys \/ @)])
    /\ items' = Without(items, k)
    /\ UNCHANGED <<lastMd5, snapshot, signals, syncDue, needAllSync, hasChangedKeys, todo,
                   changed, changeKeys, refreshed, registered>>

MarkDone ==
    /\ LoopGoes("mark", "tasks")
    /\ items = NoItems
    /\ changeKeys' = {}
    /\ UNCHANGED <<cacheMap, lastMd5, snapshot, signals, syncDue, needAllSync,
                   hasChangedKeys, items, todo, changed, refreshed, registered>>

ListenDone ==
    /\ LoopGoes("tasks", "idle")
    /\ todo = {}
    /\ syncDue' = (syncDue /\ ~needAllSync)
    /\ IF hasChangedKeys THEN asyncNotifyListenConfig ELSE UNCHANGED signals
    /\ hasChangedKeys' = FALSE /\ needAllSync' = FALSE
    /\ UNCHANGED <<cacheMap, lastMd5, snapshot, items, todo, changed, changeKeys,
                   refreshed, registered>>

(* ALL_SYNC_INTERNAL passes.                                                *)
AllSyncFallsDue ==
    /\ ~syncDue /\ syncDue' = TRUE
    /\ UNCHANGED <<cacheMap, lastMd5, snapshot, signals, loopVars, pusher, eventVars, user,
                   serverVars, counters>>

-----------------------------------------------------------------------------
(* ConfigChangeNotifyRequestHandler, run by the receiver of a connection.   *)

OthersKeep == UNCHANGED <<lastMd5, snapshot, syncDue, loopVars, server, counters>>

RequestReplyReads(k, t) ==
    /\ <<k, t>> \in pushes /\ pushes' = pushes \ {<<k, t>>}
    /\ pusher[t] = None
    /\ pusher' = IF cacheMap[k] = NoEntry THEN pusher
                 ELSE [pusher EXCEPT ![t] = [key |-> k, entry |-> cacheMap[k]]]
    /\ UNCHANGED <<cacheMap, signals, eventVars, user, registered>>
    /\ OthersKeep

RequestReplySets(t) ==
    /\ pusher[t] # None /\ pusher' = [pusher EXCEPT ![t] = None]
    /\ Set(pusher[t].key, [pusher[t].entry EXCEPT !.synced = FALSE])
    /\ asyncNotifyListenConfig
    /\ UNCHANGED <<eventVars, user, registered, pushes>>
    /\ OthersKeep

-----------------------------------------------------------------------------
(* A task's connection is replaced (module RpcClient): the server forgets   *)
(* the old one, and the listeners are told in their own time.               *)

ConnectionReplaced(t) ==
    /\ event[t] = "up" /\ event' = [event EXCEPT ![t] = "down"]
    /\ drops < MaxDrops /\ drops' = drops + 1
    /\ registered' = {r \in registered : r[2] # t}
    /\ pushes' = {r \in pushes : r[2] # t}
    /\ UNCHANGED <<cacheMap, lastMd5, snapshot, signals, syncDue, loopVars, pusher, lost,
                   user, server, published, listens>>

OnDisConnectReads(t) ==
    /\ event[t] = "down" /\ event' = [event EXCEPT ![t] = "writing"]
    /\ lost' = [lost EXCEPT ![t] = Restrict(Items, {k \in Present : cacheMap[k].taskId = t})]
    /\ UNCHANGED <<cacheMap, signals, pusher, user, registered, pushes>>
    /\ OthersKeep

OnDisConnectSets(t, k) ==
    /\ event[t] = "writing" /\ k \in DOMAIN lost[t]
    /\ Set(k, [lost[t][k] EXCEPT !.synced = FALSE])
    /\ lost' = [lost EXCEPT ![t] = Without(@, k)]
    /\ UNCHANGED <<signals, pusher, event, user, registered, pushes>>
    /\ OthersKeep

OnConnected(t) ==
    /\ event[t] = "writing" /\ lost[t] = NoItems
    /\ event' = [event EXCEPT ![t] = "up"]
    /\ asyncNotifyListenConfig
    /\ UNCHANGED <<cacheMap, pusher, lost, user, registered, pushes>>
    /\ OthersKeep

-----------------------------------------------------------------------------
(* The user.                                                                *)

Referenced(l) ==
    \/ \E k \in Present : cacheMap[k].listener = l
    \/ \E k \in DOMAIN items : items[k].listener = l
    \/ refreshed # None /\ refreshed.entry.listener = l
    \/ \E t \in Tasks : \/ pusher[t] # None /\ pusher[t].entry.listener = l
                        \/ \E k \in DOMAIN lost[t] : lost[t][k].listener = l

UserKeeps ==
    UNCHANGED <<snapshot, signals, syncDue, loopVars, pusher, eventVars, serverVars,
                published, drops>>

(* ListenConfig for a key already listened to: the OnChange given is        *)
(* dropped, and the copy will be set back.                                  *)
ListenConfigAgain(k) ==
    /\ user = None /\ listens < MaxListens /\ listens' = listens + 1
    /\ cacheMap[k] # NoEntry
    /\ user' = [key |-> k, entry |-> cacheMap[k]]
    /\ UNCHANGED <<cacheMap, lastMd5>>
    /\ UserKeeps

(* Mutant: tasks are counted from one.                                      *)
ListenConfigNextTask(k, l) ==
    /\ user = None /\ listens < MaxListens /\ listens' = listens + 1
    /\ cacheMap[k] = NoEntry /\ ~Referenced(l)
    /\ user' = [key |-> k,
                entry |-> [content |-> snapshot[k], synced |-> FALSE, listener |-> l,
                           taskId |-> 1 + Cardinality(Present) \div PerTaskConfigSize]]
    /\ lastMd5' = [lastMd5 EXCEPT ![l] = Md5(snapshot[k])]
    /\ UNCHANGED cacheMap
    /\ UserKeeps

(* ListenConfig for a new key starts from the snapshot file.                *)
ListenConfigAnew(k, l) ==
    /\ user = None /\ listens < MaxListens /\ listens' = listens + 1
    /\ cacheMap[k] = NoEntry /\ ~Referenced(l)
    /\ user' = [key |-> k,
                entry |-> [content |-> snapshot[k], synced |-> FALSE, listener |-> l,
                           taskId |-> Cardinality(Present) \div PerTaskConfigSize]]
    /\ lastMd5' = [lastMd5 EXCEPT ![l] = Md5(snapshot[k])]
    /\ UNCHANGED cacheMap
    /\ UserKeeps

ListenConfigSets ==
    /\ user # None /\ user' = None
    /\ Set(user.key, user.entry)
    /\ UNCHANGED <<lastMd5, listens>>
    /\ UserKeeps

CancelListenConfig(k) ==
    /\ Cancels /\ user = None
    /\ cacheMap[k] # NoEntry
    /\ Set(k, NoEntry)
    /\ UNCHANGED <<lastMd5, user, listens>>
    /\ UserKeeps

-----------------------------------------------------------------------------
(* The server: a config is published or deleted, and a push goes out to the *)
(* connections that listen to it.                                           *)
Publish(k, c) ==
    /\ published < MaxPublishes /\ published' = published + 1
    /\ c # server[k] /\ server' = [server EXCEPT ![k] = c]
    /\ pushes' = pushes \union {r \in registered : r[1] = k}
    /\ UNCHANGED <<cacheMap, lastMd5, snapshot, signals, syncDue, loopVars, pusher,
                   eventVars, user, registered, listens, drops>>

-----------------------------------------------------------------------------
Loop ==
    \/ executeConfigListen \/ NothingToListen \/ TasksBuilt
    \/ \E k \in Keys : buildListenTask(k) \/ RefreshQueries(k) \/ RefreshSkips(k) \/ MarkSets(k)
    \/ \E t \in Tasks : ListenFails(t) \/ ListenServed(t)
    \/ RefreshChecks \/ MarkReads \/ MarkDone \/ ListenDone

Pusher(t) == RequestReplySets(t) \/ \E k \in Keys : RequestReplyReads(k, t)

Events(t) ==
    OnDisConnectReads(t) \/ OnConnected(t) \/ \E k \in Keys : OnDisConnectSets(t, k)

Outside ==
    \/ \E t \in Tasks : ConnectionReplaced(t)
    \/ \E k \in Keys : \/ ListenConfigAgain(k) \/ CancelListenConfig(k)
                       \/ \E l \in Listeners : ListenConfigAnew(k, l)
                       \/ \E c \in Content : Publish(k, c)

Next ==
    \/ Loop \/ AllSyncFallsDue \/ ListenConfigSets
    \/ \E t \in Tasks : Pusher(t) \/ Events(t)
    \/ Outside

Spec == Init /\ [][Next]_vars

(* Fairness.  The goroutines run, the timer fires, and time passes; a       *)
(* request made again and again is served in the end, be it for a full sync *)
(* or not.                                                                  *)
FairSpec ==
    /\ Spec
    /\ WF_vars(Loop) /\ WF_vars(AllSyncFallsDue) /\ WF_vars(ListenConfigSets)
    /\ \A t \in Tasks :
          /\ WF_vars(Pusher(t)) /\ WF_vars(Events(t))
          /\ SF_vars(needAllSync /\ ListenServed(t))
          /\ SF_vars(~needAllSync /\ ListenServed(t))
    /\ \A k \in Keys : SF_vars(RefreshQueries(k))

-----------------------------------------------------------------------------
(* Liveness.                                                                *)

(* Every change arrives: when the server's content stays, the listener's    *)
(* lastMd5 becomes that of the server's content, whatever notifications and *)
(* flags got lost in races, failures and reconnections on the way.          *)
UpToDate ==
    \A k \in Keys :
        <>[](cacheMap[k] # NoEntry => lastMd5[cacheMap[k].listener] = Md5(server[k]))

(* Every listened config ends up registered on its task's connection, also  *)
(* one that was marked in sync without having been listened for, or on a    *)
(* connection that was replaced meanwhile.                                  *)
ListenedIsRegistered ==
    \A k \in Keys : <>[](cacheMap[k] # NoEntry => <<k, cacheMap[k].taskId>> \in registered)

-----------------------------------------------------------------------------
(* Action properties.                                                       *)

(* OnChange is called "when config change": a listener that has the         *)
(* server's content is not called with another one while that content       *)
(* stays (a query served before the content changed aside).                 *)
NoStaleCallback ==
    [][\A k \in Keys :
          LET l == cacheMap[k].listener IN
          /\ cacheMap[k] # NoEntry /\ loop # "check"
          /\ server' = server /\ lastMd5[l] = Md5(server[k])
          => lastMd5'[l] = lastMd5[l]]_vars

=============================================================================
