------------------------- MODULE ConfigListenProofs -------------------------
(***************************************************************************)
(* Type correctness of ConfigListen for any configs, contents and bounds.   *)
(* What is not obvious in it is that a taskId, counted from the size of    *)
(* cacheMap, always names a task that has a connection, and that the       *)
(* copies which the goroutines carry are of entries that were there.       *)
(* Then that a full sync repairs a config whatever the races before it did. *)
(***************************************************************************)
EXTENDS ConfigListen, FiniteSetTheorems, TLAPS

(* Past a query refreshContentAndCheck has a copy in hand.                  *)
CheckHasCopy == loop = "check" => refreshed # None

(* The inductive invariant behind TypeOK.                                   *)
ListenInv == TypeOK /\ CheckHasCopy

-----------------------------------------------------------------------------
(* A copy is told from no copy. *)
LEMMA NoneIsNoCopy == None \notin Copy
  BY ListenAssumption DEF None, Copy

(* What an iteration has left is a function from some keys to entries. *)
LEMMA PartialType ==
    ASSUME NEW f
    PROVE  f \in Partial <=> \E S \in SUBSET Keys : f \in [S -> Entry]
  BY DEF Partial

(* An iteration that is over has nothing left. *)
LEMMA NoItemsPartial == NoItems \in Partial
  <1>1. {} \in SUBSET Keys /\ NoItems \in [{} -> Entry]
    BY DEF NoItems
  <1> QED BY <1>1, PartialType

(* Items() copies entries that are there. *)
LEMMA ItemsPartial ==
    ASSUME cacheMap \in [Keys -> Entry \union {NoEntry}]
    PROVE  /\ Items \in Partial
           /\ \A S \in SUBSET Present : Restrict(Items, S) \in Partial
  <1>1. \A k \in Present : k \in Keys /\ cacheMap[k] \in Entry
    BY DEF Present
  <1>2. Present \in SUBSET Keys /\ Items \in [Present -> Entry]
    BY <1>1 DEF Items, Present
  <1>3. ASSUME NEW S \in SUBSET Present PROVE S \in SUBSET Keys /\ Restrict(Items, S) \in [S -> Entry]
    BY <1>2, <1>3 DEF Restrict
  <1> QED BY <1>2, <1>3, PartialType

(* An iteration that has dealt with a key has the others left. *)
LEMMA WithoutPartial ==
    ASSUME NEW f \in Partial, NEW k
    PROVE  Without(f, k) \in Partial
  <1>1. PICK S \in SUBSET Keys : f \in [S -> Entry]
    BY PartialType
  <1>2. S \ {k} \in SUBSET Keys /\ Without(f, k) \in [S \ {k} -> Entry]
    BY <1>1 DEF Without, Restrict
  <1> QED BY <1>2, PartialType

(* An entry that an iteration has left is an entry of a key. *)
LEMMA PartialEntry ==
    ASSUME NEW f \in Partial, NEW k \in DOMAIN f
    PROVE  k \in Keys /\ f[k] \in Entry
  <1>1. PICK S \in SUBSET Keys : f \in [S -> Entry]
    BY PartialType
  <1> QED BY <1>1

(* Marking an entry, and giving it the server's content, keep it one. *)
LEMMA EntryUpdates ==
    ASSUME NEW entry \in Entry, NEW synced \in BOOLEAN, NEW content \in Content
    PROVE  /\ [entry EXCEPT !.synced = synced] \in Entry
           /\ [entry EXCEPT !.content = content] \in Entry
           /\ entry # NoEntry
  BY ListenAssumption DEF Entry

(* ListenConfig counts the task of a new key from the size of cacheMap; the *)
(* task is one of those that the keys together need.                        *)
LEMMA TaskOfNewKey ==
    ASSUME cacheMap \in [Keys -> Entry \union {NoEntry}]
    PROVE  Cardinality(Present) \div PerTaskConfigSize \in Tasks
  <1>1. Present \in SUBSET Keys
    BY DEF Present
  <1>2. /\ Cardinality(Present) \in Nat /\ Cardinality(Keys) \in Nat
        /\ Cardinality(Present) <= Cardinality(Keys)
    BY <1>1, FS_Subset, FS_CardinalityType, ListenAssumption
  <1>3. ASSUME NEW m \in Nat, NEW n \in Nat, NEW d \in Nat \ {0}, m <= n
        PROVE  m \div d \in 0 .. n \div d
    <2>1. m \div d \in Nat /\ n \div d \in Nat
      BY <1>3
    <2>2. m = d * (m \div d) + (m % d) /\ m % d \in 0..(d-1)
      BY <1>3
    <2>3. n = d * (n \div d) + (n % d) /\ n % d \in 0..(d-1)
      BY <1>3
    <2>4. ASSUME NEW p \in Nat, NEW q \in Nat, p > q PROVE d * p >= d * q + d
      <3>1. PICK e \in Nat : p = q + 1 + e
        BY <2>4
      <3>2. d * p = d * q + d + d * e /\ d * e >= 0
        BY <3>1
      <3> QED BY <3>2
    <2> QED BY <2>1, <2>2, <2>3, <2>4, <1>3
  <1> QED BY <1>2, <1>3, ListenAssumption DEF Tasks

(* executeListener stores an entry for its key, and an md5 for its listener. *)
LEMMA ListenerTold ==
    ASSUME TypeOK, NEW k \in Keys, NEW entry \in Entry, executeListener(k, entry)
    PROVE  /\ cacheMap' \in [Keys -> Entry \union {NoEntry}]
           /\ lastMd5' \in [Listeners -> {Md5(c) : c \in Content}]
  <1>1. entry.listener \in Listeners /\ Md5(entry.content) \in {Md5(c) : c \in Content}
    BY DEF Entry
  <1> QED BY <1>1 DEF executeListener, Set, TypeOK

-----------------------------------------------------------------------------
(* Every step of executeConfigListen keeps the types. *)
LEMMA LoopStep == ASSUME ListenInv, Loop PROVE ListenInv'
  <1> USE ListenAssumption
      DEF ListenInv, CheckHasCopy, TypeOK, LoopPC, loopVars, eventVars, serverVars, counters, LoopGoes
  <1>0. TypeOK
    OBVIOUS
  <1>1. CASE executeConfigListen
    <2>1. items' \in Partial
      BY <1>1, ItemsPartial DEF executeConfigListen
    <2>2. signals' \in 0..MaxSignals
      BY <1>1 DEF executeConfigListen
    <2> QED BY <1>1, <2>1, <2>2 DEF executeConfigListen
  <1>2. CASE NothingToListen
    BY <1>2 DEF NothingToListen
  <1>3. CASE TasksBuilt
    BY <1>3 DEF TasksBuilt
  <1>4. ASSUME NEW k \in Keys, buildListenTask(k) PROVE ListenInv'
    <2>1. k \in DOMAIN items /\ items[k] \in Entry
      BY <1>4, PartialEntry DEF buildListenTask
    <2>2. items' \in Partial
      BY <1>4, WithoutPartial DEF buildListenTask
    <2>3. executeListener(k, items[k]) \/ UNCHANGED <<cacheMap, lastMd5>>
      BY <1>4 DEF buildListenTask
    <2>4. /\ cacheMap' \in [Keys -> Entry \union {NoEntry}]
          /\ lastMd5' \in [Listeners -> {Md5(c) : c \in Content}]
      <3>1. CASE executeListener(k, items[k])
        BY <1>0, <2>1, <3>1, ListenerTold
      <3> QED BY <2>3, <3>1
    <2>5. [key |-> k, md5 |-> Md5(items[k].content), taskId |-> items[k].taskId]
            \in [key : Keys, md5 : {Md5(c) : c \in Content}, taskId : Tasks]
      BY <2>1 DEF Entry
    <2>6. todo' \subseteq [key : Keys, md5 : {Md5(c) : c \in Content}, taskId : Tasks]
      BY <1>4, <2>5 DEF buildListenTask
    <2> QED BY <1>4, <2>2, <2>4, <2>6 DEF buildListenTask
  <1>5. ASSUME NEW k \in Keys, RefreshQueries(k) PROVE ListenInv'
    <2>1. cacheMap[k] \in Entry /\ server[k] \in Content
      BY <1>5 DEF RefreshQueries
    <2>2. refreshed' \in Copy
      BY <1>5, <2>1, EntryUpdates DEF RefreshQueries, Copy
    <2>3. refreshed' # None
      BY <2>2, NoneIsNoCopy
    <2> QED BY <1>5, <2>1, <2>2, <2>3 DEF RefreshQueries
  <1>6. ASSUME NEW k \in Keys, RefreshSkips(k) PROVE ListenInv'
    BY <1>6 DEF RefreshSkips
  <1>7. ASSUME NEW k \in Keys, MarkSets(k) PROVE ListenInv'
    <2>1. k \in DOMAIN items /\ items[k] \in Entry
      BY <1>7, PartialEntry DEF MarkSets
    <2>2. items' \in Partial
      BY <1>7, WithoutPartial DEF MarkSets
    <2>3. items[k].synced \in BOOLEAN
      BY <2>1 DEF Entry
    <2>4. (k \notin changeKeys \/ items[k].synced) \in BOOLEAN
      BY <2>3
    <2>5. [items[k] EXCEPT !.synced = (k \notin changeKeys \/ @)] \in Entry
      BY <2>1, <2>4 DEF Entry
    <2>6. cacheMap' \in [Keys -> Entry \union {NoEntry}]
      BY <1>7, <2>5 DEF MarkSets, Set
    <2> QED BY <1>7, <2>2, <2>6 DEF MarkSets
  <1>8. ASSUME NEW t \in Tasks, ListenFails(t) PROVE ListenInv'
    BY <1>8 DEF ListenFails
  <1>9. ASSUME NEW t \in Tasks, ListenServed(t) PROVE ListenInv'
    <2>1. Batch(t) \subseteq [key : Keys, md5 : {Md5(c) : c \in Content}, taskId : Tasks]
      BY DEF Batch
    <2>2. changeKeys' \subseteq Keys /\ changed' \subseteq Keys
      BY <1>9, <2>1 DEF ListenServed
    <2>3. registered' \subseteq Keys \X Tasks
      BY <1>9, <2>1 DEF ListenServed
    <2>4. hasChangedKeys' \in BOOLEAN
      BY <1>9 DEF ListenServed
    <2> QED BY <1>9, <2>2, <2>3, <2>4 DEF ListenServed
  <1>10. CASE RefreshChecks
    <2>1. refreshed \in Copy
      BY <1>10 DEF RefreshChecks
    <2>2. refreshed.key \in Keys /\ refreshed.entry \in Entry
      BY <2>1 DEF Copy
    <2>3. executeListener(refreshed.key, refreshed.entry) \/ UNCHANGED <<cacheMap, lastMd5>>
      BY <1>10 DEF RefreshChecks
    <2>4. /\ cacheMap' \in [Keys -> Entry \union {NoEntry}]
          /\ lastMd5' \in [Listeners -> {Md5(c) : c \in Content}]
      <3>1. CASE executeListener(refreshed.key, refreshed.entry)
        BY <1>0, <2>2, <3>1, ListenerTold
      <3> QED BY <2>3, <3>1
    <2> QED BY <1>10, <2>4 DEF RefreshChecks
  <1>11. CASE MarkReads
    <2>1. items' \in Partial
      BY <1>11, ItemsPartial DEF MarkReads
    <2> QED BY <1>11, <2>1 DEF MarkReads
  <1>12. CASE MarkDone
    BY <1>12 DEF MarkDone
  <1>13. CASE ListenDone
    <2>1. signals' \in 0..MaxSignals
      BY <1>13 DEF ListenDone, asyncNotifyListenConfig
    <2> QED BY <1>13, <2>1 DEF ListenDone
  <1> QED BY <1>1, <1>2, <1>3, <1>4, <1>5, <1>6, <1>7, <1>8, <1>9, <1>10, <1>11, <1>12, <1>13 DEF Loop

(* Every step of the receivers and the event loops keeps the types: they    *)
(* set back the copies that they took.                                      *)
LEMMA ConnectionStep ==
    ASSUME ListenInv, NEW t \in Tasks, Pusher(t) \/ Events(t) \/ ConnectionReplaced(t)
    PROVE  ListenInv'
  <1> USE ListenAssumption
      DEF ListenInv, CheckHasCopy, TypeOK, loopVars, eventVars, serverVars, counters, OthersKeep
  <1>1. ASSUME NEW k \in Keys, RequestReplyReads(k, t) PROVE ListenInv'
    <2>1. pusher' \in [Tasks -> Copy \union {None}]
      <3>1. CASE cacheMap[k] = NoEntry
        BY <1>1, <3>1 DEF RequestReplyReads
      <3>2. CASE cacheMap[k] # NoEntry
        <4>1. [key |-> k, entry |-> cacheMap[k]] \in Copy
          BY <3>2 DEF Copy
        <4> QED BY <1>1, <3>2, <4>1 DEF RequestReplyReads
      <3> QED BY <3>1, <3>2
    <2> QED BY <1>1, <2>1 DEF RequestReplyReads
  <1>2. CASE RequestReplySets(t)
    <2>1. pusher[t] \in Copy
      BY <1>2 DEF RequestReplySets
    <2>2. pusher[t].key \in Keys /\ [pusher[t].entry EXCEPT !.synced = FALSE] \in Entry
      BY <2>1 DEF Copy, Entry
    <2>3. cacheMap' \in [Keys -> Entry \union {NoEntry}]
      BY <1>2, <2>2 DEF RequestReplySets, Set
    <2>4. signals' \in 0..MaxSignals
      BY <1>2 DEF RequestReplySets, asyncNotifyListenConfig
    <2> QED BY <1>2, <2>3, <2>4 DEF RequestReplySets
  <1>3. CASE OnDisConnectReads(t)
    <2>1. {k \in Present : cacheMap[k].taskId = t} \in SUBSET Present
      OBVIOUS
    <2>2. Restrict(Items, {k \in Present : cacheMap[k].taskId = t}) \in Partial
      BY <2>1, ItemsPartial
    <2>3. lost' \in [Tasks -> Partial]
      BY <1>3, <2>2 DEF OnDisConnectReads
    <2> QED BY <1>3, <2>3 DEF OnDisConnectReads
  <1>4. ASSUME NEW k \in Keys, OnDisConnectSets(t, k) PROVE ListenInv'
    <2>1. lost[t] \in Partial /\ k \in DOMAIN lost[t]
      BY <1>4 DEF OnDisConnectSets
    <2>2. lost[t][k] \in Entry
      BY <2>1, PartialEntry
    <2>3. cacheMap' \in [Keys -> Entry \union {NoEntry}]
      BY <1>4, <2>2 DEF OnDisConnectSets, Set, Entry
    <2>4. Without(lost[t], k) \in Partial
      BY <2>1, WithoutPartial
    <2>5. lost' \in [Tasks -> Partial]
      BY <1>4, <2>4 DEF OnDisConnectSets
    <2> QED BY <1>4, <2>3, <2>5 DEF OnDisConnectSets
  <1>5. CASE OnConnected(t)
    <2>1. signals' \in 0..MaxSignals
      BY <1>5 DEF OnConnected, asyncNotifyListenConfig
    <2> QED BY <1>5, <2>1 DEF OnConnected
  <1>6. CASE ConnectionReplaced(t)
    BY <1>6 DEF ConnectionReplaced
  <1> QED BY <1>1, <1>2, <1>3, <1>4, <1>5, <1>6 DEF Pusher, Events

(* Every step of the user and of the server keeps the types. *)
LEMMA UserStep ==
    ASSUME ListenInv, NEW k \in Keys,
           \/ ListenConfigAgain(k) \/ CancelListenConfig(k) \/ ListenConfigSets
           \/ \E l \in Listeners : ListenConfigAnew(k, l)
           \/ \E c \in Content : Publish(k, c)
    PROVE  ListenInv'
  <1> USE ListenAssumption
      DEF ListenInv, CheckHasCopy, TypeOK, loopVars, eventVars, serverVars, counters, UserKeeps
  <1>1. CASE ListenConfigAgain(k)
    <2>1. user' \in Copy
      BY <1>1 DEF ListenConfigAgain, Copy
    <2> QED BY <1>1, <2>1 DEF ListenConfigAgain
  <1>2. ASSUME NEW l \in Listeners, ListenConfigAnew(k, l) PROVE ListenInv'
    <2>1. Cardinality(Present) \div PerTaskConfigSize \in Tasks
      BY TaskOfNewKey
    <2>2. user' \in Copy
      BY <1>2, <2>1 DEF ListenConfigAnew, Copy, Entry
    <2>3. lastMd5' \in [Listeners -> {Md5(c) : c \in Content}]
      BY <1>2 DEF ListenConfigAnew
    <2> QED BY <1>2, <2>2, <2>3 DEF ListenConfigAnew
  <1>3. CASE ListenConfigSets
    <2>1. user \in Copy
      BY <1>3 DEF ListenConfigSets
    <2>2. user.key \in Keys /\ user.entry \in Entry
      BY <2>1 DEF Copy
    <2>3. cacheMap' \in [Keys -> Entry \union {NoEntry}]
      BY <1>3, <2>2 DEF ListenConfigSets, Set
    <2> QED BY <1>3, <2>3 DEF ListenConfigSets
  <1>4. CASE CancelListenConfig(k)
    BY <1>4 DEF CancelListenConfig, Set
  <1>5. ASSUME NEW c \in Content, Publish(k, c) PROVE ListenInv'
    BY <1>5 DEF Publish
  <1> QED BY <1>1, <1>2, <1>3, <1>4, <1>5

(* A client that listens to nothing has the types. *)
LEMMA Initially == Init => ListenInv
  <1> SUFFICES ASSUME Init PROVE ListenInv
    OBVIOUS
  <1>1. lastMd5 \in [Listeners -> {Md5(c) : c \in Content}]
    <2>1. NoMd5 \in {Md5(c) : c \in Content}
      BY DEF NoMd5, Md5, Content
    <2> QED BY <2>1 DEF Init
  <1>2. items \in Partial /\ lost \in [Tasks -> Partial]
    BY NoItemsPartial DEF Init
  <1>3. /\ signals \in 0..MaxSignals /\ published \in 0..MaxPublishes /\ listens \in 0..MaxListens
        /\ drops \in 0..MaxDrops
    BY ListenAssumption DEF Init
  <1>4. cacheMap \in [Keys -> Entry \union {NoEntry}] /\ pusher \in [Tasks -> Copy \union {None}]
    BY DEF Init
  <1>5. event \in [Tasks -> {"up", "down", "writing"}]
    BY DEF Init
  <1> QED BY <1>1, <1>2, <1>3, <1>4, <1>5 DEF Init, ListenInv, CheckHasCopy, TypeOK, LoopPC

(* Every step of the config client keeps the types. *)
LEMMA Step == ListenInv /\ [Next]_vars => ListenInv'
  <1> SUFFICES ASSUME ListenInv, [Next]_vars PROVE ListenInv'
    OBVIOUS
  <1>1. CASE Loop
    BY <1>1, LoopStep
  <1>2. ASSUME NEW t \in Tasks, Pusher(t) \/ Events(t) \/ ConnectionReplaced(t) PROVE ListenInv'
    BY <1>2, ConnectionStep
  <1>3. ASSUME NEW k \in Keys,
               \/ ListenConfigAgain(k) \/ CancelListenConfig(k)
               \/ \E l \in Listeners : ListenConfigAnew(k, l)
               \/ \E c \in Content : Publish(k, c)
        PROVE  ListenInv'
    BY <1>3, UserStep
  <1>4. CASE ListenConfigSets
    <2>1. user.key \in Keys
      BY <1>4 DEF ListenConfigSets, ListenInv, TypeOK, Copy
    <2> QED BY <1>4, <2>1, UserStep
  <1>5. CASE AllSyncFallsDue
    BY <1>5 DEF AllSyncFallsDue, ListenInv, CheckHasCopy, TypeOK, loopVars, eventVars, serverVars, counters
  <1>6. CASE UNCHANGED vars
    BY <1>6 DEF vars, ListenInv, CheckHasCopy, TypeOK, loopVars, eventVars, serverVars, counters
  <1> QED BY <1>1, <1>2, <1>3, <1>4, <1>5, <1>6 DEF Next, Outside

-----------------------------------------------------------------------------
(* The state of the config client keeps its types; in it, the task that     *)
(* ListenConfig counts from the size of cacheMap is always one that has a   *)
(* connection, also when configs are cancelled and listened to again, and a *)
(* copy that a goroutine sets back is always of an entry that was there.    *)
THEOREM TypeCorrect == Spec => []TypeOK
  <1>1. ListenInv => TypeOK
    BY DEF ListenInv
  <1>2. Spec => []ListenInv
    BY Initially, Step, PTL DEF Spec
  <1> QED BY <1>1, <1>2, PTL

-----------------------------------------------------------------------------
(* A full sync. *)

(* A goroutine, or cacheMap itself, has the copy e of the entry of key k. *)
Held(k, e) ==
    \/ cacheMap[k] = e /\ e # NoEntry
    \/ k \in DOMAIN items /\ items[k] = e
    \/ refreshed = [key |-> k, entry |-> e]
    \/ \E t \in Tasks : \/ pusher[t] = [key |-> k, entry |-> e]
                        \/ k \in DOMAIN lost[t] /\ lost[t][k] = e
    \/ user = [key |-> k, entry |-> e]

(* A listener object belongs to one config. *)
ListenersApart ==
    \A k \in Keys, j \in Keys, d \in Entry, e \in Entry :
        Held(k, d) /\ Held(j, e) /\ d.listener = e.listener => k = j

(* refreshContentAndCheck has keys and a copy only while it is called. *)
RefreshOnly ==
    /\ changed # {} => loop \in {"changed", "check"}
    /\ refreshed # None => loop = "check"

(* What the proofs of a round need of the client's every state. *)
SyncInv == ListenInv /\ ListenersApart /\ RefreshOnly

(* A goroutine that has a copy has one of k. *)
OfKey(copy, k) == copy # None /\ copy.key = k

(* executeConfigListen begins a full sync when no other goroutine has a     *)
(* copy of the entry of k, whose task is t.                                 *)
FullSyncBegins(k, t) ==
    /\ loop = "build" /\ needAllSync /\ todo = {}
    /\ k \in DOMAIN items /\ items[k] = cacheMap[k] /\ cacheMap[k].taskId = t
    /\ ~OfKey(user, k)
    /\ \A u \in Tasks : ~OfKey(pusher[u], k) /\ k \notin DOMAIN lost[u]

(* The round goes on, and what concerns k and t goes well: the server's     *)
(* content of k stays, the request of t and the query of k are answered,    *)
(* the connection of t stays and k is not cancelled.  Anything may happen   *)
(* to other configs and tasks; a push, a reconnection that is being dealt   *)
(* with or another ListenConfig may set back copies of k, too.              *)
GoesWell(k, t) ==
    \/ NothingToListen \/ TasksBuilt \/ RefreshChecks \/ MarkReads \/ MarkDone \/ ListenDone
    \/ AllSyncFallsDue \/ ListenConfigSets
    \/ \E j \in Keys : \/ buildListenTask(j) \/ RefreshQueries(j) \/ MarkSets(j) \/ ListenConfigAgain(j)
                       \/ \E l \in Listeners : ListenConfigAnew(j, l)
    \/ \E j \in Keys \ {k} : RefreshSkips(j) \/ CancelListenConfig(j) \/ \E c \in Content : Publish(j, c)
    \/ \E u \in Tasks : ListenServed(u) \/ Pusher(u) \/ Events(u)
    \/ \E u \in Tasks \ {t} : ListenFails(u) \/ ConnectionReplaced(u)

(* The server pushes changes of k, and its listener has been told the       *)
(* server's content, or the entry has it to be told when found in sync.     *)
Repaired(k, t) ==
    /\ <<k, t>> \in registered
    /\ cacheMap[k] # NoEntry /\ cacheMap[k].taskId = t
    /\ \/ lastMd5[cacheMap[k].listener] = Md5(server[k])
       \/ cacheMap[k].content = server[k]

(* The invariant of the round: all copies of the entry have its task and    *)
(* its listener, ...                                                        *)
Copies(k, t) ==
    /\ cacheMap[k] \in Entry
    /\ \A e \in Entry : Held(k, e) => e.taskId = t /\ e.listener = cacheMap[k].listener

(* ... and k waits for buildListenTask, all copies alike, ...              *)
Waits(k) ==
    /\ loop = "build" /\ needAllSync /\ k \in DOMAIN items
    /\ \A r \in todo : r.key # k
    /\ \A e \in Entry : Held(k, e) => e.content = items[k].content

(* ... or is to be asked about, with the md5 that all copies have, ...     *)
Pending(k, t) ==
    /\ loop # "idle" /\ k \notin changed /\ ~OfKey(refreshed, k)
    /\ \E r \in todo : r.key = k
    /\ \A r \in todo : r.key = k => /\ r.taskId = t
                                    /\ \A e \in Entry : Held(k, e) => Md5(e.content) = r.md5

(* ... or was asked about: it is to be refreshed, or every copy of it is   *)
(* repaired.                                                                *)
Asked(k, t) ==
    /\ loop # "build" /\ \A r \in todo : r.key # k
    /\ <<k, t>> \in registered
    /\ OfKey(refreshed, k) => refreshed.entry.content = server[k]
    /\ \/ k \in changed
       \/ OfKey(refreshed, k)
       \/ \A e \in Entry : Held(k, e) => lastMd5[e.listener] = Md5(server[k]) \/ e.content = server[k]

(* The three together. *)
RoundInv(k, t) == Copies(k, t) /\ (Waits(k) \/ Pending(k, t) \/ Asked(k, t))

(* The copy d, from which e was made or moved. *)
From(k, e, d) ==
    Held(k, d) /\ d.content = e.content /\ d.taskId = e.taskId /\ d.listener = e.listener

(* A step makes copies of the entry of k only from copies of it. *)
Moved(k) == \A e \in Entry : Held(k, e)' => \E d \in Entry : From(k, e, d)

(* An iteration that has dealt with a key has the others as they were. *)
LEMMA WithoutHas ==
    ASSUME NEW f \in Partial, NEW j, NEW k \in DOMAIN Without(f, j)
    PROVE  k \in DOMAIN f /\ Without(f, j)[k] = f[k] /\ k # j
  BY DEF Without, Restrict

(* Items() has what is in the map. *)
LEMMA ItemsHas ==
    ASSUME NEW k \in DOMAIN Items
    PROVE  k \in Present /\ k \in Keys /\ Items[k] = cacheMap[k] /\ cacheMap[k] # NoEntry
  BY DEF Items, Present

(* A copy that is only marked. *)
LEMMA MarkedCopy ==
    ASSUME NEW d \in Entry, NEW b \in BOOLEAN
    PROVE  /\ [d EXCEPT !.synced = b].content = d.content
           /\ [d EXCEPT !.synced = b].taskId = d.taskId
           /\ [d EXCEPT !.synced = b].listener = d.listener
           /\ [d EXCEPT !.synced = b] \in Entry
  BY DEF Entry

(* The six places of a copy. *)
InMap(k, e) == cacheMap[k] = e /\ e # NoEntry
InItems(k, e) == k \in DOMAIN items /\ items[k] = e
InRefresh(k, e) == refreshed = [key |-> k, entry |-> e]
InPusher(k, e) == \E t \in Tasks : pusher[t] = [key |-> k, entry |-> e]
InLost(k, e) == \E t \in Tasks : k \in DOMAIN lost[t] /\ lost[t][k] = e
InUser(k, e) == user = [key |-> k, entry |-> e]

(* A copy is in one of them. *)
LEMMA Places ==
    ASSUME NEW k, NEW e
    PROVE  /\ Held(k, e) <=> \/ InMap(k, e) \/ InItems(k, e) \/ InRefresh(k, e)
                             \/ InPusher(k, e) \/ InLost(k, e) \/ InUser(k, e)
           /\ Held(k, e)' <=> \/ InMap(k, e)' \/ InItems(k, e)' \/ InRefresh(k, e)'
                              \/ InPusher(k, e)' \/ InLost(k, e)' \/ InUser(k, e)'
  BY DEF Held, InMap, InItems, InRefresh, InPusher, InLost, InUser

(* What cacheMap has after a set. *)
LEMMA AfterSet ==
    ASSUME TypeOK, NEW j \in Keys, NEW entry, Set(j, entry), NEW k \in Keys, NEW e, InMap(k, e)'
    PROVE  InMap(k, e) \/ (k = j /\ e = entry)
  BY DEF Set, InMap, TypeOK

(* A copy is a copy of itself. *)
LEMMA FromItself == ASSUME NEW k, NEW e, Held(k, e) PROVE From(k, e, e)
  BY DEF From

(* A marked copy is from the one that was marked. *)
LEMMA FromMarked ==
    ASSUME NEW k, NEW d \in Entry, Held(k, d), NEW b \in BOOLEAN
    PROVE  From(k, [d EXCEPT !.synced = b], d)
  BY MarkedCopy DEF From

(* The loop moves copies, but for a query, which makes one with the content *)
(* that it got.                                                             *)
LEMMA LoopMoves ==
    ASSUME ListenInv, Loop, NEW k \in Keys, ~RefreshQueries(k)
    PROVE  Moved(k)
  <1> SUFFICES ASSUME NEW e \in Entry, Held(k, e)' PROVE \E d \in Entry : From(k, e, d)
    BY DEF Moved
  <1>0. ASSUME Held(k, e) PROVE \E d \in Entry : From(k, e, d)
    BY <1>0, FromItself
  <1>a. TypeOK /\ items \in Partial
    BY DEF ListenInv, TypeOK
  <1>b. UNCHANGED <<pusher, eventVars, user>>
    BY DEF Loop, LoopGoes, executeConfigListen, NothingToListen, TasksBuilt, buildListenTask, RefreshQueries,
           RefreshSkips, MarkSets, ListenFails, ListenServed, RefreshChecks, MarkReads, MarkDone, ListenDone
  <1>c. InPusher(k, e)' \/ InLost(k, e)' \/ InUser(k, e)' => Held(k, e)
    BY <1>b, Places DEF InPusher, InLost, InUser, eventVars
  <1>d. ASSUME UNCHANGED cacheMap, InMap(k, e)' PROVE Held(k, e)
    BY <1>d, Places DEF InMap
  <1>e. ASSUME UNCHANGED items, InItems(k, e)' PROVE Held(k, e)
    BY <1>e, Places DEF InItems
  <1>f. ASSUME UNCHANGED refreshed, InRefresh(k, e)' PROVE Held(k, e)
    BY <1>f, Places DEF InRefresh
  <1>g. ASSUME items' = Items, InItems(k, e)' PROVE Held(k, e)
    <2>1. k \in DOMAIN Items /\ Items[k] = e
      BY <1>g DEF InItems
    <2> QED BY <2>1, ItemsHas, Places DEF InMap
  <1>h. ASSUME NEW j, items' = Without(items, j), InItems(k, e)' PROVE Held(k, e)
    <2>1. k \in DOMAIN Without(items, j) /\ Without(items, j)[k] = e
      BY <1>h DEF InItems
    <2>2. InItems(k, e)
      BY <1>a, <2>1, WithoutHas DEF InItems
    <2> QED BY <2>2, Places
  <1>1. CASE executeConfigListen
    BY <1>0, <1>1, <1>c, <1>d, <1>f, <1>g, Places DEF executeConfigListen
  <1>2. CASE NothingToListen \/ TasksBuilt \/ MarkDone \/ ListenDone
    BY <1>0, <1>2, <1>c, <1>d, <1>e, <1>f, Places DEF NothingToListen, TasksBuilt, MarkDone, ListenDone
  <1>3. CASE MarkReads
    BY <1>0, <1>3, <1>c, <1>d, <1>f, <1>g, Places DEF MarkReads
  <1>4. ASSUME NEW t \in Tasks, ListenFails(t) \/ ListenServed(t) PROVE \E d \in Entry : From(k, e, d)
    BY <1>0, <1>4, <1>c, <1>d, <1>e, <1>f, Places DEF ListenFails, ListenServed
  <1>5. ASSUME NEW j \in Keys, RefreshSkips(j) PROVE \E d \in Entry : From(k, e, d)
    BY <1>0, <1>5, <1>c, <1>d, <1>e, <1>f, Places DEF RefreshSkips
  <1>6. ASSUME NEW j \in Keys, buildListenTask(j) PROVE \E d \in Entry : From(k, e, d)
    <2>1. /\ j \in DOMAIN items /\ items' = Without(items, j) /\ UNCHANGED refreshed
          /\ Set(j, items[j]) \/ UNCHANGED cacheMap
      BY <1>6 DEF buildListenTask, executeListener
    <2>2. ASSUME InMap(k, e)' PROVE Held(k, e)
      <3>1. InMap(k, e) \/ (k = j /\ e = items[j])
        BY <1>a, <2>1, <2>2, AfterSet DEF InMap
      <3> QED BY <2>1, <3>1, Places DEF InItems
    <2> QED BY <1>0, <1>c, <1>f, <1>h, <2>1, <2>2, Places
  <1>7. ASSUME NEW j \in Keys, MarkSets(j) PROVE \E d \in Entry : From(k, e, d)
    <2> DEFINE b == (j \notin changeKeys \/ items[j].synced)
    <2>1. /\ j \in DOMAIN items /\ items' = Without(items, j) /\ UNCHANGED refreshed
          /\ Set(j, [items[j] EXCEPT !.synced = b])
      BY <1>7 DEF MarkSets
    <2>2. items[j] \in Entry /\ b \in BOOLEAN
      BY <1>a, <2>1, PartialEntry
    <2>3. CASE InMap(k, e)'
      <3>1. CASE InMap(k, e)
        BY <1>0, <3>1, Places
      <3>2. CASE k = j /\ e = [items[j] EXCEPT !.synced = b]
        <4>1. Held(k, items[j])
          BY <2>1, <3>2, Places DEF InItems
        <4> HIDE DEF b
        <4> QED BY <2>2, <3>2, <4>1, FromMarked
      <3> HIDE DEF b
      <3> QED BY <1>a, <2>1, <2>3, <3>1, <3>2, AfterSet
    <2> QED BY <1>0, <1>c, <1>f, <1>h, <2>1, <2>3, Places
  <1>8. CASE RefreshChecks
    <2>1. /\ UNCHANGED items /\ refreshed' = None
          /\ Set(refreshed.key, refreshed.entry) \/ UNCHANGED cacheMap
          /\ refreshed \in Copy
      BY <1>8 DEF RefreshChecks, LoopGoes, executeListener, ListenInv, TypeOK, CheckHasCopy
    <2>2. ~InRefresh(k, e)'
      BY <2>1, ListenAssumption DEF InRefresh, None, Entry
    <2>3. ASSUME InMap(k, e)' PROVE Held(k, e)
      <3>1. refreshed.key \in Keys /\ refreshed = [key |-> refreshed.key, entry |-> refreshed.entry]
        BY <2>1 DEF Copy
      <3>2. InMap(k, e) \/ (k = refreshed.key /\ e = refreshed.entry)
        BY <1>a, <2>1, <2>3, <3>1, AfterSet DEF InMap
      <3> QED BY <3>1, <3>2, Places DEF InRefresh
    <2> QED BY <1>0, <1>c, <1>e, <2>1, <2>2, <2>3, Places
  <1>9. ASSUME NEW j \in Keys, RefreshQueries(j), j # k PROVE \E d \in Entry : From(k, e, d)
    <2>1. /\ UNCHANGED <<items, cacheMap>>
          /\ refreshed'.key = j
      BY <1>9 DEF RefreshQueries
    <2>2. ~InRefresh(k, e)'
      BY <1>9, <2>1 DEF InRefresh
    <2> QED BY <1>0, <1>c, <1>d, <1>e, <2>1, <2>2, Places
  <1> QED BY <1>1, <1>2, <1>3, <1>4, <1>5, <1>6, <1>7, <1>8, <1>9 DEF Loop

(* The receivers and the event loops set back, marked, the copies that they *)
(* took.                                                                    *)
LEMMA ConnectionMoves ==
    ASSUME ListenInv, NEW t \in Tasks, Pusher(t) \/ Events(t) \/ ConnectionReplaced(t), NEW k \in Keys
    PROVE  Moved(k)
  <1> SUFFICES ASSUME NEW e \in Entry, Held(k, e)' PROVE \E d \in Entry : From(k, e, d)
    BY DEF Moved
  <1>0. ASSUME Held(k, e) PROVE \E d \in Entry : From(k, e, d)
    BY <1>0, FromItself
  <1>a. /\ TypeOK /\ pusher \in [Tasks -> Copy \union {None}] /\ lost \in [Tasks -> Partial]
        /\ pusher[t] \in Copy \union {None} /\ lost[t] \in Partial
    BY DEF ListenInv, TypeOK
  <1>b. UNCHANGED <<loopVars, user>>
    BY DEF Pusher, Events, RequestReplyReads, RequestReplySets, ConnectionReplaced, OnDisConnectReads, OnDisConnectSets,
           OnConnected, OthersKeep
  <1>c. InItems(k, e)' \/ InRefresh(k, e)' \/ InUser(k, e)' => Held(k, e)
    BY <1>b, Places DEF InItems, InRefresh, InUser, loopVars
  <1>d. ASSUME UNCHANGED cacheMap, InMap(k, e)' PROVE Held(k, e)
    BY <1>d, Places DEF InMap
  <1>e. ASSUME UNCHANGED pusher, InPusher(k, e)' PROVE Held(k, e)
    BY <1>e, Places DEF InPusher
  <1>f. ASSUME UNCHANGED lost, InLost(k, e)' PROVE Held(k, e)
    BY <1>f, Places DEF InLost
  <1>1. ASSUME NEW j \in Keys, RequestReplyReads(j, t) PROVE \E d \in Entry : From(k, e, d)
    <2>1. /\ UNCHANGED <<cacheMap, lost>>
          /\ pusher' = IF cacheMap[j] = NoEntry THEN pusher
                       ELSE [pusher EXCEPT ![t] = [key |-> j, entry |-> cacheMap[j]]]
      BY <1>1 DEF RequestReplyReads, eventVars
    <2>2. ASSUME InPusher(k, e)' PROVE Held(k, e)
      <3>1. PICK u \in Tasks : pusher'[u] = [key |-> k, entry |-> e]
        BY <2>2 DEF InPusher
      <3>2. CASE pusher'[u] = pusher[u]
        BY <3>1, <3>2, Places DEF InPusher
      <3>3. CASE cacheMap[j] # NoEntry /\ pusher'[u] = [key |-> j, entry |-> cacheMap[j]]
        BY <3>1, <3>3, Places DEF InMap
      <3> QED BY <1>a, <2>1, <3>2, <3>3
    <2> QED BY <1>0, <1>c, <1>d, <1>f, <2>1, <2>2, Places
  <1>2. CASE RequestReplySets(t)
    <2>1. /\ UNCHANGED lost /\ pusher[t] # None
          /\ pusher' = [pusher EXCEPT ![t] = None]
          /\ Set(pusher[t].key, [pusher[t].entry EXCEPT !.synced = FALSE])
      BY <1>2 DEF RequestReplySets, eventVars
    <2>2. pusher[t].key \in Keys /\ pusher[t].entry \in Entry /\ pusher[t] = [key |-> pusher[t].key, entry |-> pusher[t].entry]
      BY <1>a, <2>1 DEF Copy
    <2>3. ASSUME InPusher(k, e)' PROVE Held(k, e)
      <3>1. PICK u \in Tasks : pusher'[u] = [key |-> k, entry |-> e]
        BY <2>3 DEF InPusher
      <3>2. pusher'[u] # None
        BY <3>1, ListenAssumption DEF None, Entry
      <3>3. pusher'[u] = pusher[u]
        BY <1>a, <2>1, <3>2
      <3> QED BY <3>1, <3>3, Places DEF InPusher
    <2>4. CASE InMap(k, e)'
      <3>1. CASE InMap(k, e)
        BY <1>0, <3>1, Places
      <3>2. CASE k = pusher[t].key /\ e = [pusher[t].entry EXCEPT !.synced = FALSE]
        <4>1. Held(k, pusher[t].entry)
          BY <2>2, <3>2, Places DEF InPusher
        <4> QED BY <2>2, <3>2, <4>1, FromMarked
      <3> QED BY <1>a, <2>1, <2>2, <2>4, <3>1, <3>2, AfterSet
    <2> QED BY <1>0, <1>c, <1>f, <2>1, <2>3, <2>4, Places
  <1>3. CASE OnDisConnectReads(t)
    <2> DEFINE S == {j \in Present : cacheMap[j].taskId = t}
    <2>1. UNCHANGED <<cacheMap, pusher>> /\ lost' = [lost EXCEPT ![t] = Restrict(Items, S)]
      BY <1>3 DEF OnDisConnectReads
    <2>2. ASSUME InLost(k, e)' PROVE Held(k, e)
      <3>1. PICK u \in Tasks : k \in DOMAIN lost'[u] /\ lost'[u][k] = e
        BY <2>2 DEF InLost
      <3>2. CASE lost'[u] = lost[u]
        BY <3>1, <3>2, Places DEF InLost
      <3>3. CASE lost'[u] = Restrict(Items, S)
        <4>1. k \in S /\ e = Items[k]
          BY <3>1, <3>3 DEF Restrict
        <4>2. e = cacheMap[k] /\ cacheMap[k] # NoEntry
          BY <4>1 DEF Items, Present
        <4> QED BY <4>2, Places DEF InMap
      <3> HIDE DEF S
      <3> QED BY <1>a, <2>1, <3>2, <3>3
    <2> HIDE DEF S
    <2> QED BY <1>0, <1>c, <1>d, <1>e, <2>1, <2>2, Places
  <1>4. ASSUME NEW j \in Keys, OnDisConnectSets(t, j) PROVE \E d \in Entry : From(k, e, d)
    <2>1. /\ UNCHANGED pusher /\ j \in DOMAIN lost[t]
          /\ lost' = [lost EXCEPT ![t] = Without(lost[t], j)]
          /\ Set(j, [lost[t][j] EXCEPT !.synced = FALSE])
      BY <1>4 DEF OnDisConnectSets
    <2>2. lost[t][j] \in Entry
      BY <1>a, <2>1, PartialEntry
    <2>3. ASSUME InLost(k, e)' PROVE Held(k, e)
      <3>1. PICK u \in Tasks : k \in DOMAIN lost'[u] /\ lost'[u][k] = e
        BY <2>3 DEF InLost
      <3>2. CASE lost'[u] = lost[u]
        BY <3>1, <3>2, Places DEF InLost
      <3>3. CASE u = t /\ lost'[u] = Without(lost[t], j)
        <4>1. k \in DOMAIN lost[t] /\ lost[t][k] = e
          BY <1>a, <3>1, <3>3, WithoutHas
        <4> QED BY <4>1, Places DEF InLost
      <3> QED BY <1>a, <2>1, <3>2, <3>3
    <2>4. CASE InMap(k, e)'
      <3>1. CASE InMap(k, e)
        BY <1>0, <3>1, Places
      <3>2. CASE k = j /\ e = [lost[t][j] EXCEPT !.synced = FALSE]
        <4>1. Held(k, lost[t][j])
          BY <2>1, <3>2, Places DEF InLost
        <4> QED BY <2>2, <3>2, <4>1, FromMarked
      <3> QED BY <1>a, <2>1, <2>4, <3>1, <3>2, AfterSet
    <2> QED BY <1>0, <1>c, <1>e, <2>1, <2>3, <2>4, Places
  <1>5. CASE OnConnected(t) \/ ConnectionReplaced(t)
    BY <1>0, <1>5, <1>c, <1>d, <1>e, <1>f, Places DEF OnConnected, ConnectionReplaced
  <1> QED BY <1>1, <1>2, <1>3, <1>4, <1>5 DEF Pusher, Events

(* So does a user who listens again or cancels; a new entry is made for its *)
(* key alone.                                                               *)
LEMMA UserMoves ==
    ASSUME ListenInv, NEW k \in Keys,
           \/ ListenConfigSets \/ AllSyncFallsDue
           \/ \E j \in Keys : \/ ListenConfigAgain(j) \/ CancelListenConfig(j)
                              \/ j # k /\ \E l \in Listeners : ListenConfigAnew(j, l)
                              \/ \E c \in Content : Publish(j, c)
    PROVE  Moved(k)
  <1> SUFFICES ASSUME NEW e \in Entry, Held(k, e)' PROVE \E d \in Entry : From(k, e, d)
    BY DEF Moved
  <1>0. ASSUME Held(k, e) PROVE \E d \in Entry : From(k, e, d)
    BY <1>0, FromItself
  <1>a. TypeOK /\ user \in Copy \union {None}
    BY DEF ListenInv, TypeOK
  <1>b. UNCHANGED <<loopVars, pusher, eventVars>>
    BY DEF ListenConfigSets, AllSyncFallsDue, ListenConfigAgain, CancelListenConfig, ListenConfigAnew, Publish, UserKeeps
  <1>c. InItems(k, e)' \/ InRefresh(k, e)' \/ InPusher(k, e)' \/ InLost(k, e)' => Held(k, e)
    BY <1>b, Places DEF InItems, InRefresh, InPusher, InLost, loopVars, eventVars
  <1>d. ASSUME UNCHANGED cacheMap, InMap(k, e)' PROVE Held(k, e)
    BY <1>d, Places DEF InMap
  <1>e. ASSUME UNCHANGED user, InUser(k, e)' PROVE Held(k, e)
    BY <1>e, Places DEF InUser
  <1>1. CASE ListenConfigSets
    <2>1. user \in Copy /\ user' = None /\ Set(user.key, user.entry)
      BY <1>1, <1>a DEF ListenConfigSets
    <2>2. user.key \in Keys /\ user = [key |-> user.key, entry |-> user.entry]
      BY <2>1 DEF Copy
    <2>3. ~InUser(k, e)'
      BY <2>1, ListenAssumption DEF InUser, None, Entry
    <2>4. ASSUME InMap(k, e)' PROVE Held(k, e)
      <3>1. InMap(k, e) \/ (k = user.key /\ e = user.entry)
        BY <1>a, <2>1, <2>2, <2>4, AfterSet
      <3> QED BY <2>2, <3>1, Places DEF InUser
    <2> QED BY <1>0, <1>c, <2>3, <2>4, Places
  <1>2. ASSUME NEW j \in Keys, ListenConfigAgain(j) PROVE \E d \in Entry : From(k, e, d)
    <2>1. UNCHANGED cacheMap /\ cacheMap[j] # NoEntry /\ user' = [key |-> j, entry |-> cacheMap[j]]
      BY <1>2 DEF ListenConfigAgain
    <2>2. ASSUME InUser(k, e)' PROVE Held(k, e)
      BY <2>1, <2>2, Places DEF InUser, InMap
    <2> QED BY <1>0, <1>c, <1>d, <2>1, <2>2, Places
  <1>3. ASSUME NEW j \in Keys, CancelListenConfig(j) PROVE \E d \in Entry : From(k, e, d)
    <2>1. UNCHANGED user /\ Set(j, NoEntry)
      BY <1>3 DEF CancelListenConfig
    <2>2. ASSUME InMap(k, e)' PROVE Held(k, e)
      <3>1. InMap(k, e) \/ (k = j /\ e = NoEntry)
        BY <1>a, <2>1, <2>2, AfterSet
      <3> QED BY <3>1, Places, ListenAssumption
    <2> QED BY <1>0, <1>c, <1>e, <2>1, <2>2, Places
  <1>4. ASSUME NEW j \in Keys, j # k, NEW l \in Listeners, ListenConfigAnew(j, l) PROVE \E d \in Entry : From(k, e, d)
    <2>1. UNCHANGED cacheMap /\ user'.key = j
      BY <1>4 DEF ListenConfigAnew
    <2>2. ~InUser(k, e)'
      BY <1>4, <2>1 DEF InUser
    <2> QED BY <1>0, <1>c, <1>d, <2>1, <2>2, Places
  <1>5. CASE AllSyncFallsDue \/ \E j \in Keys, c \in Content : Publish(j, c)
    BY <1>0, <1>5, <1>c, <1>d, <1>e, Places DEF AllSyncFallsDue, Publish
  <1> QED BY <1>1, <1>2, <1>3, <1>4, <1>5

(* A query makes a copy with the content that it got. *)
LEMMA QueryCopies ==
    ASSUME ListenInv, NEW k \in Keys, RefreshQueries(k), NEW e \in Entry, Held(k, e)'
    PROVE  Held(k, e) \/ (InRefresh(k, e)' /\ e = [cacheMap[k] EXCEPT !.content = server[k]])
  <1>1. /\ UNCHANGED <<cacheMap, items, pusher, eventVars, user>>
        /\ refreshed' = [key |-> k, entry |-> [cacheMap[k] EXCEPT !.content = server[k]]]
    BY DEF RefreshQueries, LoopGoes
  <1>2. CASE InRefresh(k, e)'
    BY <1>1, <1>2 DEF InRefresh
  <1>3. CASE ~InRefresh(k, e)'
    BY <1>1, <1>3, Places DEF InMap, InItems, InPusher, InLost, InUser, eventVars
  <1> QED BY <1>2, <1>3

(* ListenConfig of a new key makes the one entry, with a listener that no   *)
(* copy has.                                                                *)
LEMMA NewCopies ==
    ASSUME ListenInv, NEW k \in Keys, NEW l \in Listeners, ListenConfigAnew(k, l)
    PROVE  /\ \A e \in Entry : Held(k, e)' => Held(k, e) \/ e.listener = l
           /\ \A j \in Keys, d \in Entry : Held(j, d) => d.listener # l
  <1>1. /\ UNCHANGED <<cacheMap, loopVars, pusher, eventVars>> /\ user = None /\ user'.entry.listener = l
        /\ ~Referenced(l)
    BY DEF ListenConfigAnew, UserKeeps
  <1>2. ASSUME NEW e \in Entry, Held(k, e)' PROVE Held(k, e) \/ e.listener = l
    <2>1. CASE InUser(k, e)'
      BY <1>1, <2>1 DEF InUser
    <2>2. CASE ~InUser(k, e)'
      BY <1>1, <1>2, <2>2, Places DEF InMap, InItems, InRefresh, InPusher, InLost, eventVars, loopVars
    <2> QED BY <2>1, <2>2
  <1>3. ASSUME NEW j \in Keys, NEW d \in Entry, Held(j, d), d.listener = l PROVE FALSE
    <2>1. ~InUser(j, d)
      BY <1>1, ListenAssumption DEF InUser, None, Entry
    <2>2. ~InMap(j, d)
      BY <1>1, <1>3 DEF InMap, Referenced, Present
    <2>3. ~InItems(j, d)
      BY <1>1, <1>3 DEF InItems, Referenced
    <2>4. ~InRefresh(j, d)
      <3>1. [key |-> j, entry |-> d] # None
        BY ListenAssumption DEF None
      <3> QED BY <1>1, <1>3, <3>1 DEF InRefresh, Referenced
    <2>5. ~InPusher(j, d)
      <3>1. [key |-> j, entry |-> d] # None
        BY ListenAssumption DEF None
      <3> QED BY <1>1, <1>3, <3>1 DEF InPusher, Referenced
    <2>6. ~InLost(j, d)
      BY <1>1, <1>3 DEF InLost, Referenced
    <2> QED BY <1>3, <2>1, <2>2, <2>3, <2>4, <2>5, <2>6, Places
  <1> QED BY <1>2, <1>3

(* In any step, a copy has the listener of a copy of the same key before    *)
(* it, or is the one that ListenConfig makes.                               *)
LEMMA ListenersStay ==
    ASSUME ListenInv, [Next]_vars, NEW k \in Keys, NEW e \in Entry, Held(k, e)'
    PROVE  \/ \E d \in Entry : Held(k, d) /\ d.listener = e.listener
           \/ \E l \in Listeners : ListenConfigAnew(k, l) /\ e.listener = l
  <1>1. CASE Moved(k)
    BY <1>1 DEF Moved, From
  <1>2. CASE RefreshQueries(k)
    <2>1. CASE Held(k, e)
      BY <2>1
    <2>2. CASE e = [cacheMap[k] EXCEPT !.content = server[k]]
      <3>1. cacheMap[k] \in Entry /\ cacheMap[k] # NoEntry
        BY <1>2 DEF RefreshQueries, ListenInv, TypeOK
      <3>2. Held(k, cacheMap[k])
        BY <3>1, Places DEF InMap
      <3>3. e.listener = cacheMap[k].listener
        BY <2>2, <3>1 DEF Entry
      <3> QED BY <3>1, <3>2, <3>3
    <2> QED BY <1>2, <2>1, <2>2, QueryCopies
  <1>3. ASSUME NEW l \in Listeners, ListenConfigAnew(k, l)
        PROVE  (\E d \in Entry : Held(k, d) /\ d.listener = e.listener) \/ e.listener = l
    BY <1>3, NewCopies
  <1>4. CASE UNCHANGED vars
    <2>1. Held(k, e)
      BY <1>4 DEF Held, vars, loopVars, eventVars
    <2> QED BY <2>1
  <1>5. CASE Loop /\ ~RefreshQueries(k)
    BY <1>1, <1>5, LoopMoves
  <1>6. ASSUME NEW t \in Tasks, Pusher(t) \/ Events(t) \/ ConnectionReplaced(t) PROVE Moved(k)
    BY <1>6, ConnectionMoves
  <1>7. ASSUME \/ ListenConfigSets \/ AllSyncFallsDue
               \/ \E j \in Keys : \/ ListenConfigAgain(j) \/ CancelListenConfig(j)
                                  \/ j # k /\ \E l \in Listeners : ListenConfigAnew(j, l)
                                  \/ \E c \in Content : Publish(j, c)
        PROVE  Moved(k)
    BY <1>7, UserMoves
  <1> QED BY <1>1, <1>2, <1>3, <1>4, <1>5, <1>6, <1>7 DEF Next, Outside

(* Listeners stay apart. *)
LEMMA ApartStep == ASSUME ListenInv, ListenersApart, [Next]_vars PROVE ListenersApart'
  <1> SUFFICES ASSUME NEW k \in Keys, NEW j \in Keys, NEW d \in Entry, NEW e \in Entry,
                      Held(k, d)', Held(j, e)', d.listener = e.listener
               PROVE  k = j
    BY DEF ListenersApart
  <1>1. ASSUME NEW l \in Listeners, ListenConfigAnew(k, l), d.listener = l,
               NEW b \in Entry, Held(j, b), b.listener = e.listener
        PROVE  FALSE
    BY <1>1, NewCopies
  <1>2. ASSUME NEW l \in Listeners, ListenConfigAnew(j, l), e.listener = l,
               NEW b \in Entry, Held(k, b), b.listener = d.listener
        PROVE  FALSE
    BY <1>2, NewCopies
  <1>3. ASSUME NEW l \in Listeners, NEW m \in Listeners, ListenConfigAnew(k, l), ListenConfigAnew(j, m) PROVE k = j
    BY <1>3 DEF ListenConfigAnew
  <1>4. ASSUME NEW b \in Entry, NEW c \in Entry, Held(k, b), Held(j, c), b.listener = c.listener PROVE k = j
    BY <1>4 DEF ListenersApart
  <1>5. \/ \E b \in Entry : Held(k, b) /\ b.listener = d.listener
        \/ \E l \in Listeners : ListenConfigAnew(k, l) /\ d.listener = l
    BY ListenersStay
  <1>6. \/ \E b \in Entry : Held(j, b) /\ b.listener = e.listener
        \/ \E l \in Listeners : ListenConfigAnew(j, l) /\ e.listener = l
    BY ListenersStay
  <1> QED BY <1>1, <1>2, <1>3, <1>4, <1>5, <1>6

(* Keys to refresh, and a refreshed copy, are there only meanwhile. *)
LEMMA RefreshOnlyStep == ASSUME RefreshOnly, [Next]_vars PROVE RefreshOnly'
  <1>1. CASE Loop
    <2>1. CASE NothingToListen \/ TasksBuilt \/ MarkReads \/ MarkDone \/ ListenDone \/ executeConfigListen \/ RefreshChecks
      BY <2>1 DEF RefreshOnly, LoopGoes, NothingToListen, TasksBuilt, MarkReads, MarkDone, ListenDone,
                  executeConfigListen, RefreshChecks
    <2>2. ASSUME NEW k \in Keys, buildListenTask(k) \/ RefreshQueries(k) \/ RefreshSkips(k) \/ MarkSets(k)
          PROVE  RefreshOnly'
      BY <2>2 DEF RefreshOnly, LoopGoes, buildListenTask, RefreshQueries, RefreshSkips, MarkSets
    <2>3. ASSUME NEW t \in Tasks, ListenFails(t) \/ ListenServed(t) PROVE RefreshOnly'
      BY <2>3 DEF RefreshOnly, LoopGoes, ListenFails, ListenServed
    <2> QED BY <1>1, <2>1, <2>2, <2>3 DEF Loop
  <1>2. CASE UNCHANGED <<loop, changed, refreshed>>
    BY <1>2 DEF RefreshOnly
  <1>3. CASE ~Loop
    BY <1>2, <1>3 DEF Next, Outside, AllSyncFallsDue, ListenConfigSets, Pusher, Events, RequestReplyReads, RequestReplySets,
                OnDisConnectReads, OnDisConnectSets, OnConnected, ConnectionReplaced, ListenConfigAgain,
                CancelListenConfig, ListenConfigAnew, Publish, UserKeeps, OthersKeep, loopVars, vars
  <1> QED BY <1>1, <1>3

(* What holds of the client whatever happens. *)
LEMMA AlwaysSyncInv == Spec => []SyncInv
  <1>1. Init => SyncInv
    <2> SUFFICES ASSUME Init PROVE SyncInv
      OBVIOUS
    <2>1. ListenInv
      BY Initially
    <2>2. \A k \in Keys, e \in Entry : ~Held(k, e)
      <3> SUFFICES ASSUME NEW k \in Keys, NEW e \in Entry, Held(k, e) PROVE FALSE
        OBVIOUS
      <3>1. None # [key |-> k, entry |-> e]
        BY ListenAssumption DEF None
      <3>2. ~InMap(k, e) /\ ~InItems(k, e) /\ ~InLost(k, e)
        BY DEF Init, InMap, InItems, InLost, NoItems
      <3>3. ~InRefresh(k, e) /\ ~InPusher(k, e) /\ ~InUser(k, e)
        BY <3>1 DEF Init, InRefresh, InPusher, InUser
      <3> QED BY <3>2, <3>3, Places
    <2>3. ListenersApart
      BY <2>2 DEF ListenersApart
    <2>4. RefreshOnly
      BY DEF Init, RefreshOnly
    <2> QED BY <2>1, <2>3, <2>4 DEF SyncInv
  <1>2. SyncInv /\ [Next]_vars => SyncInv'
    BY Step, ApartStep, RefreshOnlyStep DEF SyncInv
  <1> QED BY <1>1, <1>2, PTL DEF Spec

(* The steps of a round are steps of the client. *)
LEMMA WellIsNext ==
    ASSUME NEW k \in Keys, NEW t \in Tasks, GoesWell(k, t)
    PROVE  Next
  BY DEF GoesWell, Next, Loop, Outside

(* A step of the round leaves k listened to, and copies of it with its task *)
(* and its listener.                                                        *)
LEMMA CopiesStep ==
    ASSUME SyncInv, ListenInv', NEW k \in Keys, NEW t \in Tasks, Copies(k, t), GoesWell(k, t)
    PROVE  Copies(k, t)' /\ cacheMap'[k].listener = cacheMap[k].listener
  <1>0. ListenInv /\ cacheMap[k] \in Entry /\ cacheMap[k] # NoEntry /\ server[k] \in Content
    BY ListenAssumption DEF SyncInv, Copies, ListenInv, TypeOK
  <1>1. ASSUME NEW e \in Entry, Held(k, e)' PROVE e.taskId = t /\ e.listener = cacheMap[k].listener
    <2>1. CASE Moved(k)
      BY <1>1, <2>1 DEF Moved, From, Copies
    <2>2. CASE RefreshQueries(k)
      <3>1. CASE Held(k, e)
        BY <3>1 DEF Copies
      <3>2. CASE e = [cacheMap[k] EXCEPT !.content = server[k]]
        <4>1. e.taskId = cacheMap[k].taskId /\ e.listener = cacheMap[k].listener
          BY <1>0, <3>2 DEF Entry
        <4>2. Held(k, cacheMap[k])
          BY <1>0, Places DEF InMap
        <4> QED BY <1>0, <4>1, <4>2 DEF Copies
      <3> QED BY <1>0, <1>1, <2>2, <3>1, <3>2, QueryCopies
    <2>3. ASSUME NEW l \in Listeners, ListenConfigAnew(k, l) PROVE FALSE
      BY <1>0, <2>3 DEF ListenConfigAnew
    <2>4. CASE Loop /\ ~RefreshQueries(k)
      BY <1>0, <2>1, <2>4, LoopMoves
    <2>5. ASSUME NEW u \in Tasks, Pusher(u) \/ Events(u) \/ ConnectionReplaced(u) PROVE Moved(k)
      BY <1>0, <2>5, ConnectionMoves
    <2>6. ASSUME \/ ListenConfigSets \/ AllSyncFallsDue
                 \/ \E j \in Keys : \/ ListenConfigAgain(j) \/ CancelListenConfig(j)
                                    \/ j # k /\ \E l \in Listeners : ListenConfigAnew(j, l)
                                    \/ \E c \in Content : Publish(j, c)
          PROVE  Moved(k)
      BY <1>0, <2>6, UserMoves
    <2> QED BY <2>1, <2>2, <2>3, <2>4, <2>5, <2>6, WellIsNext DEF Next, Outside
  <1>2. cacheMap'[k] # NoEntry
    <2>1. ASSUME NEW j \in Keys, NEW entry \in Entry, Set(j, entry) PROVE cacheMap'[k] # NoEntry
      BY <1>0, <2>1, ListenAssumption DEF Set, ListenInv, TypeOK
    <2>2. CASE UNCHANGED cacheMap
      BY <1>0, <2>2
    <2>3. ASSUME NEW j \in Keys \ {k}, CancelListenConfig(j) PROVE cacheMap'[k] # NoEntry
      BY <1>0, <2>3 DEF CancelListenConfig, Set, ListenInv, TypeOK
    <2>4. CASE NothingToListen \/ TasksBuilt \/ MarkReads \/ MarkDone \/ ListenDone \/ AllSyncFallsDue
      BY <2>2, <2>4 DEF NothingToListen, TasksBuilt, MarkReads, MarkDone, ListenDone, AllSyncFallsDue
    <2>5. CASE RefreshChecks
      <3>1. refreshed.key \in Keys /\ refreshed.entry \in Entry
        BY <1>0, <2>5 DEF RefreshChecks, LoopGoes, ListenInv, CheckHasCopy, TypeOK, Copy
      <3> QED BY <2>1, <2>2, <2>5, <3>1 DEF RefreshChecks, executeListener
    <2>6. CASE ListenConfigSets
      <3>1. user.key \in Keys /\ user.entry \in Entry
        BY <1>0, <2>6 DEF ListenConfigSets, ListenInv, TypeOK, Copy
      <3> QED BY <2>1, <2>6, <3>1 DEF ListenConfigSets
    <2>7. ASSUME NEW j \in Keys, buildListenTask(j) PROVE cacheMap'[k] # NoEntry
      <3>1. items[j] \in Entry
        BY <1>0, <2>7, PartialEntry DEF buildListenTask, ListenInv, TypeOK
      <3> QED BY <2>1, <2>2, <2>7, <3>1 DEF buildListenTask, executeListener
    <2>8. ASSUME NEW j \in Keys, MarkSets(j) PROVE cacheMap'[k] # NoEntry
      <3> DEFINE b == (j \notin changeKeys \/ items[j].synced)
      <3>1. items[j] \in Entry /\ b \in BOOLEAN /\ Set(j, [items[j] EXCEPT !.synced = b])
        BY <1>0, <2>8, PartialEntry DEF MarkSets, ListenInv, TypeOK
      <3>2. [items[j] EXCEPT !.synced = b] \in Entry
        <4> HIDE DEF b
        <4> QED BY <3>1, MarkedCopy
      <3> QED BY <2>1, <3>1, <3>2
    <2>9. ASSUME NEW j \in Keys,
                 \/ RefreshQueries(j) \/ ListenConfigAgain(j) \/ RefreshSkips(j)
                 \/ (\E l \in Listeners : ListenConfigAnew(j, l)) \/ \E c \in Content : Publish(j, c)
          PROVE  cacheMap'[k] # NoEntry
      BY <2>2, <2>9 DEF RefreshQueries, ListenConfigAgain, RefreshSkips, ListenConfigAnew, Publish
    <2>10. ASSUME NEW u \in Tasks, ListenServed(u) \/ ListenFails(u) \/ ConnectionReplaced(u) PROVE cacheMap'[k] # NoEntry
      BY <2>2, <2>10 DEF ListenServed, ListenFails, ConnectionReplaced
    <2>11. ASSUME NEW u \in Tasks, Pusher(u) PROVE cacheMap'[k] # NoEntry
      <3>1. CASE RequestReplySets(u)
        <4>1. pusher[u].key \in Keys /\ pusher[u].entry \in Entry
          BY <1>0, <3>1 DEF RequestReplySets, ListenInv, TypeOK, Copy
        <4>2. [pusher[u].entry EXCEPT !.synced = FALSE] \in Entry
          BY <4>1, MarkedCopy
        <4> QED BY <2>1, <3>1, <4>1, <4>2 DEF RequestReplySets
      <3> QED BY <2>2, <2>11, <3>1 DEF Pusher, RequestReplyReads
    <2>12. ASSUME NEW u \in Tasks, Events(u) PROVE cacheMap'[k] # NoEntry
      <3>1. ASSUME NEW j \in Keys, OnDisConnectSets(u, j) PROVE cacheMap'[k] # NoEntry
        <4>1. lost[u][j] \in Entry
          BY <1>0, <3>1, PartialEntry DEF OnDisConnectSets, ListenInv, TypeOK
        <4>2. [lost[u][j] EXCEPT !.synced = FALSE] \in Entry
          BY <4>1, MarkedCopy
        <4> QED BY <2>1, <3>1, <4>2 DEF OnDisConnectSets
      <3> QED BY <2>2, <2>12, <3>1 DEF Events, OnDisConnectReads, OnConnected
    <2> QED BY <2>3, <2>4, <2>5, <2>6, <2>7, <2>8, <2>9, <2>10, <2>11, <2>12 DEF GoesWell
  <1>3. cacheMap'[k] \in Entry
    BY <1>2 DEF ListenInv, TypeOK
  <1>4. PICK x \in Entry : x = cacheMap'[k]
    BY <1>3
  <1>5. Held(k, x)'
    BY <1>2, <1>4 DEF Held
  <1>6. cacheMap'[k].listener = cacheMap[k].listener
    BY <1>1, <1>4, <1>5
  <1> QED BY <1>1, <1>3, <1>6 DEF Copies

(* A step that leaves the loop alone, and what concerns k, keeps the        *)
(* round's invariant.                                                       *)
LEMMA AsideStep ==
    ASSUME SyncInv, NEW k \in Keys, NEW t \in Tasks, RoundInv(k, t), Copies(k, t)', Moved(k), UNCHANGED loopVars,
           server'[k] = server[k], <<k, t>> \in registered => <<k, t>> \in registered',
           lastMd5'[cacheMap[k].listener] = lastMd5[cacheMap[k].listener]
    PROVE  RoundInv(k, t)'
  <1>0. /\ loop' = loop /\ needAllSync' = needAllSync /\ items' = items /\ todo' = todo /\ changed' = changed
        /\ refreshed' = refreshed
    BY DEF loopVars
  <1>1. CASE Waits(k)
    <2>1. ASSUME NEW e \in Entry, Held(k, e)' PROVE e.content = items[k].content
      BY <1>1, <2>1 DEF Waits, Moved, From
    <2> QED BY <1>0, <1>1, <2>1 DEF Waits, RoundInv
  <1>2. CASE Pending(k, t)
    <2>1. ASSUME NEW r \in todo, r.key = k, NEW e \in Entry, Held(k, e)' PROVE Md5(e.content) = r.md5
      BY <1>2, <2>1 DEF Pending, Moved, From
    <2>2. Pending(k, t)'
      BY <1>0, <1>2, <2>1 DEF Pending, OfKey, None
    <2> QED BY <2>2 DEF RoundInv
  <1>3. CASE Asked(k, t)
    <2>1. ASSUME \A e \in Entry : Held(k, e) => lastMd5[e.listener] = Md5(server[k]) \/ e.content = server[k],
                 NEW e \in Entry, Held(k, e)'
          PROVE  lastMd5'[e.listener] = Md5(server[k]) \/ e.content = server[k]
      <3>1. PICK d \in Entry : From(k, e, d)
        BY <2>1 DEF Moved
      <3>2. d.listener = cacheMap[k].listener
        BY <3>1 DEF From, RoundInv, Copies
      <3> QED BY <2>1, <3>1, <3>2 DEF From
    <2>2. Asked(k, t)'
      BY <1>0, <1>3, <2>1 DEF Asked, OfKey, None
    <2> QED BY <2>2 DEF RoundInv
  <1> QED BY <1>1, <1>2, <1>3 DEF RoundInv

(* The steps of the other goroutines, of the user and of the server. *)
LEMMA OthersStep ==
    ASSUME SyncInv, NEW k \in Keys, NEW t \in Tasks, RoundInv(k, t), Copies(k, t)',
           \/ AllSyncFallsDue \/ ListenConfigSets
           \/ \E j \in Keys : ListenConfigAgain(j) \/ \E l \in Listeners : ListenConfigAnew(j, l)
           \/ \E j \in Keys \ {k} : CancelListenConfig(j) \/ \E c \in Content : Publish(j, c)
           \/ \E u \in Tasks : Pusher(u) \/ Events(u)
           \/ \E u \in Tasks \ {t} : ConnectionReplaced(u)
    PROVE  RoundInv(k, t)'
  <1>0. ListenInv /\ cacheMap[k] \in Entry /\ cacheMap[k] # NoEntry
    BY ListenAssumption DEF SyncInv, RoundInv, Copies
  <1>1. ASSUME NEW j \in Keys, NEW l \in Listeners, ListenConfigAnew(j, l) PROVE j # k /\ l # cacheMap[k].listener
    <2>1. Held(k, cacheMap[k])
      BY <1>0, Places DEF InMap
    <2> QED BY <1>0, <1>1, <2>1, NewCopies DEF ListenConfigAnew
  <1>2. Moved(k)
    BY <1>0, <1>1, UserMoves, ConnectionMoves
  <1>3. UNCHANGED loopVars
    BY DEF AllSyncFallsDue, ListenConfigSets, ListenConfigAgain, ListenConfigAnew, CancelListenConfig, Publish, Pusher,
           Events, RequestReplyReads, RequestReplySets, OnDisConnectReads, OnDisConnectSets, OnConnected, ConnectionReplaced,
           UserKeeps, OthersKeep
  <1>4. server'[k] = server[k]
    <2>1. ASSUME NEW j \in Keys \ {k}, NEW c \in Content, Publish(j, c) PROVE server'[k] = server[k]
      BY <1>0, <2>1 DEF Publish, ListenInv, TypeOK
    <2> QED BY <2>1 DEF AllSyncFallsDue, ListenConfigSets, ListenConfigAgain, ListenConfigAnew, CancelListenConfig, Pusher,
           Events, RequestReplyReads, RequestReplySets, OnDisConnectReads, OnDisConnectSets, OnConnected, ConnectionReplaced,
           UserKeeps, OthersKeep, serverVars
  <1>5. <<k, t>> \in registered => <<k, t>> \in registered'
    BY DEF AllSyncFallsDue, ListenConfigSets, ListenConfigAgain, ListenConfigAnew, CancelListenConfig, Publish, Pusher,
           Events, RequestReplyReads, RequestReplySets, OnDisConnectReads, OnDisConnectSets, OnConnected, ConnectionReplaced,
           UserKeeps, OthersKeep, serverVars
  <1>6. lastMd5'[cacheMap[k].listener] = lastMd5[cacheMap[k].listener]
    <2>1. ASSUME NEW j \in Keys, NEW l \in Listeners, ListenConfigAnew(j, l)
          PROVE  lastMd5'[cacheMap[k].listener] = lastMd5[cacheMap[k].listener]
      BY <1>0, <1>1, <2>1 DEF ListenConfigAnew, ListenInv, TypeOK, Entry
    <2> QED BY <2>1 DEF AllSyncFallsDue, ListenConfigSets, ListenConfigAgain, CancelListenConfig, Publish, Pusher,
           Events, RequestReplyReads, RequestReplySets, OnDisConnectReads, OnDisConnectSets, OnConnected, ConnectionReplaced,
           UserKeeps, OthersKeep
  <1> QED BY <1>2, <1>3, <1>4, <1>5, <1>6, AsideStep

(* The listener of k is told something only for k. *)
LEMMA ToldForItsKey ==
    ASSUME SyncInv, NEW k \in Keys, cacheMap[k] \in Entry, NEW j \in Keys, NEW entry \in Entry, Held(j, entry), j # k,
           executeListener(j, entry) \/ UNCHANGED lastMd5
    PROVE  lastMd5'[cacheMap[k].listener] = lastMd5[cacheMap[k].listener]
  <1>1. Held(k, cacheMap[k])
    BY Places, ListenAssumption DEF InMap
  <1>2. entry.listener # cacheMap[k].listener
    BY <1>1 DEF SyncInv, ListenersApart
  <1>3. lastMd5 \in [Listeners -> {Md5(c) : c \in Content}] /\ entry.listener \in Listeners /\ cacheMap[k].listener \in Listeners
    BY DEF SyncInv, ListenInv, TypeOK, Entry
  <1> QED BY <1>2, <1>3 DEF executeListener

(* Different contents have different md5s. *)
LEMMA Md5Tells == ASSUME NEW c, NEW d, Md5(c) = Md5(d) PROVE c = d
  <1>1. [md5 |-> c].md5 = [md5 |-> d].md5
    BY DEF Md5
  <1> QED BY <1>1

(* buildListenTask puts k on the list of what is to be asked. *)
LEMMA BuildStep ==
    ASSUME SyncInv, NEW k \in Keys, NEW t \in Tasks, RoundInv(k, t), Copies(k, t)', Moved(k),
           NEW j \in Keys, buildListenTask(j)
    PROVE  RoundInv(k, t)'
  <1> DEFINE data == items[j]
             new == [key |-> j, md5 |-> Md5(data.content), taskId |-> data.taskId]
  <1>0. /\ loop = "build" /\ loop' = "build" /\ j \in DOMAIN items /\ items' = Without(items, j)
        /\ todo' = IF data.synced /\ ~needAllSync THEN todo ELSE todo \union {new}
        /\ UNCHANGED <<needAllSync, changed, refreshed>>
    BY DEF buildListenTask, LoopGoes
  <1>1. changed = {} /\ refreshed = None
    BY <1>0 DEF SyncInv, RefreshOnly
  <1>2. items \in Partial /\ data \in Entry /\ Held(j, data)
    BY <1>0, PartialEntry, Places DEF SyncInv, ListenInv, TypeOK, InItems
  <1>3. j = k => data.taskId = t
    BY <1>2 DEF RoundInv, Copies
  <1>4. new.key = j /\ new.taskId = data.taskId /\ new.md5 = Md5(data.content)
    OBVIOUS
  <1> HIDE DEF new
  <1>5. CASE Waits(k) /\ j # k
    <2>1. k \in DOMAIN Without(items, j) /\ Without(items, j)[k] = items[k]
      BY <1>2, <1>5 DEF Waits, Without, Restrict
    <2>2. ASSUME NEW e \in Entry, Held(k, e)' PROVE e.content = items[k].content
      BY <1>5, <2>2 DEF Waits, Moved, From
    <2>3. Waits(k)'
      BY <1>0, <1>4, <1>5, <2>1, <2>2 DEF Waits
    <2> QED BY <2>3 DEF RoundInv
  <1>6. CASE Waits(k) /\ j = k
    <2>1. todo' = todo \union {new}
      BY <1>0, <1>6 DEF Waits
    <2>2. ASSUME NEW e \in Entry, Held(k, e)' PROVE Md5(e.content) = new.md5
      <3>1. e.content = data.content
        BY <1>6, <2>2 DEF Waits, Moved, From
      <3> QED BY <1>4, <3>1
    <2>3. Pending(k, t)'
      BY <1>0, <1>1, <1>3, <1>4, <1>6, <2>1, <2>2 DEF Waits, Pending, OfKey, None
    <2> QED BY <2>3 DEF RoundInv
  <1>7. CASE Pending(k, t)
    <2>1. ASSUME NEW r \in todo, r.key = k, NEW e \in Entry, Held(k, e)' PROVE Md5(e.content) = r.md5
      BY <1>7, <2>1 DEF Pending, Moved, From
    <2>2. ASSUME j = k, NEW e \in Entry, Held(k, e)' PROVE Md5(e.content) = new.md5
      <3>1. PICK r \in todo : r.key = k
        BY <1>7 DEF Pending
      <3>2. Md5(data.content) = r.md5
        BY <1>2, <1>7, <2>2, <3>1 DEF Pending
      <3> QED BY <1>4, <2>1, <2>2, <3>1, <3>2
    <2>3. ASSUME NEW r \in todo', r.key = k
          PROVE  r.taskId = t /\ \A e \in Entry : Held(k, e)' => Md5(e.content) = r.md5
      <3>1. CASE r \in todo
        BY <1>7, <2>1, <2>3, <3>1 DEF Pending
      <3>2. CASE r = new
        BY <1>3, <1>4, <2>2, <2>3, <3>2
      <3> QED BY <1>0, <2>3, <3>1, <3>2
    <2>4. \E r \in todo' : r.key = k
      BY <1>0, <1>7 DEF Pending
    <2>5. Pending(k, t)'
      BY <1>0, <1>1, <2>3, <2>4 DEF Pending, OfKey, None
    <2> QED BY <2>5 DEF RoundInv
  <1> QED BY <1>0, <1>5, <1>6, <1>7 DEF RoundInv, Asked

(* The server's answer to a task's request: what it names as changed is to  *)
(* be refreshed, the rest has the server's content.                         *)
LEMMA ServedStep ==
    ASSUME SyncInv, NEW k \in Keys, NEW t \in Tasks, RoundInv(k, t), Copies(k, t)', Moved(k),
           NEW u \in Tasks, ListenServed(u)
    PROVE  RoundInv(k, t)'
  <1>0. /\ loop = "tasks" /\ loop' = "changed" /\ todo' = todo \ Batch(u)
        /\ changed' = {r.key : r \in {q \in Batch(u) : q.md5 # Md5(server[q.key])}}
        /\ registered' = registered \union {<<r.key, u>> : r \in Batch(u)}
        /\ UNCHANGED <<refreshed, lastMd5, server>>
    BY DEF ListenServed, LoopGoes
  <1>1. changed = {} /\ refreshed = None /\ ~OfKey(refreshed, k)
    BY <1>0 DEF SyncInv, RefreshOnly, OfKey
  <1>2. ~OfKey(refreshed, k)'
    BY <1>0, <1>1 DEF OfKey, None
  <1>3. ASSUME NEW e \in Entry, Held(k, e)'
        PROVE  \E d \in Entry : Held(k, d) /\ d.content = e.content /\ d.listener = e.listener
    BY <1>3 DEF Moved, From
  <1>4. CASE Pending(k, t) /\ u # t
    <2>1. ASSUME NEW r \in Batch(u) PROVE r.key # k
      BY <1>4, <2>1 DEF Pending, Batch
    <2>2. k \notin changed'
      BY <1>0, <2>1
    <2>3. \E r \in todo' : r.key = k
      BY <1>0, <1>4 DEF Pending, Batch
    <2>4. ASSUME NEW r \in todo', r.key = k
          PROVE  r.taskId = t /\ \A e \in Entry : Held(k, e)' => Md5(e.content) = r.md5
      <3>1. r \in todo
        BY <1>0, <2>4
      <3> QED BY <1>3, <1>4, <2>4, <3>1 DEF Pending
    <2>5. Pending(k, t)'
      BY <1>0, <1>2, <2>2, <2>3, <2>4 DEF Pending
    <2> QED BY <2>5 DEF RoundInv
  <1>5. CASE Pending(k, t) /\ u = t
    <2>1. PICK q \in todo : q.key = k
      BY <1>5 DEF Pending
    <2>2. q \in Batch(u) /\ \A e \in Entry : Held(k, e) => Md5(e.content) = q.md5
      BY <1>5, <2>1 DEF Pending, Batch
    <2>3. <<k, t>> \in registered'
      BY <1>0, <1>5, <2>1, <2>2
    <2>4. \A r \in todo' : r.key # k
      BY <1>0, <1>5 DEF Pending, Batch
    <2>5. ASSUME k \notin changed', NEW e \in Entry, Held(k, e)' PROVE e.content = server[k]
      <3>1. q.md5 = Md5(server[k])
        BY <1>0, <2>1, <2>2, <2>5
      <3>2. Md5(e.content) = q.md5
        BY <1>3, <2>2, <2>5
      <3> QED BY <3>1, <3>2, Md5Tells
    <2>6. Asked(k, t)'
      BY <1>0, <1>2, <2>3, <2>4, <2>5 DEF Asked
    <2> QED BY <2>6 DEF RoundInv
  <1>6. CASE Asked(k, t)
    <2>1. ASSUME NEW e \in Entry, Held(k, e)' PROVE lastMd5[e.listener] = Md5(server[k]) \/ e.content = server[k]
      BY <1>1, <1>3, <1>6, <2>1 DEF Asked
    <2>2. Asked(k, t)'
      BY <1>0, <1>2, <1>6, <2>1 DEF Asked
    <2> QED BY <2>2 DEF RoundInv
  <1> QED BY <1>0, <1>4, <1>5, <1>6 DEF RoundInv, Waits

(* Steps of the loop that only move on. *)
LEMMA OnwardStep ==
    ASSUME SyncInv, NEW k \in Keys, NEW t \in Tasks, RoundInv(k, t), Copies(k, t)', Moved(k),
           \/ NothingToListen \/ TasksBuilt \/ MarkReads \/ MarkDone \/ ListenDone
           \/ \E j \in Keys : MarkSets(j) \/ (j # k /\ (RefreshSkips(j) \/ RefreshQueries(j)))
           \/ \E u \in Tasks \ {t} : ListenFails(u)
    PROVE  RoundInv(k, t)'
  <1>0. /\ UNCHANGED <<lastMd5, server, registered>>
        /\ todo' \subseteq todo /\ \A r \in todo : r.taskId = t => r \in todo'
        /\ changed' \subseteq changed /\ (k \in changed => k \in changed')
        /\ loop' # "build"
        /\ loop = "build" => items = NoItems
        /\ loop' = "idle" => todo = {}
    BY DEF NothingToListen, TasksBuilt, MarkReads, MarkDone, ListenDone, MarkSets, RefreshSkips, RefreshQueries,
           ListenFails, Batch, LoopGoes
  <1>1. OfKey(refreshed, k)' <=> OfKey(refreshed, k)
    <2>1. CASE UNCHANGED refreshed
      BY <2>1 DEF OfKey, None
    <2>2. ASSUME NEW j \in Keys, j # k, RefreshQueries(j) PROVE ~OfKey(refreshed, k) /\ ~OfKey(refreshed, k)'
      <3>1. refreshed = None /\ refreshed'.key = j
        BY <2>2 DEF RefreshQueries, LoopGoes, SyncInv, RefreshOnly
      <3> QED BY <2>2, <3>1 DEF OfKey
    <2> QED BY <2>1, <2>2 DEF NothingToListen, TasksBuilt, MarkReads, MarkDone, ListenDone, MarkSets, RefreshSkips, ListenFails
  <1>2. OfKey(refreshed, k) => refreshed' = refreshed
    <2>1. ASSUME NEW j \in Keys, j # k, RefreshQueries(j) PROVE ~OfKey(refreshed, k)
      BY <2>1 DEF RefreshQueries, LoopGoes, SyncInv, RefreshOnly, OfKey
    <2> QED BY <2>1 DEF NothingToListen, TasksBuilt, MarkReads, MarkDone, ListenDone, MarkSets, RefreshSkips, ListenFails
  <1>3. ASSUME NEW e \in Entry, Held(k, e)'
        PROVE  \E d \in Entry : Held(k, d) /\ d.content = e.content /\ d.listener = e.listener
    BY <1>3 DEF Moved, From
  <1>4. ~Waits(k)
    BY <1>0 DEF Waits, NoItems, NothingToListen, TasksBuilt, MarkReads, MarkDone, ListenDone, MarkSets, RefreshSkips, RefreshQueries,
           ListenFails, LoopGoes
  <1>5. CASE Pending(k, t)
    <2>1. PICK q \in todo : q.key = k
      BY <1>5 DEF Pending
    <2>2. q \in todo' /\ loop' # "idle"
      BY <1>0, <1>5, <2>1 DEF Pending
    <2>3. ASSUME NEW r \in todo', r.key = k
          PROVE  r.taskId = t /\ \A e \in Entry : Held(k, e)' => Md5(e.content) = r.md5
      BY <1>0, <1>3, <1>5, <2>3 DEF Pending
    <2>4. Pending(k, t)'
      BY <1>0, <1>1, <1>5, <2>1, <2>2, <2>3 DEF Pending
    <2> QED BY <2>4 DEF RoundInv
  <1>6. CASE Asked(k, t)
    <2>1. ASSUME \A e \in Entry : Held(k, e) => lastMd5[e.listener] = Md5(server[k]) \/ e.content = server[k],
                 NEW e \in Entry, Held(k, e)'
          PROVE  lastMd5[e.listener] = Md5(server[k]) \/ e.content = server[k]
      BY <1>3, <2>1
    <2>2. OfKey(refreshed, k)' => refreshed'.entry.content = server[k]
      BY <1>1, <1>2, <1>6 DEF Asked
    <2>3. Asked(k, t)'
      BY <1>0, <1>1, <1>6, <2>1, <2>2 DEF Asked
    <2> QED BY <2>3 DEF RoundInv
  <1> QED BY <1>4, <1>5, <1>6 DEF RoundInv

(* The query of k, a config that the server named as changed. *)
LEMMA QueryStep ==
    ASSUME SyncInv, NEW k \in Keys, NEW t \in Tasks, RoundInv(k, t), Copies(k, t)', RefreshQueries(k)
    PROVE  RoundInv(k, t)'
  <1>0. /\ loop = "changed" /\ loop' = "check" /\ k \in changed
        /\ refreshed' = [key |-> k, entry |-> [cacheMap[k] EXCEPT !.content = server[k]]]
        /\ UNCHANGED <<todo, registered, server>>
    BY DEF RefreshQueries, LoopGoes
  <1>1. Asked(k, t)
    BY <1>0 DEF RoundInv, Waits, Pending
  <1>2. cacheMap[k] \in Entry
    BY DEF RoundInv, Copies
  <1>3. refreshed'.key = k /\ refreshed'.entry.content = server[k] /\ refreshed'.entry \in Entry
    <2>1. server[k] \in Content
      BY DEF SyncInv, ListenInv, TypeOK
    <2> QED BY <1>0, <1>2, <2>1 DEF Entry
  <1>4. OfKey(refreshed, k)'
    <2>1. refreshed' # None
      BY <1>3, ListenAssumption DEF None
    <2> QED BY <1>3, <2>1 DEF OfKey, None
  <1>5. Asked(k, t)'
    BY <1>0, <1>1, <1>3, <1>4 DEF Asked
  <1> QED BY <1>5 DEF RoundInv

(* The end of a refresh: the listener of its key has the content. *)
LEMMA CheckStep ==
    ASSUME SyncInv, NEW k \in Keys, NEW t \in Tasks, RoundInv(k, t), Copies(k, t)', Moved(k), RefreshChecks
    PROVE  RoundInv(k, t)'
  <1> DEFINE j == refreshed.key
             data == refreshed.entry
             l == cacheMap[k].listener
  <1>0. /\ loop = "check" /\ loop' = "changed" /\ refreshed' = None
        /\ UNCHANGED <<todo, changed, registered, server>>
        /\ (Outdated(data) /\ executeListener(j, data)) \/ (~Outdated(data) /\ UNCHANGED lastMd5)
    BY DEF RefreshChecks, LoopGoes
  <1>1. refreshed # None /\ j \in Keys /\ data \in Entry /\ refreshed = [key |-> j, entry |-> data]
    BY <1>0 DEF SyncInv, ListenInv, CheckHasCopy, TypeOK, Copy
  <1>2. Held(j, data)
    BY <1>1, Places DEF InRefresh
  <1>3. ~OfKey(refreshed, k)'
    BY <1>0 DEF OfKey, None
  <1>4. cacheMap[k] \in Entry /\ \A e \in Entry : Held(k, e) => e.listener = l
    BY DEF RoundInv, Copies
  <1> HIDE DEF l
  <1>5. ASSUME NEW e \in Entry, Held(k, e)'
        PROVE  e.listener = l /\ \E d \in Entry : Held(k, d) /\ d.content = e.content
    BY <1>4, <1>5 DEF Moved, From
  <1>6. ~Waits(k)
    BY <1>0 DEF Waits
  <1>7. CASE j = k
    <2>1. OfKey(refreshed, k)
      BY <1>1, <1>7 DEF OfKey
    <2>2. Asked(k, t) /\ data.content = server[k]
      BY <1>6, <2>1 DEF RoundInv, Pending, Asked
    <2>3. data.listener = l
      BY <1>1, <1>2, <1>4, <1>7
    <2>4. lastMd5'[l] = Md5(server[k])
      <3>1. CASE Outdated(data) /\ executeListener(j, data)
        BY <1>1, <2>2, <2>3, <3>1 DEF executeListener, SyncInv, ListenInv, TypeOK, Entry
      <3>2. CASE ~Outdated(data) /\ UNCHANGED lastMd5
        BY <2>2, <2>3, <3>2 DEF Outdated
      <3> QED BY <1>0, <3>1, <3>2
    <2>5. Asked(k, t)'
      BY <1>0, <1>3, <1>5, <2>2, <2>4 DEF Asked
    <2> QED BY <2>5 DEF RoundInv
  <1>8. CASE j # k
    <2>1. lastMd5'[l] = lastMd5[l]
      BY <1>0, <1>1, <1>2, <1>4, <1>8, ToldForItsKey DEF l
    <2>2. ~OfKey(refreshed, k)
      BY <1>8 DEF OfKey
    <2>3. CASE Pending(k, t)
      <3>1. ASSUME NEW r \in todo, r.key = k, NEW e \in Entry, Held(k, e)' PROVE Md5(e.content) = r.md5
        BY <1>5, <2>3, <3>1 DEF Pending
      <3>2. Pending(k, t)'
        BY <1>0, <1>3, <2>3, <3>1 DEF Pending
      <3> QED BY <3>2 DEF RoundInv
    <2>4. CASE Asked(k, t)
      <3>1. ASSUME \A e \in Entry : Held(k, e) => lastMd5[e.listener] = Md5(server[k]) \/ e.content = server[k],
                   NEW e \in Entry, Held(k, e)'
            PROVE  lastMd5'[e.listener] = Md5(server[k]) \/ e.content = server[k]
        BY <1>4, <1>5, <2>1, <3>1
      <3>2. Asked(k, t)'
        BY <1>0, <1>3, <2>2, <2>4, <3>1 DEF Asked
      <3> QED BY <3>2 DEF RoundInv
    <2> QED BY <1>6, <2>3, <2>4 DEF RoundInv
  <1> QED BY <1>7, <1>8

(* A round that goes well for k keeps its invariant. *)
LEMMA RoundStep ==
    ASSUME SyncInv, SyncInv', NEW k \in Keys, NEW t \in Tasks, RoundInv(k, t), [GoesWell(k, t)]_vars
    PROVE  RoundInv(k, t)'
  <1>0. ListenInv /\ ListenInv' /\ Copies(k, t)
    BY DEF SyncInv, RoundInv
  <1>1. CASE UNCHANGED vars
    BY <1>1 DEF vars, loopVars, eventVars, serverVars, RoundInv, Copies, Waits, Pending, Asked, Held, OfKey, None
  <1>2. CASE GoesWell(k, t)
    <2>1. Copies(k, t)'
      BY <1>0, <1>2, CopiesStep
    <2>2. Loop /\ ~RefreshQueries(k) => Moved(k)
      BY <1>0, LoopMoves
    <2>3. CASE \/ AllSyncFallsDue \/ ListenConfigSets
               \/ \E j \in Keys : ListenConfigAgain(j) \/ \E l \in Listeners : ListenConfigAnew(j, l)
               \/ \E j \in Keys \ {k} : CancelListenConfig(j) \/ \E c \in Content : Publish(j, c)
               \/ \E u \in Tasks : Pusher(u) \/ Events(u)
               \/ \E u \in Tasks \ {t} : ConnectionReplaced(u)
      BY <2>1, <2>3, OthersStep
    <2>4. CASE RefreshQueries(k)
      BY <2>1, <2>4, QueryStep
    <2>5. CASE RefreshChecks
      <3>1. Loop /\ ~RefreshQueries(k)
        BY <2>5 DEF Loop, RefreshChecks, RefreshQueries, LoopGoes
      <3> QED BY <2>1, <2>2, <2>5, <3>1, CheckStep
    <2>6. ASSUME NEW j \in Keys, buildListenTask(j) PROVE RoundInv(k, t)'
      <3>1. Loop /\ ~RefreshQueries(k)
        BY <2>6 DEF Loop, buildListenTask, RefreshQueries, LoopGoes
      <3> QED BY <2>1, <2>2, <2>6, <3>1, BuildStep
    <2>7. ASSUME NEW u \in Tasks, ListenServed(u) PROVE RoundInv(k, t)'
      <3>1. Loop /\ ~RefreshQueries(k)
        BY <2>7 DEF Loop, ListenServed, RefreshQueries, LoopGoes
      <3> QED BY <2>1, <2>2, <2>7, <3>1, ServedStep
    <2>8. ASSUME ~RefreshQueries(k),
                 \/ NothingToListen \/ TasksBuilt \/ MarkReads \/ MarkDone \/ ListenDone
                 \/ \E j \in Keys : MarkSets(j) \/ (j # k /\ (RefreshSkips(j) \/ RefreshQueries(j)))
                 \/ \E u \in Tasks \ {t} : ListenFails(u)
          PROVE  RoundInv(k, t)'
      <3>1. Loop
        BY <2>8 DEF Loop
      <3> QED BY <2>1, <2>2, <2>8, <3>1, OnwardStep
    <2> QED BY <1>2, <2>3, <2>4, <2>5, <2>6, <2>7, <2>8 DEF GoesWell
  <1> QED BY <1>1, <1>2

(* The invariant holds when a full sync begins. *)
LEMMA RoundBegins ==
    ASSUME SyncInv, NEW k \in Keys, NEW t \in Tasks, FullSyncBegins(k, t)
    PROVE  RoundInv(k, t)
  <1>0. loop = "build" /\ needAllSync /\ todo = {} /\ k \in DOMAIN items /\ items[k] = cacheMap[k] /\ cacheMap[k].taskId = t
    BY DEF FullSyncBegins
  <1>1. cacheMap[k] \in Entry
    BY <1>0, PartialEntry DEF SyncInv, ListenInv, TypeOK
  <1>2. refreshed = None
    BY <1>0 DEF SyncInv, RefreshOnly
  <1>3. ASSUME NEW e \in Entry, Held(k, e) PROVE e = cacheMap[k]
    <2>1. None # [key |-> k, entry |-> e]
      BY ListenAssumption DEF None
    <2>2. ~InRefresh(k, e) /\ ~InUser(k, e) /\ ~InPusher(k, e) /\ ~InLost(k, e)
      BY <1>2, <2>1 DEF InRefresh, InUser, InPusher, InLost, FullSyncBegins, OfKey
    <2> QED BY <1>0, <1>3, <2>2, Places DEF InMap, InItems
  <1>4. Copies(k, t)
    BY <1>0, <1>1, <1>3 DEF Copies
  <1>5. Waits(k)
    BY <1>0, <1>3 DEF Waits
  <1> QED BY <1>4, <1>5 DEF RoundInv

(* At its end there is nothing left to ask or to refresh. *)
LEMMA RoundEnds ==
    ASSUME SyncInv, NEW k \in Keys, NEW t \in Tasks, RoundInv(k, t), loop = "idle"
    PROVE  Repaired(k, t)
  <1>0. cacheMap[k] \in Entry /\ cacheMap[k] # NoEntry
    BY ListenAssumption DEF RoundInv, Copies
  <1>1. Held(k, cacheMap[k])
    BY <1>0, Places DEF InMap
  <1>2. Asked(k, t) /\ changed = {} /\ ~OfKey(refreshed, k)
    BY DEF RoundInv, Waits, Pending, SyncInv, RefreshOnly, OfKey
  <1>3. cacheMap[k].taskId = t
    BY <1>0, <1>1 DEF RoundInv, Copies
  <1> QED BY <1>0, <1>1, <1>2, <1>3 DEF Asked, Repaired

(* A full sync repairs whatever the races before it have broken.  For any   *)
(* config and whatever state the client is in when executeConfigListen      *)
(* begins a round with ALL_SYNC_INTERNAL gone by, no other goroutine having *)
(* a copy of the config's entry: if the server's content stays, and the     *)
(* config's own requests and connection do not fail, then at the end of the *)
(* round the server pushes changes of the config on its task's connection,  *)
(* and the listener has been told the server's content or the entry has it, *)
(* to be told when it is found in sync.  Requests of other tasks may fail,  *)
(* other configs may be published, listened to and cancelled, and pushes,   *)
(* reconnections and calls of ListenConfig may set back their copies of     *)
(* this entry on the way.                                                   *)
THEOREM FullSyncRepairs ==
    ASSUME NEW k \in Keys, NEW t \in Tasks
    PROVE  Spec => [](FullSyncBegins(k, t) => ([][GoesWell(k, t)]_vars => [](loop = "idle" => Repaired(k, t))))
  <1>1. SyncInv /\ FullSyncBegins(k, t) => RoundInv(k, t)
    BY RoundBegins
  <1>2. SyncInv /\ SyncInv' /\ RoundInv(k, t) /\ [GoesWell(k, t)]_vars => RoundInv(k, t)'
    BY RoundStep
  <1>3. SyncInv /\ RoundInv(k, t) => (loop = "idle" => Repaired(k, t))
    BY RoundEnds
  <1>4. Spec => []SyncInv
    BY AlwaysSyncInv
  <1> HIDE DEF Spec
  <1> QED BY <1>1, <1>2, <1>3, <1>4, PTL

=============================================================================
