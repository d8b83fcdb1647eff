# nacos-sdk-go in TLA+

A model of nacos-sdk-go: TLA+ modules translated from the Go code, TLC
configurations that check them on small instances, and TLAPS proofs of the
properties that matter most. `PROJECT.json` lists the runs, the source lines of
every definition, the hazards in the code and the disagreements found between
the code and what its comments and interfaces say.

## The system

The SDK is a client of a Nacos server cluster. One process holds a config client
and/or a naming client; each has gRPC clients, which have goroutines and
connections of their own.

| part | state | operations | talks to |
|---|---|---|---|
| RPC client, `common/remote/rpc` | status, current connection, two channels of capacity one, a mutex | `Start`, the reconnect / health-check loop, the event loop, a stream receiver per connection, `Request`, `Shutdown`, `switchServerAsync` | the server list, the listeners of config and naming, gRPC |
| config client, `clients/config_client` | `cacheMap` of copies of `cacheData`, `lastMd5` shared between the copies, snapshot files, time of the last full sync | `ListenConfig`, `CancelListenConfig`, `executeConfigListen`, the notify handler, the connection listener; `GetConfig`, `PublishConfig`, `DeleteConfig`, `SearchConfig` | one RPC client per task of 3000 configs |
| server list, `common/nacos_server` | list, rotation index, change signal | refresh from an endpoint, `GetNextServer`, `ReqApi`, `ReqConfigApi` | RPC clients, HTTP, security |
| naming over gRPC, `naming_grpc` | redo caches of subscriptions and registrations | register, update, batch register, deregister, subscribe, unsubscribe, redo in `OnConnected` | RPC client, service cache |
| service cache, `naming_cache` | service map, callbacks per service, update times, cache files | `ProcessService`, add / remove callback, `ServiceChanged`, the updater's polling | pushes, polling, redo, disk |
| naming over HTTP, `naming_http` | beat map, semaphore, UDP socket | add / remove / send beat, push receiver | server list, security |
| instance choice | none | cluster selectors, weighted random choice | service cache |
| config files and limiter, `clients/cache` | snapshot and key file per config, failover files, tokens | write, remove, read, `IsLimited` | config client |
| security, `common/security` | token, its life time and refresh window; the RAM provider that matched | login, automatic refresh, signing of requests | server list |
| filters and encryption | filter chain, plugins, KMS client | encrypt on publish, decrypt on read and on change | KMS |
| settings | client and server configuration, labels | defaults, checks, merge of labels | all |

What is hard: every goroutine of the RPC client reads and writes status and
current connection without a common lock, and hands work over through channels
that block when full; connections fail, are reset by the server or are dropped
half made; the server list changes under a reconnect. The config loop, the push
handler and the connection listener copy an entry out of a map, change it and
put it back; so do the redo of the naming client and `ProcessService` of its
cache. Files are written in several steps and read after a crash; tokens run out
while servers fail. What must hold: an unhealthy client is repaired, listeners
hear of every connection, requests return, a listener ends up with the content
that the server has, the server ends up with what was asked of it, permits and
beats are not lost, and what is stored encrypted can be opened again.

## Modules

### RpcClient

Goroutines are processes with a program counter, and one action is what a
goroutine does between two accesses to shared state. The channels `eventChan`
and `reconnectionChan` (capacity one) are optional values: a send waits until
the channel is empty. A connection has a server, an open flag, the abandon flag
and the program counter of its receiver. Connection identities are reused once
nothing refers to them, so that the state space is finite although clients
reconnect for ever. The server answers any request as it likes and may be down
at any time; that is the nondeterminism of dial, probe, health check and request.
An error of `connectToServer` after the `ClientConn` was opened (`RequestBiStream`
fails, or the setup request) leaves it open: `ConnectDrops`, a step that a failed
dial of Start or of reconnect may take, puts such a connection into `orphans`. A
receiver that has swapped the status has only its send left and no longer looks at
its connection, so it is counted in `switching` and its connection is free again.

| code | actions |
|---|---|
| `Start` | `Start`, `StartConnects`, `StartDialFails`, `StartGivesUp`, `StartSwitches`, `StartInstalls`, `StartMarksRunning`, `StartAnnounces` |
| the worker's `select` | `WorkerTakesReconnect`, `notifyServerSrvChange` / `WorkerSwitches`, `healthCheckFails` / `healthCheckReconnects`, `WorkerStops` |
| `reconnect` | `Probe…` and `Reconnect…`, one per shared write |
| the event loop | `notifyConnectionEvent`, and `RedoRequest` / `RedoDone` for the naming listener, whose `OnConnected` calls `Request` |
| `connectToServer` | `connectToServer`, `ConnectDrops`: parts of `StartConnects`, `StartDialFails`, `ReconnectConnects`, `ReconnectDialFails` |
| `bindBiRequestStream`, `ConnectResetRequestHandler` | `Receiver…` and, for the send, `ReceiverSwitches`; `Reset…` |
| `Request` | `Call`, `waitReconnect`, `Request…`, `Unregistered…` |
| `Shutdown`, `CloseClient` | `Shutdown…`, `CancelContext` |
| `refreshServerSrvIfNeed` | `RefreshServerList`, `SignalServerChange` |

`RedoItems` tells the two kinds of client apart: 0 for config, whose listener
makes no request in the event loop, and positive for naming. `announced` and
`orphans` are history variables; no action reads them except through the bound
`MaxOrphans` and the reuse of identities.

### ConfigListen

`cacheMap` maps a config to a copy of `cacheData` (content, in-sync flag, task,
listener object). `lastMd5` belongs to the listener object, because all copies
share the pointer. Between reading an entry and setting it back, a goroutine
keeps its copy in a variable: `items` (the loop), `refreshed` (the refresh of one
config), `pusher` (the notify handler), `lost` (the connection listener), `user`
(`ListenConfig`). The loop's round is a sequence of actions: `executeConfigListen`,
`buildListenTask` per entry, `ListenServed` or `ListenFails` per task,
`RefreshQueries` / `RefreshSkips` / `RefreshChecks` per changed config,
`MarkReads` and `MarkSets` over all entries, `ListenDone`. `Get` and the query
that follows it are one action, because what happens between them is what may
happen between the query and the set. The server (contents, which connection
listens to what, pushes on their way) is external and modelled from how the
client uses it. `ConnectionReplaced` is what RpcClient's reconnect means for this
module: the server forgets, and the two events come later, in order.
Left out: `isInitializing`, which only goes into a request header, and the
listener's own goroutine, for which `lastMd5` stands.

### NamingGrpc and NamingRegistry

A call of a user, or one of the redo's, is a record with a program counter: the redo
cache is touched (`CacheInstanceForRedo`, `RemoveInstanceForRedo`,
`CacheSubscriberForRedo`, `RemoveSubscriberForRedo`) and the request is made
(`RequestServed`, `RequestFails`) in separate steps, in the order of
`naming_grpc_proxy.go`. `Subscribe` and `Unsubscribe` change the list of callbacks
first: they read it (into `copy`) and write it back in separate steps
(`AddCallbackFunc`, `RemoveCallbackFunc`), of which only the first pair is under the
mutex, and `Unsubscribe` then looks whether a callback is left (`IsSubscribed`).
`OnConnected` copies the keys, `redoSubscribe` goes over them, then
`redoRegisterEachService` copies the items and `redoRegister` goes over those. `Drop`
and `Connect` are what RpcClient does, seen from here; a request that fails may have
been carried out or not. `NamingRegistry` is the abstract specification: the server
holds what was asked for last, what it held before, or nothing because the connection is
gone, except for services in `loose`. Two operations on one service that are under way
together put it there: of two users at once, or of a user and the redo. What the code
does then is left open, because it really is: a redo that copied the cache before
`DeregisterInstance` registers the instance again. For subscriptions NamingGrpc has the
same history, and adds a service to it when `RemoveCallbackFunc` writes an old list over
a newer one. The refinement maps `held` to the server's registrations.

### ServiceCache

`ProcessService` has no lock. A goroutine that runs it goes through `ProcessLoads`
(refuse, compare times), `ProcessStores`, `WriteServicesToFile` and `ServiceChanged`;
feeders stand for the stream's receiver, the UDP receiver and the answers of Subscribe,
pollers are the updater's goroutines under its semaphore. The updater looks at the
update time first (`UpdaterFinds`) and then waits for a permit (`UpdaterPolls`), with
the key in `due`, however fresh the service has become meanwhile. `AddCallbackFunc` and
`RemoveCallbackFunc` read the list of callbacks and set a new one; only the first holds
the mutex. `told` remembers what each callback of a service was called with last. The
lists of instances are sets: `checkInstanceChanged` sorts before it compares.

### SecurityLogin, BeatReactor, NamingHttp

`SecurityLogin` counts time in ticks: age of the token on the server, time since
the refresh as the client counts it, the proxy's timer, the request under way.
`BeatReactor` has one sender per call of `AddBeatInfo`, with the program counter
of `sendInstanceBeat`. A service name is the number of times the group stands
before it, because `RegisterInstance` puts it there twice and
`DeregisterInstance` once. `NamingHttp` composes the two: a beat and a
registration are requests, which the server refuses without a token in date;
constructor and context are shared. The delegate gives the HTTP proxy persistent
instances only, which have no beats, so the reactor works for those who use
`NamingHttpProxy` directly.

### ConfigStore

One config, its files and the goroutines in `GetConfig`. The n-th published content is n
when it was encrypted, and so is its data key, so that a content under another one's key
shows; published in the clear it is -n. Whether this client has the encryption filter
(`openKMS`: OpenKMS is set and the filter was registered) is free, and so it is for
whoever publishes. Writing a file takes two steps, truncating (or removing) and filling;
between any two steps other readers run, writes fail, or the process is started again
(`Crash`). The limiter has `tokens`, filled up by time.

### Choosing, Credentials, Encryption, Settings, Algorithms

The first four are operators without state, one per function of the code:
selectors, chooser and failover order; the RAM providers and what is signed with
what; KMS clients, plugins, padding and the handler; defaults, labels and the
filter chain. A text that is empty in the code is `"none"`. A hash or a cipher is a
constructor that keeps what went in, a panic is a value. `sort.Sort` is some order by
weight (`ByWeight`), since it leaves equal weights in any order. Recursion is written
as recursive functions, so that the operators can be proved about. `Algorithms` is the
specification that runs them: a behaviour takes one input of one of nine tasks and
computes its output, and each property compares the output with a definition of its own.

Operators named "Mutant" in a comment are deliberate mistakes; no specification
uses them, and each shows that a property can fail.

## Runs

| run | instance | result |
|---|---|---|
| `rpc_config` | config kind, 2 servers, 2 connections, 1 caller, resets, 1 orphan, 2 receivers in trouble at once | holds, no deadlock, 3.0 million states |
| `rpc_endpoint` | naming kind, 2 servers, 3 connections of which one may be dropped open, list from an endpoint, possibly empty at first | holds, 2.3 million states |
| `rpc_live` | fair, config kind, 2 connections, stream errors and failed health checks without end, `CloseClient` at any time | holds |
| `rpc_calls` | fair, naming kind with a request of the redo, 2 connections, a caller, failed health checks | holds |
| `config_listen` | fair, 1 config, 1 publish, 1 reconnection, 2 listens, cancels | holds |
| `naming_grpc` | fair, 1 service, 2 ephemeral and 1 persistent instance, 2 users, 3 calls, 1 lost connection | holds, 670 thousand states |
| `service_cache` | fair, 1 service, 1 feeder, 2 pollers and 1 permit, 1 user with 2 calls, the server changes once | holds, 220 thousand states |
| `naming_http` | fair, 2 servers, tokens of 40 ticks, 2 calls of `AddBeatInfo`, 1 permit | holds |
| `config_store` | 2 readers, 2 versions, three kinds of dataId, with and without OpenKMS, a limiter of 1 | holds, 4.4 million states |
| `algorithms` | all inputs of the sets in `Algorithms` | holds, 145 thousand states |
| `rpc_naming` | fair, naming kind | violated, see Findings |
| `config_stale` | 1 config, 1 publish, 1 reconnection | violated, see Findings |

RpcClient. `UnhealthyIsPursued`: nothing but the reconnect request that goes with
a change to UNHEALTHY leads back to RUNNING, so there always is one.
`AnnouncementNotLost`: a RUNNING connection whose CONNECTED event has not been
taken has one in the channel or about to be sent. `EventHasConnection`: the event
loop never meets a nil connection. `ReplacedIsClosed`: no replaced connection
stays open. `ClosedIsAbandoned`: the order of abandon and close. Both are about
fixed lists: with an endpoint Start and the worker may both install a connection,
and the first stays open or, when it comes between the worker's `setAbandon` and
`close`, is closed without being abandoned. `LeftOpenOnce` says how bad it can get:
of the connections that were set up nothing is left open before Start has assigned
its own, and never a second one. That takes three connections: the one left open,
one that replaced it and one that would be left next. The connections that
`connectToServer` drops (`orphans`) are a leak of their own without such a bound, and
both properties leave them out. `TurnIsCountable`: no remainder by an empty list.

`Recovers`, `NewConnectionNotified`: an unhealthy client gets back to RUNNING and its
listeners hear of every new connection. This is checked without a condition for the
config kind, whose listener makes no request in the event loop; for the naming kind
it is false (`rpc_naming`). What is true of the naming kind is `OnlyRedoHoldsUp`: it
recovers and announces unless the event loop stays in the listener's request for
ever. `RequestReturns` has the same exception, since a caller may be blocked by the
same two channels.

ConfigListen. `UpToDate`: the listener ends up with the server's content.
`ListenedIsRegistered`: every listened config ends up registered on its
connection. Both hold only thanks to the full sync every five minutes: the mutant
without it breaks both, so in the code a change can be late by that long.

NamingGrpc. `AskedIsHeld`: when nothing is under way for a service, server and
redo cache have what was asked for last. `SubscriberIsFed`: a service with a
callback has its subscription in the redo cache and on the server. Both leave out
services whose operations crossed (or whose list of callbacks was overwritten) and
requests that failed, and only those: a failed request is not repeated before the
next reconnection. `ImplementsRegistry`: the refinement. `Restored`: after each loss
of the connection the registration comes back, or the client waits for ever in the
request of the redo or of a call on the service.

ServiceCache. `LastToldIsCached`: what a callback was told last is what the cache
has, unless two `ProcessService` of the service overlapped. `CacheConverges`: with
the updater, the cache gets to the server's state in spite of overlaps, cut
packets and failed queries. `QueriesBounded`: the semaphore's limit.

NamingHttp. `TokenInDate`: the two refresh windows are enough for as many failed rounds
as fit in them (and are counted: `failed` stops at its bound). `OneSenderPerBeat`,
`PermitsAccounted`, `RemovedFallsSilent`: of two senders of a key one is on its way out;
each permit is free or held; a removed beat ends.

ConfigStore. `SnapshotIsLastAnswer`: a snapshot that is used is the last answer
with its own key, while no two goroutines met at the files and no write failed or
was cut off. That content under a cipher dataId is encrypted is no property: it is
not, without OpenKMS (Known behaviour).

Algorithms. `PickFollowsWeights`, `EqualSelectorsSelectAlike`, `FailoverReaches`,
`SignedVerifiably`, `SignsItsService`, `EncryptionOpens`, `SharedParamAgrees`,
`LabelPrecedence`, `ChainKeepsFilters`: see the comments in the module. Several of
them say exactly when the algorithm does what one expects, and so show where it
does not (Known behaviour). `SignedVerifiably` is such an equivalence: the server
accepts a signature made with the key's own secret and sent with the key's own token
(or none, for a permanent key); that is what a client sends exactly when the key, the
secret and the token that it takes, each from the configuration or else from the
environment, were set together, or the key comes from a cloud service or the user's
own provider.

### Bounds

`RetryTimes` is 1 where the code has 3: all attempts are alike, and 1 has the first and
the last. Two channels of capacity one are full with two messages, so two receivers in
trouble (`MaxBusy` 2) besides a caller, the worker and the starter reach every way of
blocking. `MaxOrphans` bounds the connections that `connectToServer` has dropped and
that are open at the same time. In the fair runs at most one receiver at a time fails, and
nothing is dropped: of two connections one is current, and the other is free for the
next dial once its receiver has returned or has only its send left, so that a dial is
never put off for good and `ServerAccepts` is not vacuous. For ConfigListen `MaxSignals`
is 1: more waiting goroutines only repeat the round, which the timer does anyway.
`MaxPublishes`, `MaxListens` and `MaxDrops` bound what the outside does; snapshot and
server content start free, so that a difference exists before the first publish. In
NamingGrpc one lost connection and three calls of two users let a call meet the redo of
the call before, and its own undoing; services do not influence each other there.
ServiceCache has three goroutines that can be in `ProcessService` of one service, one
more than an overlap needs, and three states of the service (on disk, at first,
changed). In NamingHttp a token of 40 ticks has windows of 4, so that one failed round
of two servers fits in two windows and two do not; one permit makes every sender wait
for every other. ConfigStore needs two versions for a content and a key that do not
match, and two readers for a meeting at the files. The inputs of Algorithms: up to three
instances of weights 0, 1/2, 1 and 3; one to four servers; every subset of eleven RAM
properties; texts of up to one more than a block of three bytes; two servers and two
labels; three filters. Runs of RpcClient use symmetry in the connections, except where
liveness is checked. Deadlock is not checked where the system may stop: after
`CloseClient` (also in `rpc_live`), when the bounded calls are used up, after a panic,
at the end of a computation, and in two runs that reach a real one: in `rpc_endpoint`
the worker sends to `reconnectionChan`, which only it receives from, and in `rpc_calls`
event loop and worker of a naming client wait for each other, as in `rpc_naming`.

### Fairness

Goroutines that can run do run (weak fairness of starter, worker, event loop). Go's
`select` chooses at random among ready cases, so a case that is ready again and again is
taken (strong fairness of `WorkerTakesReconnect`); senders on a channel and holders of a
mutex are served in turn (strong fairness of receivers and callers). Of the outside it
is assumed that a listed server that is dialled again and again accepts in the end, and,
for ConfigListen and ServiceCache, that a listen request or a query that is repeated
succeeds in the end; time passes and timers fire. In NamingGrpc the goroutines run, but
no request is assumed to return: neither a call's nor the redo's. That a lost connection
is replaced and announced is assumed only while the event loop is not in a request of
the redo, which is what `OnlyRedoHoldsUp` shows of RpcClient. In NamingHttp only
goroutines are fair; the semaphore of golang.org/x/sync serves its waiters in order
(strong fairness of `Acquire`). No fairness is assumed of failures, pushes, users,
logins or the endpoint.

## Findings

1. `rpc_naming`: event loop and worker of a naming client wait for each other.
2. `config_stale`: a copy set back by `OnDisConnect` makes the client call
   `OnChange` with the previous content, until the next full sync.

### Known behaviour

What the models show of the code where no line of the repository says otherwise, or
where a property states the case in which all is well:

- A reconnect in progress when `CloseClient` runs stores RUNNING over SHUTDOWN
  (`rpc_client.go:450`).
- A reconnect that loses the event loop to `CloseClient` may stay in its send of
  DISCONNECTED for ever: nobody receives from `eventChan` any more
  (`rpc_client.go:477`).
- When `RequestBiStream` or the setup request fails, `connectToServer` returns without
  closing its `ClientConn`, and nobody else can (`grpc_client.go:227`).
- With a server list from an endpoint Start and the worker may connect at once; one
  connection then stays open for ever (`rpc_client.go:339`).
- A config that is cancelled during a round of the listen loop is put back
  (`config_client.go:475`).
- A redo that copied the cache before `DeregisterInstance` registers the instance
  again (`connection_event_listener.go:83`); a redo request that fails is not
  repeated before the next reconnection.
- `RemoveCallbackFunc` reads and writes the list of callbacks without the mutex of
  `AddCallbackFunc`: a callback added in between is lost, and one that another
  goroutine removed in between comes back (`subscribe_callback.go:70`).
- `AddBeatInfo` for a key that beats already puts the old, stopped `BeatInfo` back:
  both senders end, and the instance has no beat (`beat_reactor.go:78`).
- Over HTTP a beat is added under `group@@group@@name` and removed under
  `group@@name`, so `DeregisterInstance` does not stop it (`naming_http_proxy.go:94`,
  `:108`).
- With three servers `ReqApi` and `ReqConfigApi` ask the first one twice and the
  third never (`nacos_server.go:251`).
- The chooser panics when all weights are below 1 (`naming_instance_chooser.go:59`).
- A filter that is added before another one of a higher order replaces it and runs
  twice (`config_filter.go:100`).
- A 200 answer without a token counts as a login; no other server is asked
  (`nacos_auth_client.go:176`).
- Without OpenKMS, or when the encryption filter could not be registered (which is
  logged and no more), content under a cipher dataId is published in the clear, and
  what another client has encrypted is returned as it is (`config_client.go:135`).
- Each RAM property is taken from the configuration or else from the environment: an
  own key goes with the environment's secret or token when it has none of its own, and
  a temporary key goes without its token when there is no `RamConfig`. The server
  refuses such requests (`ram_credential_provider.go:142`).
- The files of content and key are written one after the other: a crash between
  them leaves a content that its key does not open (`config_proxy.go:137`).

## Proofs

All theorems hold for every value of the constants that the named assumptions
allow. These say that special values (`NoConn`, `NoEntry`, `NoRegistration`...) are
not members of the sets, that numbers and flags have their types, that there is at
least one server, attempt, permit, version and byte in a block, that the configs of a
client are finitely many, and that there is a longest token life (an int64).

| module | inductive invariant | theorems |
|---|---|---|
| `RpcClientProofs` | `IndInv` | `TypeOK`, `UnhealthyIsPursued`, `EventHasConnection`, `TurnIsCountable` |
| `RpcConnectionProofs` | `IndInv`, `ConnInv` and `LeftInv` | `ReplacedIsClosed`, `ClosedIsAbandoned`, `AnnouncementNotLost`, `LeftOpenOnce` |
| `ConfigListenProofs` | `ListenInv`, `SyncInv` and `RoundInv` | `TypeOK`, and `FullSyncRepairs` |
| `NamingGrpcProofs` | `GrpcInv` | `TypeOK`, `AskedIsHeld`, `SubscriberIsFed`, the refinement `ImplementsRegistry` |
| `ServiceCacheProofs` | `CacheInv` and `NewerInv` | `TypeOK`, `QueriesBounded`, `LastToldIsCached`, and `CacheNeverGoesBack` |
| `NamingHttpProofs` | `LoginInv` and `BeatInv` | `TypeOK`, `TokenInDate`, `OneSenderPerBeat`, `PermitsAccounted`, no panic of `Release` before the close |
| `ConfigStoreProofs` | `StoreInv` | `TypeOK`, `SnapshotIsLastAnswer`, and `FilesAreLastAnswer` |
| `AlgorithmsProofs` | none: one step | `EncryptionOpens`, `SharedParamAgrees`, `SignedVerifiably`, `SignsItsService`, `LabelPrecedence`, `EqualSelectorsSelectAlike`, `PickFollowsWeights`, `FailoverReaches`, `ChainKeepsFilters`, most of them from a theorem about all inputs |

Each of the first seven has lemmas per group of actions, one step per action and
below it one per conjunct that the action can disturb; a lemma says what the
initial states and all steps do to the invariant, and the theorems follow from it.

**RpcClient, `IndInv`**: `TypeOK`, `UnhealthyIsPursued` and three facts.
`HasConnection`: a program counter past a dial, or just before an event is sent,
has a connection in hand, and so has an event in the channel. `NoListNoConnection`:
while the server list is empty nothing has been dialled, so the worker cannot be at
a failed dial; a list is never replaced by an empty one. `RetryLeft`: a request that
takes the lock or reports an unregistered connection has a retry left.

**RpcClient, `ConnInv`**: who may replace the current connection. With a fixed list
nobody signals a change (`NoSignal`), so until Start has installed its connection
nothing else does anything to connections (`StartIsAlone`). Then only reconnect
replaces one, and by the time it swaps it has abandoned and closed the old one
(`PrevIsHandled`); connections in hand live from dial to install (`NewConnection`).
The attempt to prove `ClosedIsAbandoned` for a list from an endpoint led to the
interleaving described under Runs, which takes three connections.

**RpcClient, `LeftInv`**: what Start and the worker may do to each other when the list
comes from an endpoint. Start assigns `currentConnection` once, over a connection that
may be open; that is the first way to leave one. The second is the worker's: if the
current connection is open when it assigns its own, after it has closed the old one,
then Start has assigned it meanwhile (`SwapMeetsStart`), over a closed one, so that
nothing had been left yet. Every other step only opens a connection that somebody
holds, or closes one (`LeftShrinks`).

**ConfigListen, `ListenInv`**: past a query the refresh has a copy in hand.

**ConfigListen, a full sync**: the races of this client (a copy that is set back over a
newer one, an entry that another task's answer marked in sync) are allowed to break
things; the client relies on the full sync every five minutes. `FullSyncRepairs` is
about that round, for one config and its task, from any reachable state in which the
round begins while no other goroutine has a copy of the config's entry: if from there on
every step is one of `GoesWell` (the config's own requests are answered, its content and
its connection stay, it is not cancelled; anything may happen to other configs and other
tasks), then whenever the loop is idle again the server pushes changes of the config,
and the listener has been told the content or the entry has it. That the round comes to
its end is a matter of fairness and part of `UpToDate`. The argument needs `SyncInv` of
every state: listener objects are not shared between configs (`ListenersApart`, over all
copies anywhere), and a refresh has keys and a copy only while it runs. `RoundInv` then
says what all copies of the entry agree on, while the config waits for `buildListenTask`
(all have the content that is about to be asked about), while its task is to be asked
(all have the md5 of the request), and after that (it is to be refreshed, or every copy
has the server's content or a listener that was told). No run of its own checks this
theorem: its properties speak of one round, from a state that need not come.

**NamingGrpc, `GrpcInv`**: which steps an operation takes (`StepOfOp`); a lost
connection is followed by an event (`ServerForgets`); and, for each service whose
operations did not cross, who is still going to write: the redo cache is what was asked
for, or a call that will make it so is before its cache step; the server has it, or a
call, the event or the redo is still to bring it (`RegInv`, `SubInv`). An Unsubscribe
that has looked at the callbacks and goes on to the server is for a service without a
callback, that nobody subscribes to. The refinement follows step by step: a step of a
call or of the redo on the server's registrations is `NamingRegistry`'s, with the
service in `loose` when another operation on it is under way, and every other step
leaves the registry alone.

**ServiceCache, `CacheInv`**: permits and running pollers add up (by cardinalities of
finite sets), and without overlap either one goroutine is in `ProcessService` of the
service and carries what the callbacks know already or are about to be told, or none
is and they know what the cache has. `NewerInv`: a `ProcessService` that is alone and
about to store holds a newer service than the cache, which is still as it read it or
was emptied by Unsubscribe. From it follows the action property of
`CacheNeverGoesBack`: no step replaces a cached service by one that is not newer, so a
late or repeated push, or a poll's answer that a push has overtaken, changes nothing.

**NamingHttp, `LoginInv` and `BeatInv`**: `RoundClock` bounds the time since the
refresh by the token's life less two windows plus the failed rounds and the part of
the round that has passed; the request's own delay is at most `Timeout`. The beats
need, besides what is proved, only that a call not yet made has no sender.

**ConfigStore, `StoreInv`**: what is stored was encrypted together with its key, or was
published in the clear and has none; while a goroutine is alone at the files and nothing
was torn, the files hold the last answer up to the writer's program counter, and every
reader knows of what it has read so far that it is of the last answer.
`FilesAreLastAnswer` is the part of it that a restart relies on.

**Algorithms**: the theorems about `Spec` are instances of theorems about the
operators for inputs of any size: `DecryptionInvertsEncryption` (any text and block
size, any dataId and KMS client, whatever plugin the map gives first),
`SettingsAgree` (any list of servers), `SignatureVerifies` (any properties in
configuration and environment, with or without a `RamConfig`: both directions of the
equivalence), `SignedForItsService`, `LabelsHavePrecedence` (any
labels), `EqualsTellsSelectorsApart` (any cluster names), `PickIsProportional` (any
list of distinct instances), `OrderedFiltersRun` (any filters added in order). The
exact answer of `FailoverReaches` is for up to four servers, for each of which the
order of the tries is computed; `OneFailureIsSurvived` is what holds of any number.
Least and greatest elements, which `CHOOSE` takes in the code's first match
and last label, come from the well-foundedness of the naturals, and so does all
induction over the length of a list: a first place where a statement fails has one
before it where it holds (`UpTo`). With it the recursive functions of the model are
shown to exist and to satisfy their equations (`Recursion`), and sorting to have a
result (`OrderExists`, by inserting one instance at a time, `InsertOne`); the running
totals then cut the random numbers into intervals, one per instance, as long as its
weight.

### Only model-checked

- The liveness properties (`Recovers`, `NewConnectionNotified`, `OnlyRedoHoldsUp`,
  `RequestReturns`, `ListenedIsRegistered`, `UpToDate`, `Restored`, `CacheConverges`,
  `RemovedFallsSilent`) and the absence of deadlock: fairness and `ENABLED` are out of
  the prover's reach.

Every invariant and action property of a passing run is stated by a theorem.

## Not modelled

TLS, sockets, HTTP, logging, metrics, message encoding, generated stubs: no state
of their own, or input and output only. gRPC, the KMS, the cloud's credential
services, golang.org/x/time/rate and the Nacos server are external. Of modelled
parts: the shards of the concurrent map (its operations are atomic), the 32-bit
index of `GetNextServer` (a free choice), the parsing of the endpoint's answer,
queries that change nothing (`SearchConfig`, `GetAllServicesInfo`),
`NacosAuthClient.AutoRefresh`, which nothing calls.

## What is left

1. A property of ConfigListen on a run with two tasks: `FullSyncRepairs` shows it for any
   number, but liveness with two tasks is beyond what TLC finishes in minutes.
2. The delivery of a change to the listener: the goroutine that runs the filter chain and
   calls `OnChange` after `lastMd5` was moved on.
