----------------------------- MODULE RpcClient -----------------------------
(***************************************************************************)
(* The long-connection client shared by the config and the naming client:  *)
(* common/remote/rpc.  Goroutines are processes with a program counter:    *)
(*   starter    the goroutine that calls Start                             *)
(*   worker     the reconnect / health-check loop started by Start         *)
(*   eventLoop  the loop that hands connection events to the listeners     *)
(*   receiver   one per connection, reading its bidirectional stream       *)
(*   caller     one per concurrent Request; Listener is the call made by   *)
(*              the naming listener from inside the event loop             *)
(*   closer     CloseClient: Shutdown followed by the context's cancel     *)
(*   refresher  the goroutine that polls the endpoint for the server list  *)
(* They share rpcClientStatus, currentConnection, mux and two channels of  *)
(* capacity one, modelled as an optional value: a send waits for empty.    *)
(***************************************************************************)
EXTENDS Naturals, FiniteSets

CONSTANTS
    Servers,       \* addresses the server list is made of
    Conns,         \* identities of connections, reused when nothing refers to one
    Callers,       \* concurrent users of Request
    Listener,      \* the naming listener's own call of Request
    RetryTimes,    \* REQUEST_DOMAIN_RETRY_TIME
    MaxOrphans,    \* bound: connections dropped open by connectToServer at once
    MaxBusy,       \* bound: receivers handling an error or a reset at once
    RedoItems,     \* requests OnConnected makes in the event loop: 0 for config
    Dynamic,       \* TRUE when the server list comes from an endpoint
    Resets,        \* TRUE when servers may send connection resets
    Closes,        \* TRUE when the user may call CloseClient
    NoServer,      \* the zero ServerInfo
    NoConn,        \* the nil connection
    Empty          \* an empty channel

(* ReconnectContext: a recommended server or none, and onRequestFail.       *)
ReconnectContext == [server : Servers \union {NoServer}, onRequestFail : BOOLEAN]
SwitchTo(s, fail) == [server |-> s, onRequestFail |-> fail]

ASSUME SetsAssumption ==
    /\ NoServer \notin Servers
    /\ NoConn \notin Conns
    /\ Listener \notin Callers
    /\ Empty \notin ReconnectContext
    /\ Servers # {}

ASSUME NumbersAssumption ==
    /\ RetryTimes \in Nat \ {0}
    /\ MaxOrphans \in Nat /\ MaxBusy \in Nat
    /\ RedoItems \in Nat
    /\ Dynamic \in BOOLEAN
    /\ Closes \in BOOLEAN
    /\ Resets \in BOOLEAN

VARIABLES
    status,            \* rpcClientStatus
    serverList,        \* nacosServer.serverList
    srcSignal,         \* ServerSrcChangeSignal, capacity one
    refresher,         \* "poll" or "signal"
    current,           \* currentConnection
    connServer,        \* server of each connection
    isOpen,            \* conn.Close has not been called
    abandon,           \* Connection.abandon
    receiver,          \* program counter of each connection's receiver
    eventChan,         \* eventChan
    reconnectionChan,  \* reconnectionChan
    switching,         \* receivers blocked in, or on their way to, their last send
    mux,               \* holder of mux, or Empty
    starter, startLeft, startConn,    \* Start: pc, attempts left, new connection
    worker, wServer, wConn,           \* reconnect: pc, serverInfo, connectionNew
    eventLoop, redoLeft,              \* event loop: pc, redo requests left
    registered,        \* a connection listener is registered
    caller, retryTimes,               \* Request: pc, retryTimes
    closer,            \* CloseClient
    ctxDone,           \* ctx has been cancelled
    orphans,           \* history: opened, then dropped by an error of connectToServer
    announced          \* history: CONNECTED was taken since current last changed

serverVars  == <<serverList, srcSignal, refresher>>
connVars    == <<connServer, isOpen, abandon, receiver, orphans>>
chanVars    == <<eventChan, reconnectionChan, switching, mux>>
starterVars == <<starter, startLeft, startConn, registered>>
workerVars  == <<worker, wServer, wConn>>
eventVars   == <<eventLoop, redoLeft>>
callerVars  == <<caller, retryTimes>>
closerVars  == <<closer, ctxDone>>
vars == <<status, current, announced, serverVars, connVars, chanVars, starterVars,
          workerVars, eventVars, callerVars, closerVars>>

Status == {"INITIALIZED", "STARTING", "UNHEALTHY", "RUNNING", "SHUTDOWN"}
Requesters == Callers \union {Listener}

StarterPC  == {"init", "dial", "install", "mark", "sendC", "giveup", "done"}
WorkerPC   == {"off", "select", "selfsend", "probe", "hcmark", "loop", "install",
               "close", "sendD", "swap", "mark", "sendC", "failed", "lateD", "done"}
EventPC    == {"off", "select", "redo", "done"}
ReceiverPC == {"recv", "failed", "lock", "resetsend", "done"}
CallerPC   == {"idle", "try", "lock", "unregsend", "failsend"}
CloserPC   == {"idle", "close", "sendD", "cancel", "done"}

TypeOK ==
    /\ status \in Status
    /\ serverList \subseteq Servers
    /\ srcSignal \in BOOLEAN
    /\ refresher \in {"poll", "signal"}
    /\ current \in Conns \union {NoConn}
    /\ connServer \in [Conns -> Servers \union {NoServer}]
    /\ isOpen \in [Conns -> BOOLEAN]
    /\ abandon \in [Conns -> BOOLEAN]
    /\ receiver \in [Conns -> ReceiverPC]
    /\ eventChan \in {"CONNECTED", "DISCONNECTED", "empty"}
    /\ reconnectionChan \in ReconnectContext \union {Empty}
    /\ switching \in Nat
    /\ mux \in Conns \union Requesters \union {Empty}
    /\ starter \in StarterPC /\ startLeft \in 0..RetryTimes
    /\ startConn \in Conns \union {NoConn}
    /\ worker \in WorkerPC /\ wServer \in Servers \union {NoServer}
    /\ wConn \in Conns \union {NoConn}
    /\ eventLoop \in EventPC /\ redoLeft \in 0..RedoItems
    /\ registered \in BOOLEAN
    /\ caller \in [Requesters -> CallerPC]
    /\ retryTimes \in [Requesters -> 0..RetryTimes]
    /\ closer \in CloserPC /\ ctxDone \in BOOLEAN
    /\ orphans \subseteq Conns
    /\ announced \in BOOLEAN

(* A static list is never empty (NewNacosServer refuses one); a list from   *)
(* an endpoint is empty when the first poll fails.  The config proxy        *)
(* registers its listener before Start, the naming proxy after it.          *)
Init ==
    /\ status = "INITIALIZED" /\ current = NoConn /\ announced = FALSE
    /\ serverList \in SUBSET Servers
    /\ Dynamic \/ serverList # {}
    /\ srcSignal = FALSE /\ refresher = "poll"
    /\ connServer = [c \in Conns |-> NoServer]
    /\ isOpen = [c \in Conns |-> FALSE]
    /\ abandon = [c \in Conns |-> FALSE]
    /\ receiver = [c \in Conns |-> "done"]
    /\ orphans = {}
    /\ eventChan = "empty" /\ reconnectionChan = Empty /\ switching = 0 /\ mux = Empty
    /\ starter = "init" /\ startLeft = RetryTimes /\ startConn = NoConn
    /\ registered = (RedoItems = 0)
    /\ worker = "off" /\ wServer = NoServer /\ wConn = NoConn
    /\ eventLoop = "off" /\ redoLeft = 0
    /\ caller = [k \in Requesters |-> "idle"]
    /\ retryTimes = [k \in Requesters |-> 0]
    /\ closer = "idle" /\ ctxDone = FALSE

-----------------------------------------------------------------------------
(* Shared steps.                                                            *)

switchServerAsync(ctx) ==
    /\ reconnectionChan = Empty
    /\ reconnectionChan' = ctx
    /\ UNCHANGED <<eventChan, switching>>

(* Mutant: a send that gives up on a full channel.                          *)
LossyNotify(event) ==
    /\ eventChan' = IF eventChan = "empty" THEN event ELSE eventChan
    /\ UNCHANGED <<reconnectionChan, switching, mux>>

notifyConnectionChange(event) ==
    /\ eventChan = "empty"
    /\ eventChan' = event
    /\ UNCHANGED <<reconnectionChan, switching, mux>>

CASUnhealthy ==
    /\ status = "RUNNING"
    /\ status' = "UNHEALTHY"

(* A connection nothing refers to any more stands for one not made yet.     *)
Fresh(c) ==
    /\ c # current /\ c # wConn /\ c # startConn
    /\ receiver[c] = "done"

(* connectToServer once the server check has passed: the ClientConn is      *)
(* open.  The receiver started by bindBiRequestStream runs already while    *)
(* the setup request is sent.                                               *)
Opened(c, s, reads) ==
    /\ Fresh(c)
    /\ connServer' = [connServer EXCEPT ![c] = s]
    /\ isOpen' = [isOpen EXCEPT ![c] = TRUE]
    /\ abandon' = [abandon EXCEPT ![c] = FALSE]
    /\ receiver' = [receiver EXCEPT ![c] = reads]

connectToServer(c, s) ==
    /\ Opened(c, s, "recv")
    /\ orphans' = orphans \ {c}

(* The two errors that leave the ClientConn open and drop it:               *)
(* RequestBiStream fails, and there is no receiver; or the setup request    *)
(* fails, and the receiver runs on.                                         *)
ConnectDrops(c, s) ==
    /\ Cardinality(orphans \ {c}) < MaxOrphans
    /\ Opened(c, s, "done") \/ Opened(c, s, "recv")
    /\ orphans' = orphans \union {c}

(* r.currentConnection = connection *)
SetCurrent(c) ==
    /\ current' = c
    /\ announced' = FALSE

closeConnection ==
    /\ isOpen' = [isOpen EXCEPT ![current] = FALSE]
    /\ UNCHANGED <<connServer, abandon, receiver, orphans>>

-----------------------------------------------------------------------------
(* Start, and what NewNamingGrpcProxy does after it.                        *)

StarterGoes(from, to) ==
    /\ starter = from
    /\ starter' = to
    /\ UNCHANGED <<serverVars, wServer, wConn, redoLeft, callerVars, closerVars>>

Start ==
    /\ StarterGoes("init", "dial")
    /\ status = "INITIALIZED" /\ status' = "STARTING"
    /\ worker' = "select" /\ eventLoop' = "select"
    /\ UNCHANGED <<current, announced, connVars, chanVars, startLeft, startConn, registered>>

StarterKeeps == UNCHANGED <<registered, worker, eventLoop>>

StartConnects(c, s) ==
    /\ StarterGoes("dial", "install") /\ StarterKeeps
    /\ startLeft > 0 /\ s \in serverList
    /\ connectToServer(c, s)
    /\ startConn' = c /\ startLeft' = 0
    /\ UNCHANGED <<status, current, announced, chanVars>>

(* The dial is refused or the server check fails, and nothing stays open;   *)
(* or the connection is dropped open.                                       *)
StartDialFails ==
    /\ StarterGoes("dial", "dial") /\ StarterKeeps
    /\ startLeft > 0 /\ serverList # {}
    /\ startLeft' = startLeft - 1
    /\ \/ UNCHANGED connVars
       \/ \E c \in Conns, s \in serverList : ConnectDrops(c, s)
    /\ UNCHANGED <<status, current, announced, chanVars, startConn>>

StartGivesUp ==
    /\ StarterGoes("dial", "giveup") /\ StarterKeeps
    /\ startLeft = 0 \/ serverList = {}
    /\ startLeft' = 0
    /\ UNCHANGED <<status, current, announced, connVars, chanVars, startConn>>

StartSwitches ==
    /\ StarterGoes("giveup", "done") /\ StarterKeeps
    /\ switchServerAsync(SwitchTo(NoServer, FALSE))
    /\ UNCHANGED <<status, current, announced, connVars, mux, startLeft, startConn>>

StartInstalls ==
    /\ StarterGoes("install", "mark") /\ StarterKeeps
    /\ SetCurrent(startConn)
    /\ startConn' = NoConn
    /\ UNCHANGED <<status, connVars, chanVars, startLeft>>

StartMarksRunning ==
    /\ StarterGoes("mark", "sendC") /\ StarterKeeps
    /\ status' = "RUNNING"
    /\ UNCHANGED <<current, announced, connVars, chanVars, startLeft, startConn>>

StartAnnounces ==
    /\ StarterGoes("sendC", "done") /\ StarterKeeps
    /\ notifyConnectionChange("CONNECTED")
    /\ UNCHANGED <<status, current, announced, connVars, startLeft, startConn>>

RegisterConnectionListener ==
    /\ StarterGoes("done", "done")
    /\ ~registered /\ registered' = TRUE
    /\ UNCHANGED <<status, current, announced, connVars, chanVars, startLeft,
                   startConn, worker, eventLoop>>

-----------------------------------------------------------------------------
(* The worker.  Go's select takes any ready case, so every case is an       *)
(* alternative of its own.  A health check that is not due, or that passes, *)
(* changes nothing of this state.                                           *)

WorkerGoes(from, to) ==
    /\ worker = from
    /\ worker' = to
    /\ UNCHANGED <<serverList, refresher, starterVars, eventVars, callerVars, closerVars>>

(* The locals of reconnect do not outlive it.                               *)
ReconnectReturns(from) ==
    /\ WorkerGoes(from, "select")
    /\ wServer' = NoServer
    /\ UNCHANGED <<wConn, srcSignal>>

ReconnectGoes(from, to) ==
    /\ WorkerGoes(from, to)
    /\ UNCHANGED <<wServer, srcSignal>>

WorkerTakesReconnect ==
    /\ reconnectionChan # Empty
    /\ WorkerGoes("select", IF reconnectionChan.onRequestFail THEN "probe" ELSE "loop")
    /\ reconnectionChan' = Empty
    /\ wServer' = IF reconnectionChan.server \in serverList
                    THEN reconnectionChan.server ELSE NoServer
    /\ UNCHANGED <<status, current, announced, connVars, eventChan, switching, mux, wConn,
                   srcSignal>>

notifyServerSrvChange ==
    /\ WorkerGoes("select", IF current = NoConn \/ connServer[current] \notin serverList
                              THEN "selfsend" ELSE "select")
    /\ srcSignal /\ srcSignal' = FALSE
    /\ UNCHANGED <<status, current, announced, connVars, chanVars, wServer, wConn>>

(* The worker sends to the channel that only the worker receives from.      *)
WorkerSwitches ==
    /\ ReconnectGoes("selfsend", "select")
    /\ switchServerAsync(SwitchTo(NoServer, FALSE))
    /\ UNCHANGED <<status, current, announced, connVars, mux, wConn>>

WorkerStops ==
    /\ ReconnectGoes("select", "done")
    /\ ctxDone
    /\ UNCHANGED <<status, current, announced, connVars, chanVars, wConn>>

healthCheckFails ==
    /\ ReconnectGoes("select", "hcmark")
    /\ current # NoConn /\ status # "SHUTDOWN"
    /\ UNCHANGED <<status, current, announced, connVars, chanVars, wConn>>

healthCheckReconnects ==
    /\ ReconnectGoes("hcmark", "loop")
    /\ status' = "UNHEALTHY"
    /\ UNCHANGED <<current, announced, connVars, chanVars, wConn>>

(* Mutant: the probe that passes does not store RUNNING.                    *)
ProbeLeavesStatus ==
    /\ WorkerGoes("probe", "sendC")
    /\ current # NoConn /\ isOpen[current]
    /\ wServer' = NoServer
    /\ UNCHANGED <<status, current, announced, connVars, chanVars, wConn, srcSignal>>

(* reconnect with onRequestFail probes the current connection first; a 3xx  *)
(* answer passes too, and an open connection may answer.                    *)
ProbePasses ==
    /\ WorkerGoes("probe", "sendC")
    /\ current # NoConn /\ isOpen[current]
    /\ status' = "RUNNING"
    /\ wServer' = NoServer
    /\ UNCHANGED <<current, announced, connVars, chanVars, wConn, srcSignal>>

ProbeFails ==
    /\ ReconnectGoes("probe", "loop")
    /\ UNCHANGED <<status, current, announced, connVars, chanVars, wConn>>

(* The loop of reconnect ends at shutdown, or when there is no server.      *)
ReconnectGivesUp ==
    /\ ReconnectReturns("loop")
    /\ status = "SHUTDOWN" \/ (wServer = NoServer /\ serverList = {})
    /\ UNCHANGED <<status, current, announced, connVars, chanVars>>

(* The recommended server, or one from GetNextServer's rotation.            *)
ReconnectTarget(s) ==
    IF wServer = NoServer THEN s \in serverList ELSE s = wServer

ReconnectConnects(c, s) ==
    /\ ReconnectGoes("loop", "install")
    /\ status # "SHUTDOWN" /\ ReconnectTarget(s)
    /\ connectToServer(c, s)
    /\ wConn' = c
    /\ UNCHANGED <<status, current, announced, chanVars>>

ReconnectDialFails ==
    /\ ReconnectGoes("loop", "failed")
    /\ status # "SHUTDOWN"
    /\ \E s \in Servers : /\ ReconnectTarget(s)
                          /\ UNCHANGED connVars \/ \E c \in Conns : ConnectDrops(c, s)
    /\ UNCHANGED <<status, current, announced, chanVars, wConn>>

(* Mutants: the old connection is left open, or closed without the mark.    *)
ReconnectForgetsPrev ==
    /\ ReconnectGoes("install", "swap")
    /\ abandon' = [c \in Conns |-> c = current \/ abandon[c]]
    /\ UNCHANGED <<status, current, announced, connServer, isOpen, receiver, orphans,
                   chanVars, wConn>>

ReconnectSkipsAbandon ==
    /\ ReconnectGoes("install", IF current = NoConn THEN "swap" ELSE "close")
    /\ UNCHANGED <<status, current, announced, connVars, chanVars, wConn>>

ReconnectAbandonsPrev ==
    /\ ReconnectGoes("install", IF current = NoConn THEN "swap" ELSE "close")
    /\ abandon' = [c \in Conns |-> c = current \/ abandon[c]]
    /\ UNCHANGED <<status, current, announced, connServer, isOpen, receiver, orphans,
                   chanVars, wConn>>

ReconnectClosesPrev ==
    /\ ReconnectGoes("close", "sendD")
    /\ closeConnection
    /\ UNCHANGED <<status, current, announced, chanVars, wConn>>

ReconnectNotifiesDown ==
    /\ ReconnectGoes("sendD", "swap")
    /\ notifyConnectionChange("DISCONNECTED")
    /\ UNCHANGED <<status, current, announced, connVars, wConn>>

ReconnectInstalls ==
    /\ ReconnectGoes("swap", "mark")
    /\ SetCurrent(wConn)
    /\ wConn' = NoConn
    /\ UNCHANGED <<status, connVars, chanVars>>

ReconnectMarksRunning ==
    /\ ReconnectGoes("mark", "sendC")
    /\ status' = "RUNNING"
    /\ UNCHANGED <<current, announced, connVars, chanVars, wConn>>

ReconnectAnnounces ==
    /\ ReconnectReturns("sendC")
    /\ notifyConnectionChange("CONNECTED")
    /\ UNCHANGED <<status, current, announced, connVars>>

(* Mutant: one failed dial ends reconnect.                                  *)
ReconnectOnce ==
    /\ ReconnectReturns("failed")
    /\ status # "SHUTDOWN" \/ current = NoConn
    /\ UNCHANGED <<status, current, announced, connVars, chanVars>>

(* After a failed dial: close the connection if shut down meanwhile, take   *)
(* the remainder of the turn by the list's length, and loop.                *)
ReconnectRetries ==
    /\ ReconnectGoes("failed", "loop")
    /\ status # "SHUTDOWN" \/ current = NoConn
    /\ UNCHANGED <<status, current, announced, connVars, chanVars, wConn>>

ReconnectShutdown ==
    /\ ReconnectGoes("failed", "lateD")
    /\ status = "SHUTDOWN" /\ current # NoConn
    /\ closeConnection
    /\ UNCHANGED <<status, current, announced, chanVars, wConn>>

ReconnectNotifiesLateDown ==
    /\ ReconnectGoes("lateD", "loop")
    /\ notifyConnectionChange("DISCONNECTED")
    /\ UNCHANGED <<status, current, announced, connVars, wConn>>

-----------------------------------------------------------------------------
(* The event loop.  The config listener's callbacks only start goroutines;  *)
(* the naming listener's OnConnected makes RedoItems requests, one by one.  *)

EventLoopGoes(from, to) ==
    /\ eventLoop = from
    /\ eventLoop' = to
    /\ UNCHANGED <<status, current, serverVars, connVars, reconnectionChan, switching,
                   mux, starterVars, workerVars, closerVars>>

notifyConnectionEvent ==
    /\ eventChan # "empty" /\ eventChan' = "empty"
    /\ LET connected == registered /\ eventChan = "CONNECTED"
       IN  /\ EventLoopGoes("select", IF connected /\ RedoItems > 0 THEN "redo" ELSE "select")
           /\ announced' = (connected \/ announced)
           /\ redoLeft' = IF connected THEN RedoItems ELSE redoLeft
    /\ UNCHANGED callerVars

RedoRequest ==
    /\ EventLoopGoes("redo", "redo")
    /\ caller[Listener] = "idle" /\ redoLeft > 0
    /\ redoLeft' = redoLeft - 1
    /\ caller' = [caller EXCEPT ![Listener] = "try"]
    /\ UNCHANGED <<announced, eventChan, retryTimes>>

RedoDone ==
    /\ EventLoopGoes("redo", "select")
    /\ caller[Listener] = "idle" /\ redoLeft = 0
    /\ UNCHANGED <<announced, eventChan, redoLeft, callerVars>>

EventLoopStops ==
    /\ EventLoopGoes("select", "done")
    /\ ctxDone
    /\ UNCHANGED <<announced, eventChan, redoLeft, callerVars>>

-----------------------------------------------------------------------------
(* The receiver of a connection's stream (bindBiRequestStream).             *)

ReceiverGoes(c, from, to) ==
    /\ receiver[c] = from
    /\ receiver' = [receiver EXCEPT ![c] = to]
    /\ UNCHANGED <<current, announced, serverVars, connServer, isOpen, abandon, orphans,
                   starterVars, workerVars, eventVars, callerVars, closerVars>>

(* Bound on the outside: the next error or reset comes when fewer than      *)
(* MaxBusy receivers are at work.                                           *)
RoomForTrouble ==
    Cardinality({c \in Conns : receiver[c] \notin {"recv", "done"}}) + switching < MaxBusy

(* Recv returns an error, as it may at any time for reasons outside, and as *)
(* it will on a closed connection; abandon is read.                         *)
ReceiverReadsAbandon(c) ==
    /\ ReceiverGoes(c, "recv", IF abandon[c] THEN "done" ELSE "failed")
    /\ isOpen[c] => RoomForTrouble
    /\ UNCHANGED <<status, chanVars>>

(* IsRunning and the compare-and-swap in one: a swap that fails goes back   *)
(* to the select of a stream whose context is done, and returns as well.    *)
ReceiverSwaps(c) ==
    /\ ReceiverGoes(c, "failed", "done")
    /\ CASUnhealthy
    /\ switching' = switching + 1
    /\ UNCHANGED <<eventChan, reconnectionChan, mux>>

ReceiverReturns(c) ==
    /\ ReceiverGoes(c, "failed", "done")
    /\ status # "RUNNING"
    /\ UNCHANGED <<status, chanVars>>

(* A receiver that has swapped the status only has to send: it returns      *)
(* after that and does not look at its connection any more.                 *)
ReceiverSwitches ==
    /\ switching > 0 /\ switching' = switching - 1
    /\ reconnectionChan = Empty
    /\ reconnectionChan' = SwitchTo(NoServer, FALSE)
    /\ UNCHANGED <<status, current, announced, serverVars, connVars, eventChan, mux,
                   starterVars, workerVars, eventVars, callerVars, closerVars>>

(* A ConnectResetRequest arrives; its handler takes mux.  One whose port is *)
(* not a number changes nothing: it is left out.                            *)
ResetArrives(c) ==
    /\ ReceiverGoes(c, "recv", "lock")
    /\ Resets /\ isOpen[c] /\ RoomForTrouble
    /\ UNCHANGED <<status, chanVars>>

ResetLocks(c) ==
    /\ mux = Empty
    /\ ReceiverGoes(c, "lock", IF status = "RUNNING" THEN "resetsend" ELSE "recv")
    /\ mux' = IF status = "RUNNING" THEN c ELSE Empty
    /\ UNCHANGED <<status, eventChan, reconnectionChan, switching>>

(* With a recommended server, or without one and then with a probe first.   *)
ResetSwitches(c) ==
    /\ ReceiverGoes(c, "resetsend", "recv")
    /\ \E s \in Servers \union {NoServer} : switchServerAsync(SwitchTo(s, s = NoServer))
    /\ mux' = Empty
    /\ UNCHANGED status

-----------------------------------------------------------------------------
(* Request.                                                                 *)

CallerGoes(k, from, to) ==
    /\ caller[k] = from
    /\ caller' = [caller EXCEPT ![k] = to]
    /\ UNCHANGED <<current, announced, serverVars, connVars, starterVars, workerVars,
                   eventVars, closerVars>>

CountRetry(k) == retryTimes' = [retryTimes EXCEPT ![k] = @ + 1]
ForgetRetries(k) == retryTimes' = [retryTimes EXCEPT ![k] = 0]

Call(k) ==
    /\ CallerGoes(k, "idle", "try")
    /\ k # Listener /\ status # "INITIALIZED"
    /\ UNCHANGED <<status, chanVars, retryTimes>>

(* Mutant: one retry too many.                                              *)
WaitOnceMore(k) ==
    /\ CallerGoes(k, "try", "try")
    /\ retryTimes[k] <= RetryTimes /\ CountRetry(k)
    /\ UNCHANGED <<status, chanVars>>

(* waitReconnect after no connection, an error or an error response.        *)
waitReconnect(k) ==
    /\ CallerGoes(k, "try", "try")
    /\ retryTimes[k] < RetryTimes /\ CountRetry(k)
    /\ UNCHANGED <<status, chanVars>>

MayBeServed(k) ==
    /\ retryTimes[k] < RetryTimes
    /\ current # NoConn /\ isOpen[current] /\ status = "RUNNING"

RequestSucceeds(k) ==
    /\ CallerGoes(k, "try", "idle")
    /\ MayBeServed(k) /\ ForgetRetries(k)
    /\ UNCHANGED <<status, chanVars>>

(* The server answers that the connection is not registered with it.        *)
RequestUnregistered(k) ==
    /\ CallerGoes(k, "try", "lock")
    /\ MayBeServed(k)
    /\ UNCHANGED <<status, chanVars, retryTimes>>

UnregisteredLocks(k) ==
    /\ CallerGoes(k, "lock", "unregsend")
    /\ mux = Empty /\ mux' = k
    /\ CASUnhealthy
    /\ UNCHANGED <<eventChan, reconnectionChan, switching, retryTimes>>

UnregisteredLate(k) ==
    /\ CallerGoes(k, "lock", "try")
    /\ mux = Empty /\ status # "RUNNING"
    /\ CountRetry(k)
    /\ UNCHANGED <<status, chanVars>>

(* Mutant: the mutex is not released.                                       *)
UnregisteredKeepsLock(k) ==
    /\ CallerGoes(k, "unregsend", "try")
    /\ switchServerAsync(SwitchTo(NoServer, FALSE))
    /\ CountRetry(k)
    /\ UNCHANGED <<status, mux>>

UnregisteredSwitches(k) ==
    /\ CallerGoes(k, "unregsend", "try")
    /\ switchServerAsync(SwitchTo(NoServer, FALSE))
    /\ mux' = Empty
    /\ CountRetry(k)
    /\ UNCHANGED status

(* The retries are used up, or the timeout has passed after one of them.    *)
RequestGivesUp(k) ==
    /\ CallerGoes(k, "try", "failsend")
    /\ retryTimes[k] > 0 /\ ForgetRetries(k)
    /\ CASUnhealthy
    /\ UNCHANGED chanVars

RequestFails(k) ==
    /\ CallerGoes(k, "try", "idle")
    /\ retryTimes[k] > 0 /\ ForgetRetries(k)
    /\ status # "RUNNING"
    /\ UNCHANGED <<status, chanVars>>

RequestSwitches(k) ==
    /\ CallerGoes(k, "failsend", "idle")
    /\ switchServerAsync(SwitchTo(NoServer, TRUE))
    /\ UNCHANGED <<status, mux, retryTimes>>

-----------------------------------------------------------------------------
(* CloseClient.  The config client may be closed while another goroutine    *)
(* is still in Start; the naming client exists only once Start returned.    *)

CloserGoes(from, to) ==
    /\ closer = from
    /\ closer' = to
    /\ UNCHANGED <<current, announced, serverVars, starterVars, workerVars, eventVars,
                   callerVars>>

Shutdown ==
    /\ Closes
    /\ CloserGoes("idle", "close")
    /\ starter = "done" \/ (RedoItems = 0 /\ starter # "init")
    /\ status' = "SHUTDOWN"
    /\ UNCHANGED <<connVars, chanVars, ctxDone>>

(* Mutant: closeConnection without the check for nil.                       *)
ShutdownUnchecked ==
    /\ CloserGoes("close", "sendD")
    /\ closeConnection
    /\ UNCHANGED <<status, chanVars, ctxDone>>

ShutdownCloses ==
    /\ CloserGoes("close", "sendD")
    /\ current # NoConn /\ closeConnection
    /\ UNCHANGED <<status, chanVars, ctxDone>>

ShutdownUnconnected ==
    /\ CloserGoes("close", "cancel")
    /\ current = NoConn
    /\ UNCHANGED <<status, connVars, chanVars, ctxDone>>

ShutdownNotifies ==
    /\ CloserGoes("sendD", "cancel")
    /\ notifyConnectionChange("DISCONNECTED")
    /\ UNCHANGED <<status, connVars, ctxDone>>

CancelContext ==
    /\ CloserGoes("cancel", "done")
    /\ ctxDone' = TRUE
    /\ UNCHANGED <<status, connVars, chanVars>>

-----------------------------------------------------------------------------
(* refreshServerSrvIfNeed: the list changes first, then the signal is sent, *)
(* but only if there was a list before.                                     *)

RefresherKeeps ==
    UNCHANGED <<status, current, announced, connVars, chanVars, starterVars, workerVars,
                eventVars, callerVars, closerVars>>

(* Mutant: an endpoint that answers with no server empties the list.        *)
RefreshAcceptsEmpty(list) ==
    /\ Dynamic /\ refresher = "poll" /\ ~ctxDone
    /\ list # serverList
    /\ serverList' = list
    /\ refresher' = IF serverList = {} THEN "poll" ELSE "signal"
    /\ UNCHANGED srcSignal
    /\ RefresherKeeps

RefreshServerList(list) ==
    /\ Dynamic /\ refresher = "poll" /\ ~ctxDone
    /\ list # {} /\ list # serverList
    /\ serverList' = list
    /\ refresher' = IF serverList = {} THEN "poll" ELSE "signal"
    /\ UNCHANGED srcSignal
    /\ RefresherKeeps

SignalServerChange ==
    /\ refresher = "signal" /\ refresher' = "poll"
    /\ ~srcSignal /\ srcSignal' = TRUE
    /\ UNCHANGED serverList
    /\ RefresherKeeps

-----------------------------------------------------------------------------
Starter ==
    \/ Start \/ StartDialFails \/ StartGivesUp \/ StartSwitches
    \/ \E c \in Conns, s \in Servers : StartConnects(c, s)
    \/ StartInstalls \/ StartMarksRunning \/ StartAnnounces
    \/ RegisterConnectionListener

Worker ==
    \/ WorkerTakesReconnect \/ notifyServerSrvChange \/ WorkerSwitches \/ WorkerStops
    \/ healthCheckReconnects \/ ProbePasses \/ ProbeFails
    \/ ReconnectGivesUp \/ ReconnectDialFails
    \/ \E c \in Conns, s \in Servers : ReconnectConnects(c, s)
    \/ ReconnectAbandonsPrev \/ ReconnectClosesPrev \/ ReconnectNotifiesDown
    \/ ReconnectInstalls \/ ReconnectMarksRunning \/ ReconnectAnnounces
    \/ ReconnectRetries \/ ReconnectShutdown \/ ReconnectNotifiesLateDown

EventLoop == notifyConnectionEvent \/ RedoRequest \/ RedoDone \/ EventLoopStops

Receiver(c) ==
    \/ ReceiverSwaps(c) \/ ReceiverReturns(c)
    \/ ResetLocks(c) \/ ResetSwitches(c)

Request(k) ==
    \/ waitReconnect(k) \/ RequestSucceeds(k) \/ RequestUnregistered(k)
    \/ UnregisteredLocks(k) \/ UnregisteredLate(k) \/ UnregisteredSwitches(k)
    \/ RequestGivesUp(k) \/ RequestFails(k) \/ RequestSwitches(k)

Closer == ShutdownCloses \/ ShutdownUnconnected \/ ShutdownNotifies \/ CancelContext

(* What the outside does: health checks and streams fail, the server sends  *)
(* resets, users call and close, the endpoint returns another list.         *)
Outside ==
    \/ healthCheckFails
    \/ \E c \in Conns : ReceiverReadsAbandon(c) \/ ResetArrives(c)
    \/ \E k \in Requesters : Call(k)
    \/ Shutdown
    \/ \E list \in SUBSET Servers : RefreshServerList(list)

Next ==
    \/ Starter \/ Worker \/ EventLoop \/ Closer \/ SignalServerChange
    \/ \E c \in Conns : Receiver(c)
    \/ ReceiverSwitches
    \/ \E k \in Requesters : Request(k)
    \/ Outside

Spec == Init /\ [][Next]_vars

(* Fairness.  Goroutines that can run do run.  Go's select chooses at       *)
(* random among its ready cases, so a case that is ready again and again    *)
(* is taken in the end (strong fairness); mutexes and channel operations    *)
(* are served in turn.  ServerAccepts is the assumption on the outside: a   *)
(* listed server that is dialled again and again accepts in the end.        *)
ServerAccepts ==
    \A s \in Servers : SF_vars(\E c \in Conns : ReconnectConnects(c, s))

ProcessFairness ==
    /\ WF_vars(Starter) /\ WF_vars(Worker) /\ WF_vars(EventLoop)
    /\ SF_vars(WorkerTakesReconnect) /\ SF_vars(ReceiverSwitches)
    /\ \A c \in Conns :
          /\ SF_vars(Receiver(c))
          /\ WF_vars(~isOpen[c] /\ ReceiverReadsAbandon(c))
    /\ \A k \in Callers : SF_vars(Request(k))
    /\ RedoItems > 0 => SF_vars(Request(Listener))

FairSpec == Spec /\ ProcessFairness /\ ServerAccepts

-----------------------------------------------------------------------------
(* Safety.                                                                  *)

(* The worker is on a path of reconnect that ends in RUNNING.               *)
Reconnecting ==
    worker \in {"probe", "loop", "install", "close", "sendD", "swap", "mark",
                "failed", "lateD"}

(* Somebody has decided to send a reconnect request and is on the way.      *)
SwitchPending ==
    \/ switching > 0
    \/ \E k \in Requesters : caller[k] \in {"unregsend", "failsend"}

(* An UNHEALTHY client is always being repaired: nothing but the reconnect  *)
(* request that goes with the change of status ever brings it back (a       *)
(* health check that passes leaves the status alone), so the request must   *)
(* not get lost between the goroutines that swap the status, the channel    *)
(* and the worker that drains it.                                           *)
UnhealthyIsPursued ==
    status = "UNHEALTHY" =>
        Reconnecting \/ SwitchPending \/ reconnectionChan # Empty

(* notifyConnectionEvent reads the current connection's id without a check  *)
(* for nil: an event is only ever on its way when there is a connection.    *)
EventHasConnection ==
    \/ eventChan # "empty"
    \/ worker \in {"sendD", "sendC", "lateD"}
    \/ starter = "sendC"
    \/ closer = "sendD"
    => current # NoConn

(* The remainder by the length of the server list after a failed dial is    *)
(* never a division by zero, whatever the refresher does meanwhile.         *)
TurnIsCountable == worker \in {"failed", "lateD"} => serverList # {}

(* reconnect marks the old connection abandoned before it closes it, so     *)
(* its receiver cannot take the close for a failure; with a fixed server    *)
(* list only Shutdown closes a connection that is not abandoned.  With an   *)
(* endpoint Start may install its connection between the mark and the       *)
(* close, which then close Start's connection instead.                      *)
ClosedIsAbandoned ==
    \A c \in Conns :
        receiver[c] = "recv" /\ ~isOpen[c] /\ ~abandon[c] /\ ~Dynamic => closer # "idle"

(* No connected client whose listeners were not told: a RUNNING connection  *)
(* that no CONNECTED event has been taken for has one in the channel or     *)
(* about to be sent.  Redo of subscriptions and registrations hangs on it.  *)
AnnouncementNotLost ==
    status = "RUNNING" /\ registered /\ RedoItems = 0 /\ ~announced =>
        \/ eventChan = "CONNECTED"
        \/ worker \in {"mark", "sendC"} \/ starter \in {"mark", "sendC"}
        \/ closer # "idle"

(* With a fixed server list a connection that was replaced is closed: the   *)
(* open ones are the current one, the one being installed, and those that   *)
(* an error of connectToServer dropped.                                     *)
ReplacedIsClosed ==
    \A c \in Conns :
        isOpen[c] /\ ~Dynamic => c \in {current, wConn, startConn} \union orphans

(* Open and out of reach, and not because an error of connectToServer, a    *)
(* failed stream or a failed setup request, dropped it.                     *)
LeftOpen(c) == isOpen[c] /\ c \notin {current, wConn, startConn} \union orphans

(* With an endpoint the worker may connect while Start is still dialling:   *)
(* both assign currentConnection, and the one assigned first may stay open. *)
(* Of the connections that were set up, that is the only one ever left      *)
(* open, once in the life of a client: none before Start assigns its        *)
(* connection, and no second one.  The connections connectToServer itself   *)
(* drops are a leak of their own, and have no such bound.                   *)
LeftOpenOnce ==
    /\ starter \in {"init", "dial", "install"} => \A c \in Conns : ~LeftOpen(c)
    /\ \A c, d \in Conns : LeftOpen(c) /\ LeftOpen(d) => c = d

-----------------------------------------------------------------------------
(* Liveness.                                                                *)

(* An unhealthy client gets back to RUNNING, unless it is closed: a worker   *)
(* that has lost the event loop may stay in its send of DISCONNECTED.       *)
Recovers == status = "UNHEALTHY" ~> (status = "RUNNING" \/ closer # "idle")

(* "Notify when client new connected" (notifyConnectionEvent): when the     *)
(* worker has installed a connection, the listeners hear of it in the end.  *)
NewConnectionNotified ==
    (worker = "mark" /\ registered) ~> (announced \/ closer # "idle")

(* The event loop never leaves a request that a listener makes in it.       *)
RedoHolds == <>[](caller[Listener] # "idle")

(* Request returns, even when it has to queue a reconnect, as long as the   *)
(* event loop is not held for ever by a request of the naming listener.     *)
RequestReturns ==
    RedoHolds \/ \A k \in Callers : caller[k] # "idle" ~> caller[k] = "idle" \/ ctxDone

(* That request is all that can hold up a naming client: if it returns each *)
(* time, the client reconnects and tells its listeners like any other.      *)
OnlyRedoHoldsUp == RedoHolds \/ (Recovers /\ NewConnectionNotified)

=============================================================================
