-------------------------- MODULE RpcClientProofs --------------------------
(***************************************************************************)
(* Proofs about RpcClient for any servers, connections, callers and        *)
(* bounds.  UnhealthyIsPursued and EventHasConnection are not inductive by *)
(* themselves: they need to know which steps have a connection in hand,    *)
(* and that a client that ever had a connection has a server list.         *)
(***************************************************************************)
EXTENDS RpcClient, TLAPS

(* A program counter past a successful dial comes with the connection.     *)
HasConnection ==
    /\ worker \in {"install", "close", "sendD", "swap"} => wConn \in Conns
    /\ starter = "install" => startConn \in Conns
    /\ worker \in {"hcmark", "close", "sendD", "mark", "sendC", "lateD"} => current \in Conns
    /\ starter \in {"mark", "sendC"} => current \in Conns
    /\ closer = "sendD" => current \in Conns
    /\ eventChan # "empty" => current \in Conns

(* Without a server list nothing has been dialled yet.                     *)
NoListNoConnection ==
    serverList = {} =>
        /\ status \in {"INITIALIZED", "STARTING", "SHUTDOWN"}
        /\ current = NoConn
        /\ wServer = NoServer
        /\ worker \in {"off", "select", "selfsend", "probe", "loop", "done"}
        /\ starter \in {"init", "dial", "giveup", "done"}

(* A request that met an unregistered connection has a retry left.          *)
RetryLeft ==
    \A k \in Requesters :
        caller[k] \in {"lock", "unregsend"} => retryTimes[k] < RetryTimes

IndInv ==
    TypeOK /\ HasConnection /\ NoListNoConnection /\ RetryLeft /\ UnhealthyIsPursued

-----------------------------------------------------------------------------
(* The receiving end can tell a reconnect request from an empty channel.    *)
LEMMA SwitchIsNotEmpty ==
    ASSUME NEW s \in Servers \union {NoServer}, NEW fail \in BOOLEAN
    PROVE  SwitchTo(s, fail) \in ReconnectContext /\ SwitchTo(s, fail) # Empty
  BY SetsAssumption DEF SwitchTo, ReconnectContext

(* A connection dropped at once has its record and, maybe, a receiver. *)
LEMMA DropIsTyped ==
    ASSUME TypeOK, NEW c \in Conns, NEW s \in Servers, ConnectDrops(c, s)
    PROVE  /\ connServer' \in [Conns -> Servers \union {NoServer}]
           /\ isOpen' \in [Conns -> BOOLEAN]
           /\ abandon' \in [Conns -> BOOLEAN]
           /\ receiver' \in [Conns -> ReceiverPC]
           /\ orphans' \subseteq Conns
  <1>1. PICK reads \in {"done", "recv"} : Opened(c, s, reads)
    BY DEF ConnectDrops
  <1>2. reads \in ReceiverPC
    BY DEF ReceiverPC
  <1>3. orphans' \subseteq Conns
    BY DEF TypeOK, ConnectDrops
  <1> QED BY <1>1, <1>2, <1>3 DEF TypeOK, Opened

(* Every step of Start keeps the inductive invariant. *)
LEMMA StarterStep ==
    ASSUME IndInv, Starter
    PROVE  IndInv'
  <1> USE SetsAssumption, NumbersAssumption, SwitchIsNotEmpty
      DEF IndInv, TypeOK, Status, StarterPC, WorkerPC, EventPC, ReceiverPC, CallerPC,
          CloserPC, serverVars, connVars, chanVars, starterVars, workerVars,
          eventVars, callerVars, closerVars,
          StarterGoes, StarterKeeps
  <1>1. CASE Start
    <2>1. TypeOK'
         BY <1>1 DEF Start
    <2>2. (HasConnection /\ NoListNoConnection /\ RetryLeft)'
         BY <1>1 DEF Start, HasConnection, NoListNoConnection, RetryLeft
    <2>3. UnhealthyIsPursued'
         BY <1>1 DEF Start, NoListNoConnection, UnhealthyIsPursued, Reconnecting,
            SwitchPending
    <2> QED BY <2>1, <2>2, <2>3
  <1>2. CASE StartDialFails
    <2>1. TypeOK'
      <3>1. CASE UNCHANGED connVars
           BY <1>2, <3>1 DEF StartDialFails
      <3>2. ASSUME NEW c \in Conns, NEW s \in Servers, ConnectDrops(c, s) PROVE TypeOK'
        <4>1. /\ connServer' \in [Conns -> Servers \union {NoServer}]
              /\ isOpen' \in [Conns -> BOOLEAN]
              /\ abandon' \in [Conns -> BOOLEAN]
              /\ receiver' \in [Conns -> ReceiverPC]
              /\ orphans' \subseteq Conns
             BY <3>2, DropIsTyped
        <4> QED BY <1>2, <4>1 DEF StartDialFails
      <3> QED BY <1>2, <3>1, <3>2 DEF StartDialFails
    <2>2. (HasConnection /\ NoListNoConnection /\ RetryLeft)'
         BY <1>2 DEF StartDialFails, ConnectDrops, Opened, HasConnection,
            NoListNoConnection, RetryLeft
    <2>3. UnhealthyIsPursued'
         BY <1>2 DEF StartDialFails, NoListNoConnection, UnhealthyIsPursued,
            Reconnecting, SwitchPending
    <2> QED BY <2>1, <2>2, <2>3
  <1>3. CASE StartGivesUp
    <2>1. TypeOK'
         BY <1>3 DEF StartGivesUp
    <2>2. (HasConnection /\ NoListNoConnection /\ RetryLeft)'
         BY <1>3 DEF StartGivesUp, HasConnection, NoListNoConnection, RetryLeft
    <2>3. UnhealthyIsPursued'
         BY <1>3 DEF StartGivesUp, NoListNoConnection, UnhealthyIsPursued,
            Reconnecting, SwitchPending
    <2> QED BY <2>1, <2>2, <2>3
  <1>4. CASE StartSwitches
    <2>1. TypeOK'
         BY <1>4 DEF StartSwitches, switchServerAsync, SwitchTo, ReconnectContext
    <2>2. (HasConnection /\ NoListNoConnection /\ RetryLeft)'
         BY <1>4 DEF StartSwitches, switchServerAsync, HasConnection,
            NoListNoConnection, RetryLeft
    <2>3. UnhealthyIsPursued'
         BY <1>4 DEF StartSwitches, switchServerAsync, NoListNoConnection,
            UnhealthyIsPursued, Reconnecting, SwitchPending
    <2> QED BY <2>1, <2>2, <2>3
  <1>5. ASSUME NEW c \in Conns, NEW s \in Servers, StartConnects(c, s) PROVE IndInv'
    <2>1. TypeOK'
         BY <1>5 DEF StartConnects, connectToServer, Opened
    <2>2. (HasConnection /\ NoListNoConnection /\ RetryLeft)'
         BY <1>5 DEF StartConnects, connectToServer, Opened, HasConnection,
            NoListNoConnection, RetryLeft
    <2>3. UnhealthyIsPursued'
      <3>1. receiver' = [receiver EXCEPT ![c] = "recv"] /\ receiver[c] = "done"
           BY <1>5 DEF StartConnects, connectToServer, Opened, Fresh
      <3> QED BY <1>5, <3>1 DEF StartConnects, NoListNoConnection, UnhealthyIsPursued,
                   Reconnecting, SwitchPending
    <2> QED BY <2>1, <2>2, <2>3
  <1>6. CASE StartInstalls
    <2>1. TypeOK'
      <3>1. current' \in Conns \union {NoConn} /\ announced' \in BOOLEAN
           BY <1>6 DEF StartInstalls, SetCurrent
      <3>2. UNCHANGED <<status, connVars, chanVars, serverVars, eventVars, callerVars, closerVars>>
           BY <1>6 DEF StartInstalls, SetCurrent
      <3> QED BY <1>6, <3>1, <3>2 DEF StartInstalls
    <2>2. (HasConnection /\ NoListNoConnection /\ RetryLeft)'
         BY <1>6 DEF StartInstalls, SetCurrent, HasConnection, NoListNoConnection,
            RetryLeft
    <2>3. UnhealthyIsPursued'
         BY <1>6 DEF StartInstalls, SetCurrent, NoListNoConnection,
            UnhealthyIsPursued, Reconnecting, SwitchPending
    <2> QED BY <2>1, <2>2, <2>3
  <1>7. CASE StartMarksRunning
    <2>1. TypeOK'
         BY <1>7 DEF StartMarksRunning
    <2>2. (HasConnection /\ NoListNoConnection /\ RetryLeft)'
         BY <1>7 DEF StartMarksRunning, HasConnection, NoListNoConnection, RetryLeft
    <2>3. UnhealthyIsPursued'
         BY <1>7 DEF StartMarksRunning, NoListNoConnection, UnhealthyIsPursued,
            Reconnecting, SwitchPending
    <2> QED BY <2>1, <2>2, <2>3
  <1>8. CASE StartAnnounces
    <2>1. TypeOK'
         BY <1>8 DEF StartAnnounces, notifyConnectionChange
    <2>2. (HasConnection /\ NoListNoConnection /\ RetryLeft)'
         BY <1>8 DEF StartAnnounces, notifyConnectionChange, HasConnection,
            NoListNoConnection, RetryLeft
    <2>3. UnhealthyIsPursued'
         BY <1>8 DEF StartAnnounces, notifyConnectionChange, NoListNoConnection,
            UnhealthyIsPursued, Reconnecting, SwitchPending
    <2> QED BY <2>1, <2>2, <2>3
  <1>9. CASE RegisterConnectionListener
    <2>1. TypeOK'
         BY <1>9 DEF RegisterConnectionListener
    <2>2. (HasConnection /\ NoListNoConnection /\ RetryLeft)'
         BY <1>9 DEF RegisterConnectionListener, HasConnection, NoListNoConnection,
            RetryLeft
    <2>3. UnhealthyIsPursued'
         BY <1>9 DEF RegisterConnectionListener, NoListNoConnection,
            UnhealthyIsPursued, Reconnecting, SwitchPending
    <2> QED BY <2>1, <2>2, <2>3
  <1> QED
     BY <1>1, <1>2, <1>3, <1>4, <1>5, <1>6, <1>7, <1>8, <1>9 DEF Starter

(* Every step of the worker, its health check and reconnect keeps the inductive invariant. *)
LEMMA WorkerStep ==
    ASSUME IndInv, Worker \/ healthCheckFails
    PROVE  IndInv'
  <1> USE SetsAssumption, NumbersAssumption, SwitchIsNotEmpty
      DEF IndInv, TypeOK, Status, StarterPC, WorkerPC, EventPC, ReceiverPC, CallerPC,
          CloserPC, serverVars, connVars, chanVars, starterVars, workerVars,
          eventVars, callerVars, closerVars,
          WorkerGoes, ReconnectGoes, ReconnectReturns
  <1>1. CASE WorkerTakesReconnect
    <2>1. TypeOK'
         BY <1>1 DEF WorkerTakesReconnect
    <2>2. (HasConnection /\ NoListNoConnection /\ RetryLeft)'
         BY <1>1 DEF WorkerTakesReconnect, HasConnection, NoListNoConnection,
            RetryLeft
    <2>3. UnhealthyIsPursued'
         BY <1>1 DEF WorkerTakesReconnect, NoListNoConnection, UnhealthyIsPursued,
            Reconnecting, SwitchPending
    <2> QED BY <2>1, <2>2, <2>3
  <1>2. CASE notifyServerSrvChange
    <2>1. TypeOK'
      <3>1. worker' \in WorkerPC /\ srcSignal' \in BOOLEAN
           BY <1>2 DEF notifyServerSrvChange
      <3> QED BY <1>2, <3>1 DEF notifyServerSrvChange
    <2>2. (HasConnection /\ NoListNoConnection /\ RetryLeft)'
         BY <1>2 DEF notifyServerSrvChange, HasConnection, NoListNoConnection,
            RetryLeft
    <2>3. UnhealthyIsPursued'
         BY <1>2 DEF notifyServerSrvChange, NoListNoConnection, UnhealthyIsPursued,
            Reconnecting, SwitchPending
    <2> QED BY <2>1, <2>2, <2>3
  <1>3. CASE WorkerSwitches
    <2>1. TypeOK'
         BY <1>3 DEF WorkerSwitches, switchServerAsync, SwitchTo, ReconnectContext
    <2>2. (HasConnection /\ NoListNoConnection /\ RetryLeft)'
         BY <1>3 DEF WorkerSwitches, switchServerAsync, HasConnection,
            NoListNoConnection, RetryLeft
    <2>3. UnhealthyIsPursued'
         BY <1>3 DEF WorkerSwitches, switchServerAsync, NoListNoConnection,
            UnhealthyIsPursued, Reconnecting, SwitchPending
    <2> QED BY <2>1, <2>2, <2>3
  <1>4. CASE WorkerStops
    <2>1. TypeOK'
         BY <1>4 DEF WorkerStops
    <2>2. (HasConnection /\ NoListNoConnection /\ RetryLeft)'
         BY <1>4 DEF WorkerStops, HasConnection, NoListNoConnection, RetryLeft
    <2>3. UnhealthyIsPursued'
         BY <1>4 DEF WorkerStops, NoListNoConnection, UnhealthyIsPursued,
            Reconnecting, SwitchPending
    <2> QED BY <2>1, <2>2, <2>3
  <1>5. CASE healthCheckFails
    <2>1. TypeOK'
         BY <1>5 DEF healthCheckFails
    <2>2. (HasConnection /\ NoListNoConnection /\ RetryLeft)'
         BY <1>5 DEF healthCheckFails, HasConnection, NoListNoConnection, RetryLeft
    <2>3. UnhealthyIsPursued'
         BY <1>5 DEF healthCheckFails, NoListNoConnection, UnhealthyIsPursued,
            Reconnecting, SwitchPending
    <2> QED BY <2>1, <2>2, <2>3
  <1>6. CASE healthCheckReconnects
    <2>1. TypeOK'
         BY <1>6 DEF healthCheckReconnects
    <2>2. (HasConnection /\ NoListNoConnection /\ RetryLeft)'
         BY <1>6 DEF healthCheckReconnects, HasConnection, NoListNoConnection,
            RetryLeft
    <2>3. UnhealthyIsPursued'
         BY <1>6 DEF healthCheckReconnects, NoListNoConnection, UnhealthyIsPursued,
            Reconnecting, SwitchPending
    <2> QED BY <2>1, <2>2, <2>3
  <1>7. CASE ProbePasses
    <2>1. TypeOK'
         BY <1>7 DEF ProbePasses
    <2>2. (HasConnection /\ NoListNoConnection /\ RetryLeft)'
         BY <1>7 DEF ProbePasses, HasConnection, NoListNoConnection, RetryLeft
    <2>3. UnhealthyIsPursued'
         BY <1>7 DEF ProbePasses, NoListNoConnection, UnhealthyIsPursued,
            Reconnecting, SwitchPending
    <2> QED BY <2>1, <2>2, <2>3
  <1>8. CASE ProbeFails
    <2>1. TypeOK'
         BY <1>8 DEF ProbeFails
    <2>2. (HasConnection /\ NoListNoConnection /\ RetryLeft)'
         BY <1>8 DEF ProbeFails, HasConnection, NoListNoConnection, RetryLeft
    <2>3. UnhealthyIsPursued'
         BY <1>8 DEF ProbeFails, NoListNoConnection, UnhealthyIsPursued,
            Reconnecting, SwitchPending
    <2> QED BY <2>1, <2>2, <2>3
  <1>9. CASE ReconnectGivesUp
    <2>1. TypeOK'
         BY <1>9 DEF ReconnectGivesUp
    <2>2. (HasConnection /\ NoListNoConnection /\ RetryLeft)'
         BY <1>9 DEF ReconnectGivesUp, HasConnection, NoListNoConnection, RetryLeft
    <2>3. UnhealthyIsPursued'
         BY <1>9 DEF ReconnectGivesUp, NoListNoConnection, UnhealthyIsPursued,
            Reconnecting, SwitchPending
    <2> QED BY <2>1, <2>2, <2>3
  <1>10. CASE ReconnectDialFails
    <2>1. TypeOK'
      <3>1. CASE UNCHANGED connVars
           BY <1>10, <3>1 DEF ReconnectDialFails, ReconnectTarget
      <3>2. ASSUME NEW c \in Conns, NEW s \in Servers, ConnectDrops(c, s) PROVE TypeOK'
        <4>1. /\ connServer' \in [Conns -> Servers \union {NoServer}]
              /\ isOpen' \in [Conns -> BOOLEAN]
              /\ abandon' \in [Conns -> BOOLEAN]
              /\ receiver' \in [Conns -> ReceiverPC]
              /\ orphans' \subseteq Conns
             BY <3>2, DropIsTyped
        <4> QED BY <1>10, <4>1 DEF ReconnectDialFails
      <3> QED BY <1>10, <3>1, <3>2 DEF ReconnectDialFails, ReconnectTarget
    <2>2. (HasConnection /\ NoListNoConnection /\ RetryLeft)'
         BY <1>10 DEF ReconnectDialFails, ReconnectTarget, ConnectDrops, Opened,
            HasConnection, NoListNoConnection, RetryLeft
    <2>3. UnhealthyIsPursued'
         BY <1>10 DEF ReconnectDialFails, NoListNoConnection, UnhealthyIsPursued,
            Reconnecting, SwitchPending
    <2> QED BY <2>1, <2>2, <2>3
  <1>11. ASSUME NEW c \in Conns, NEW s \in Servers, ReconnectConnects(c, s) PROVE IndInv'
    <2>1. TypeOK'
         BY <1>11 DEF ReconnectConnects, ReconnectTarget, connectToServer, Opened
    <2>2. (HasConnection /\ NoListNoConnection /\ RetryLeft)'
         BY <1>11 DEF ReconnectConnects, ReconnectTarget, connectToServer, Opened,
            HasConnection, NoListNoConnection, RetryLeft
    <2>3. UnhealthyIsPursued'
         BY <1>11 DEF ReconnectConnects, ReconnectTarget, connectToServer, Opened,
            NoListNoConnection, UnhealthyIsPursued, Reconnecting, SwitchPending
    <2> QED BY <2>1, <2>2, <2>3
  <1>12. CASE ReconnectAbandonsPrev
    <2>1. TypeOK'
         BY <1>12 DEF ReconnectAbandonsPrev
    <2>2. (HasConnection /\ NoListNoConnection /\ RetryLeft)'
         BY <1>12 DEF ReconnectAbandonsPrev, HasConnection, NoListNoConnection,
            RetryLeft
    <2>3. UnhealthyIsPursued'
         BY <1>12 DEF ReconnectAbandonsPrev, NoListNoConnection, UnhealthyIsPursued,
            Reconnecting, SwitchPending
    <2> QED BY <2>1, <2>2, <2>3
  <1>13. CASE ReconnectClosesPrev
    <2>1. TypeOK'
      <3>1. isOpen' \in [Conns -> BOOLEAN]
           BY <1>13 DEF ReconnectClosesPrev, closeConnection
      <3> QED BY <1>13, <3>1 DEF ReconnectClosesPrev, closeConnection
    <2>2. (HasConnection /\ NoListNoConnection /\ RetryLeft)'
         BY <1>13 DEF ReconnectClosesPrev, closeConnection, HasConnection,
            NoListNoConnection, RetryLeft
    <2>3. UnhealthyIsPursued'
         BY <1>13 DEF ReconnectClosesPrev, closeConnection, NoListNoConnection,
            UnhealthyIsPursued, Reconnecting, SwitchPending
    <2> QED BY <2>1, <2>2, <2>3
  <1>14. CASE ReconnectNotifiesDown
    <2>1. TypeOK'
         BY <1>14 DEF ReconnectNotifiesDown, notifyConnectionChange
    <2>2. (HasConnection /\ NoListNoConnection /\ RetryLeft)'
         BY <1>14 DEF ReconnectNotifiesDown, notifyConnectionChange, HasConnection,
            NoListNoConnection, RetryLeft
    <2>3. UnhealthyIsPursued'
         BY <1>14 DEF ReconnectNotifiesDown, notifyConnectionChange,
            NoListNoConnection, UnhealthyIsPursued, Reconnecting, SwitchPending
    <2> QED BY <2>1, <2>2, <2>3
  <1>15. CASE ReconnectInstalls
    <2>1. TypeOK'
      <3>1. current' \in Conns \union {NoConn} /\ announced' \in BOOLEAN
           BY <1>15 DEF ReconnectInstalls, SetCurrent
      <3>2. UNCHANGED <<status, connVars, chanVars, serverVars, eventVars, callerVars, closerVars>>
           BY <1>15 DEF ReconnectInstalls, SetCurrent
      <3> QED BY <1>15, <3>1, <3>2 DEF ReconnectInstalls
    <2>2. (HasConnection /\ NoListNoConnection /\ RetryLeft)'
         BY <1>15 DEF ReconnectInstalls, SetCurrent, HasConnection,
            NoListNoConnection, RetryLeft
    <2>3. UnhealthyIsPursued'
         BY <1>15 DEF ReconnectInstalls, SetCurrent, NoListNoConnection,
            UnhealthyIsPursued, Reconnecting, SwitchPending
    <2> QED BY <2>1, <2>2, <2>3
  <1>16. CASE ReconnectMarksRunning
    <2>1. TypeOK'
         BY <1>16 DEF ReconnectMarksRunning
    <2>2. (HasConnection /\ NoListNoConnection /\ RetryLeft)'
         BY <1>16 DEF ReconnectMarksRunning, HasConnection, NoListNoConnection,
            RetryLeft
    <2>3. UnhealthyIsPursued'
         BY <1>16 DEF ReconnectMarksRunning, NoListNoConnection, UnhealthyIsPursued,
            Reconnecting, SwitchPending
    <2> QED BY <2>1, <2>2, <2>3
  <1>17. CASE ReconnectAnnounces
    <2>1. TypeOK'
         BY <1>17 DEF ReconnectAnnounces, notifyConnectionChange
    <2>2. (HasConnection /\ NoListNoConnection /\ RetryLeft)'
         BY <1>17 DEF ReconnectAnnounces, notifyConnectionChange, HasConnection,
            NoListNoConnection, RetryLeft
    <2>3. UnhealthyIsPursued'
         BY <1>17 DEF ReconnectAnnounces, notifyConnectionChange,
            NoListNoConnection, UnhealthyIsPursued, Reconnecting, SwitchPending
    <2> QED BY <2>1, <2>2, <2>3
  <1>18. CASE ReconnectRetries
    <2>1. TypeOK'
         BY <1>18 DEF ReconnectRetries
    <2>2. (HasConnection /\ NoListNoConnection /\ RetryLeft)'
         BY <1>18 DEF ReconnectRetries, HasConnection, NoListNoConnection, RetryLeft
    <2>3. UnhealthyIsPursued'
         BY <1>18 DEF ReconnectRetries, NoListNoConnection, UnhealthyIsPursued,
            Reconnecting, SwitchPending
    <2> QED BY <2>1, <2>2, <2>3
  <1>19. CASE ReconnectShutdown
    <2>1. TypeOK'
         BY <1>19 DEF ReconnectShutdown, closeConnection
    <2>2. (HasConnection /\ NoListNoConnection /\ RetryLeft)'
         BY <1>19 DEF ReconnectShutdown, closeConnection, HasConnection,
            NoListNoConnection, RetryLeft
    <2>3. UnhealthyIsPursued'
         BY <1>19 DEF ReconnectShutdown, closeConnection, NoListNoConnection,
            UnhealthyIsPursued, Reconnecting, SwitchPending
    <2> QED BY <2>1, <2>2, <2>3
  <1>20. CASE ReconnectNotifiesLateDown
    <2>1. TypeOK'
         BY <1>20 DEF ReconnectNotifiesLateDown, notifyConnectionChange
    <2>2. (HasConnection /\ NoListNoConnection /\ RetryLeft)'
         BY <1>20 DEF ReconnectNotifiesLateDown, notifyConnectionChange,
            HasConnection, NoListNoConnection, RetryLeft
    <2>3. UnhealthyIsPursued'
         BY <1>20 DEF ReconnectNotifiesLateDown, notifyConnectionChange,
            NoListNoConnection, UnhealthyIsPursued, Reconnecting, SwitchPending
    <2> QED BY <2>1, <2>2, <2>3
  <1> QED
     BY <1>1, <1>2, <1>3, <1>4, <1>5, <1>6, <1>7, <1>8, <1>9, <1>10, <1>11, <1>12,
        <1>13, <1>14, <1>15, <1>16, <1>17, <1>18, <1>19, <1>20 DEF Worker

(* Every step of the event loop keeps the inductive invariant. *)
LEMMA EventLoopStep ==
    ASSUME IndInv, EventLoop
    PROVE  IndInv'
  <1> USE SetsAssumption, NumbersAssumption, SwitchIsNotEmpty
      DEF IndInv, TypeOK, Status, StarterPC, WorkerPC, EventPC, ReceiverPC, CallerPC,
          CloserPC, serverVars, connVars, chanVars, starterVars, workerVars,
          eventVars, callerVars, closerVars,
          EventLoopGoes
  <1>1. CASE notifyConnectionEvent
    <2>1. TypeOK'
         BY <1>1 DEF notifyConnectionEvent
    <2>2. (HasConnection /\ NoListNoConnection /\ RetryLeft)'
         BY <1>1 DEF notifyConnectionEvent, HasConnection, NoListNoConnection,
            RetryLeft
    <2>3. UnhealthyIsPursued'
         BY <1>1 DEF notifyConnectionEvent, NoListNoConnection, UnhealthyIsPursued,
            Reconnecting, SwitchPending
    <2> QED BY <2>1, <2>2, <2>3
  <1>2. CASE RedoRequest
    <2>1. TypeOK'
         BY <1>2 DEF RedoRequest, Requesters
    <2>2. (HasConnection /\ NoListNoConnection /\ RetryLeft)'
         BY <1>2 DEF RedoRequest, HasConnection, NoListNoConnection, RetryLeft
    <2>3. UnhealthyIsPursued'
         BY <1>2 DEF RedoRequest, NoListNoConnection, UnhealthyIsPursued,
            Reconnecting, SwitchPending
    <2> QED BY <2>1, <2>2, <2>3
  <1>3. CASE RedoDone
    <2>1. TypeOK'
         BY <1>3 DEF RedoDone
    <2>2. (HasConnection /\ NoListNoConnection /\ RetryLeft)'
         BY <1>3 DEF RedoDone, HasConnection, NoListNoConnection, RetryLeft
    <2>3. UnhealthyIsPursued'
         BY <1>3 DEF RedoDone, NoListNoConnection, UnhealthyIsPursued, Reconnecting,
            SwitchPending
    <2> QED BY <2>1, <2>2, <2>3
  <1>4. CASE EventLoopStops
    <2>1. TypeOK'
         BY <1>4 DEF EventLoopStops
    <2>2. (HasConnection /\ NoListNoConnection /\ RetryLeft)'
         BY <1>4 DEF EventLoopStops, HasConnection, NoListNoConnection, RetryLeft
    <2>3. UnhealthyIsPursued'
         BY <1>4 DEF EventLoopStops, NoListNoConnection, UnhealthyIsPursued,
            Reconnecting, SwitchPending
    <2> QED BY <2>1, <2>2, <2>3
  <1> QED
     BY <1>1, <1>2, <1>3, <1>4 DEF EventLoop

(* Every step of a receiver and its reset handler keeps the inductive invariant. *)
LEMMA ReceiverStep ==
    ASSUME IndInv, NEW c \in Conns, Receiver(c) \/ ReceiverReadsAbandon(c) \/ ResetArrives(c)
    PROVE  IndInv'
  <1> USE SetsAssumption, NumbersAssumption, SwitchIsNotEmpty
      DEF IndInv, TypeOK, Status, StarterPC, WorkerPC, EventPC, ReceiverPC, CallerPC,
          CloserPC, serverVars, connVars, chanVars, starterVars, workerVars,
          eventVars, callerVars, closerVars,
          ReceiverGoes
  <1>1. CASE ReceiverReadsAbandon(c)
    <2>1. TypeOK'
         BY <1>1 DEF ReceiverReadsAbandon
    <2>2. (HasConnection /\ NoListNoConnection /\ RetryLeft)'
         BY <1>1 DEF ReceiverReadsAbandon, HasConnection, NoListNoConnection,
            RetryLeft
    <2>3. UnhealthyIsPursued'
         BY <1>1 DEF ReceiverReadsAbandon, NoListNoConnection, UnhealthyIsPursued,
            Reconnecting, SwitchPending
    <2> QED BY <2>1, <2>2, <2>3
  <1>2. CASE ReceiverSwaps(c)
    <2>1. TypeOK'
         BY <1>2 DEF ReceiverSwaps, CASUnhealthy
    <2>2. (HasConnection /\ NoListNoConnection /\ RetryLeft)'
         BY <1>2 DEF ReceiverSwaps, CASUnhealthy, HasConnection, NoListNoConnection,
            RetryLeft
    <2>3. UnhealthyIsPursued'
         BY <1>2 DEF ReceiverSwaps, CASUnhealthy, NoListNoConnection,
            UnhealthyIsPursued, Reconnecting, SwitchPending
    <2> QED BY <2>1, <2>2, <2>3
  <1>3. CASE ReceiverReturns(c)
    <2>1. TypeOK'
         BY <1>3 DEF ReceiverReturns
    <2>2. (HasConnection /\ NoListNoConnection /\ RetryLeft)'
         BY <1>3 DEF ReceiverReturns, HasConnection, NoListNoConnection, RetryLeft
    <2>3. UnhealthyIsPursued'
         BY <1>3 DEF ReceiverReturns, NoListNoConnection, UnhealthyIsPursued,
            Reconnecting, SwitchPending
    <2> QED BY <2>1, <2>2, <2>3
  <1>4. CASE ResetArrives(c)
    <2>1. TypeOK'
         BY <1>4 DEF ResetArrives
    <2>2. (HasConnection /\ NoListNoConnection /\ RetryLeft)'
         BY <1>4 DEF ResetArrives, HasConnection, NoListNoConnection, RetryLeft
    <2>3. UnhealthyIsPursued'
         BY <1>4 DEF ResetArrives, NoListNoConnection, UnhealthyIsPursued,
            Reconnecting, SwitchPending
    <2> QED BY <2>1, <2>2, <2>3
  <1>5. CASE ResetLocks(c)
    <2>1. TypeOK'
         BY <1>5 DEF ResetLocks
    <2>2. (HasConnection /\ NoListNoConnection /\ RetryLeft)'
         BY <1>5 DEF ResetLocks, HasConnection, NoListNoConnection, RetryLeft
    <2>3. UnhealthyIsPursued'
         BY <1>5 DEF ResetLocks, NoListNoConnection, UnhealthyIsPursued,
            Reconnecting, SwitchPending
    <2> QED BY <2>1, <2>2, <2>3
  <1>6. CASE ResetSwitches(c)
    <2>1. TypeOK'
         BY <1>6 DEF ResetSwitches, switchServerAsync, SwitchTo, ReconnectContext
    <2>2. (HasConnection /\ NoListNoConnection /\ RetryLeft)'
         BY <1>6 DEF ResetSwitches, switchServerAsync, HasConnection,
            NoListNoConnection, RetryLeft
    <2>3. UnhealthyIsPursued'
         BY <1>6 DEF ResetSwitches, switchServerAsync, NoListNoConnection,
            UnhealthyIsPursued, Reconnecting, SwitchPending
    <2> QED BY <2>1, <2>2, <2>3
  <1> QED
     BY <1>1, <1>2, <1>3, <1>4, <1>5, <1>6 DEF Receiver

(* A receiver's last send leaves a reconnect request in the channel. *)
LEMMA LastSendStep ==
    ASSUME IndInv, ReceiverSwitches
    PROVE  IndInv'
  <1> USE SwitchIsNotEmpty
      DEF IndInv, TypeOK, serverVars, connVars, starterVars, workerVars, eventVars,
          callerVars, closerVars, ReceiverSwitches
  <1>1. TypeOK'
    BY DEF SwitchTo, ReconnectContext
  <1>2. (HasConnection /\ NoListNoConnection /\ RetryLeft)'
    BY DEF HasConnection, NoListNoConnection, RetryLeft
  <1>3. UnhealthyIsPursued'
    BY DEF UnhealthyIsPursued, SwitchPending
  <1> QED BY <1>1, <1>2, <1>3

(* Every step of Request keeps the inductive invariant. *)
LEMMA RequestStep ==
    ASSUME IndInv, NEW k \in Requesters, Request(k) \/ Call(k)
    PROVE  IndInv'
  <1> USE SetsAssumption, NumbersAssumption, SwitchIsNotEmpty
      DEF IndInv, TypeOK, Status, StarterPC, WorkerPC, EventPC, ReceiverPC, CallerPC,
          CloserPC, serverVars, connVars, chanVars, starterVars, workerVars,
          eventVars, callerVars, closerVars,
          CallerGoes, CountRetry, ForgetRetries, MayBeServed
  <1>1. CASE Call(k)
    <2>1. TypeOK'
         BY <1>1 DEF Call
    <2>2. (HasConnection /\ NoListNoConnection /\ RetryLeft)'
         BY <1>1 DEF Call, HasConnection, NoListNoConnection, RetryLeft
    <2>3. UnhealthyIsPursued'
         BY <1>1 DEF Call, NoListNoConnection, UnhealthyIsPursued, Reconnecting,
            SwitchPending
    <2> QED BY <2>1, <2>2, <2>3
  <1>2. CASE waitReconnect(k)
    <2>1. TypeOK'
         BY <1>2 DEF waitReconnect
    <2>2. (HasConnection /\ NoListNoConnection /\ RetryLeft)'
         BY <1>2 DEF waitReconnect, HasConnection, NoListNoConnection, RetryLeft
    <2>3. UnhealthyIsPursued'
         BY <1>2 DEF waitReconnect, NoListNoConnection, UnhealthyIsPursued,
            Reconnecting, SwitchPending
    <2> QED BY <2>1, <2>2, <2>3
  <1>3. CASE RequestSucceeds(k)
    <2>1. TypeOK'
         BY <1>3 DEF RequestSucceeds
    <2>2. (HasConnection /\ NoListNoConnection /\ RetryLeft)'
         BY <1>3 DEF RequestSucceeds, HasConnection, NoListNoConnection, RetryLeft
    <2>3. UnhealthyIsPursued'
         BY <1>3 DEF RequestSucceeds, NoListNoConnection, UnhealthyIsPursued,
            Reconnecting, SwitchPending
    <2> QED BY <2>1, <2>2, <2>3
  <1>4. CASE RequestUnregistered(k)
    <2>1. TypeOK'
         BY <1>4 DEF RequestUnregistered
    <2>2. (HasConnection /\ NoListNoConnection /\ RetryLeft)'
         BY <1>4 DEF RequestUnregistered, HasConnection, NoListNoConnection,
            RetryLeft
    <2>3. UnhealthyIsPursued'
         BY <1>4 DEF RequestUnregistered, NoListNoConnection, UnhealthyIsPursued,
            Reconnecting, SwitchPending
    <2> QED BY <2>1, <2>2, <2>3
  <1>5. CASE UnregisteredLocks(k)
    <2>1. TypeOK'
         BY <1>5 DEF UnregisteredLocks, CASUnhealthy, RetryLeft
    <2>2. (HasConnection /\ NoListNoConnection /\ RetryLeft)'
         BY <1>5 DEF UnregisteredLocks, CASUnhealthy, HasConnection,
            NoListNoConnection, RetryLeft
    <2>3. UnhealthyIsPursued'
         BY <1>5 DEF UnregisteredLocks, CASUnhealthy, NoListNoConnection,
            UnhealthyIsPursued, Reconnecting, SwitchPending
    <2> QED BY <2>1, <2>2, <2>3
  <1>6. CASE UnregisteredLate(k)
    <2>1. TypeOK'
         BY <1>6 DEF UnregisteredLate, RetryLeft
    <2>2. (HasConnection /\ NoListNoConnection /\ RetryLeft)'
         BY <1>6 DEF UnregisteredLate, HasConnection, NoListNoConnection, RetryLeft
    <2>3. UnhealthyIsPursued'
         BY <1>6 DEF UnregisteredLate, NoListNoConnection, UnhealthyIsPursued,
            Reconnecting, SwitchPending
    <2> QED BY <2>1, <2>2, <2>3
  <1>7. CASE UnregisteredSwitches(k)
    <2>1. TypeOK'
         BY <1>7 DEF UnregisteredSwitches, switchServerAsync, SwitchTo,
            ReconnectContext, RetryLeft
    <2>2. (HasConnection /\ NoListNoConnection /\ RetryLeft)'
         BY <1>7 DEF UnregisteredSwitches, switchServerAsync, HasConnection,
            NoListNoConnection, RetryLeft
    <2>3. UnhealthyIsPursued'
         BY <1>7 DEF UnregisteredSwitches, switchServerAsync, NoListNoConnection,
            UnhealthyIsPursued, Reconnecting, SwitchPending
    <2> QED BY <2>1, <2>2, <2>3
  <1>8. CASE RequestGivesUp(k)
    <2>1. TypeOK'
         BY <1>8 DEF RequestGivesUp, CASUnhealthy
    <2>2. (HasConnection /\ NoListNoConnection /\ RetryLeft)'
         BY <1>8 DEF RequestGivesUp, CASUnhealthy, HasConnection,
            NoListNoConnection, RetryLeft
    <2>3. UnhealthyIsPursued'
         BY <1>8 DEF RequestGivesUp, CASUnhealthy, NoListNoConnection,
            UnhealthyIsPursued, Reconnecting, SwitchPending
    <2> QED BY <2>1, <2>2, <2>3
  <1>9. CASE RequestFails(k)
    <2>1. TypeOK'
         BY <1>9 DEF RequestFails
    <2>2. (HasConnection /\ NoListNoConnection /\ RetryLeft)'
         BY <1>9 DEF RequestFails, HasConnection, NoListNoConnection, RetryLeft
    <2>3. UnhealthyIsPursued'
         BY <1>9 DEF RequestFails, NoListNoConnection, UnhealthyIsPursued,
            Reconnecting, SwitchPending
    <2> QED BY <2>1, <2>2, <2>3
  <1>10. CASE RequestSwitches(k)
    <2>1. TypeOK'
         BY <1>10 DEF RequestSwitches, switchServerAsync, SwitchTo, ReconnectContext
    <2>2. (HasConnection /\ NoListNoConnection /\ RetryLeft)'
         BY <1>10 DEF RequestSwitches, switchServerAsync, HasConnection,
            NoListNoConnection, RetryLeft
    <2>3. UnhealthyIsPursued'
         BY <1>10 DEF RequestSwitches, switchServerAsync, NoListNoConnection,
            UnhealthyIsPursued, Reconnecting, SwitchPending
    <2> QED BY <2>1, <2>2, <2>3
  <1> QED
     BY <1>1, <1>2, <1>3, <1>4, <1>5, <1>6, <1>7, <1>8, <1>9, <1>10 DEF Request

(* Every step of CloseClient keeps the inductive invariant. *)
LEMMA CloserStep ==
    ASSUME IndInv, Closer \/ Shutdown
    PROVE  IndInv'
  <1> USE SetsAssumption, NumbersAssumption, SwitchIsNotEmpty
      DEF IndInv, TypeOK, Status, StarterPC, WorkerPC, EventPC, ReceiverPC, CallerPC,
          CloserPC, serverVars, connVars, chanVars, starterVars, workerVars,
          eventVars, callerVars, closerVars,
          CloserGoes
  <1>1. CASE Shutdown
    <2>1. TypeOK'
         BY <1>1 DEF Shutdown
    <2>2. (HasConnection /\ NoListNoConnection /\ RetryLeft)'
         BY <1>1 DEF Shutdown, HasConnection, NoListNoConnection, RetryLeft
    <2>3. UnhealthyIsPursued'
         BY <1>1 DEF Shutdown, NoListNoConnection, UnhealthyIsPursued, Reconnecting,
            SwitchPending
    <2> QED BY <2>1, <2>2, <2>3
  <1>2. CASE ShutdownCloses
    <2>1. TypeOK'
         BY <1>2 DEF ShutdownCloses, closeConnection
    <2>2. (HasConnection /\ NoListNoConnection /\ RetryLeft)'
         BY <1>2 DEF ShutdownCloses, closeConnection, HasConnection,
            NoListNoConnection, RetryLeft
    <2>3. UnhealthyIsPursued'
         BY <1>2 DEF ShutdownCloses, closeConnection, NoListNoConnection,
            UnhealthyIsPursued, Reconnecting, SwitchPending
    <2> QED BY <2>1, <2>2, <2>3
  <1>3. CASE ShutdownUnconnected
    <2>1. TypeOK'
         BY <1>3 DEF ShutdownUnconnected
    <2>2. (HasConnection /\ NoListNoConnection /\ RetryLeft)'
         BY <1>3 DEF ShutdownUnconnected, HasConnection, NoListNoConnection,
            RetryLeft
    <2>3. UnhealthyIsPursued'
         BY <1>3 DEF ShutdownUnconnected, NoListNoConnection, UnhealthyIsPursued,
            Reconnecting, SwitchPending
    <2> QED BY <2>1, <2>2, <2>3
  <1>4. CASE ShutdownNotifies
    <2>1. TypeOK'
         BY <1>4 DEF ShutdownNotifies, notifyConnectionChange
    <2>2. (HasConnection /\ NoListNoConnection /\ RetryLeft)'
         BY <1>4 DEF ShutdownNotifies, notifyConnectionChange, HasConnection,
            NoListNoConnection, RetryLeft
    <2>3. UnhealthyIsPursued'
         BY <1>4 DEF ShutdownNotifies, notifyConnectionChange, NoListNoConnection,
            UnhealthyIsPursued, Reconnecting, SwitchPending
    <2> QED BY <2>1, <2>2, <2>3
  <1>5. CASE CancelContext
    <2>1. TypeOK'
         BY <1>5 DEF CancelContext
    <2>2. (HasConnection /\ NoListNoConnection /\ RetryLeft)'
         BY <1>5 DEF CancelContext, HasConnection, NoListNoConnection, RetryLeft
    <2>3. UnhealthyIsPursued'
         BY <1>5 DEF CancelContext, NoListNoConnection, UnhealthyIsPursued,
            Reconnecting, SwitchPending
    <2> QED BY <2>1, <2>2, <2>3
  <1> QED
     BY <1>1, <1>2, <1>3, <1>4, <1>5 DEF Closer

(* Every step of the refresher keeps it: a list never gets empty again. *)
LEMMA RefresherStep ==
    ASSUME IndInv,
           SignalServerChange \/ \E list \in SUBSET Servers : RefreshServerList(list)
    PROVE  IndInv'
  <1>1. /\ serverList' \subseteq Servers /\ (serverList' = {} => serverList = {})
        /\ srcSignal' \in BOOLEAN /\ refresher' \in {"poll", "signal"}
    BY DEF IndInv, TypeOK, SignalServerChange, RefreshServerList
  <1>2. RefresherKeeps
    BY DEF SignalServerChange, RefreshServerList
  <1> QED
    BY <1>1, <1>2 DEF IndInv, TypeOK, HasConnection, NoListNoConnection, RetryLeft,
       UnhealthyIsPursued, Reconnecting, SwitchPending, RefresherKeeps, connVars, chanVars,
       starterVars, workerVars, eventVars, callerVars, closerVars

(* A stuttering step keeps it too. *)
LEMMA Stutter == ASSUME IndInv, UNCHANGED vars PROVE IndInv'
  BY DEF IndInv, TypeOK, HasConnection, NoListNoConnection, RetryLeft, UnhealthyIsPursued,
         Reconnecting, SwitchPending, vars, serverVars, connVars, chanVars, starterVars,
         workerVars, eventVars, callerVars, closerVars

(* The state NewGrpcClient builds satisfies the inductive invariant. *)
LEMMA Initially == Init => IndInv
  <1> SUFFICES ASSUME Init PROVE IndInv
    OBVIOUS
  <1>1. registered \in BOOLEAN /\ redoLeft \in 0..RedoItems /\ startLeft \in 0..RetryTimes
    BY NumbersAssumption DEF Init
  <1>2. retryTimes \in [Requesters -> 0..RetryTimes]
    BY NumbersAssumption DEF Init
  <1>3. TypeOK
    BY <1>1, <1>2 DEF Init, TypeOK, Status, StarterPC, WorkerPC, EventPC, ReceiverPC, CallerPC, CloserPC
  <1>4. HasConnection /\ NoListNoConnection /\ UnhealthyIsPursued
    BY DEF Init, HasConnection, NoListNoConnection, UnhealthyIsPursued
  <1>5. RetryLeft
    BY DEF Init, RetryLeft
  <1> QED BY <1>3, <1>4, <1>5 DEF IndInv

(* Every step of the client keeps the inductive invariant. *)
LEMMA Step == IndInv /\ [Next]_vars => IndInv'
  <1> SUFFICES ASSUME IndInv, [Next]_vars PROVE IndInv'
    OBVIOUS
  <1>1. CASE Starter
    BY <1>1, StarterStep
  <1>2. CASE Worker \/ healthCheckFails
    BY <1>2, WorkerStep
  <1>3. CASE EventLoop
    BY <1>3, EventLoopStep
  <1>4. ASSUME NEW c \in Conns, Receiver(c) \/ ReceiverReadsAbandon(c) \/ ResetArrives(c)
        PROVE  IndInv'
    BY <1>4, ReceiverStep
  <1>5. ASSUME NEW k \in Requesters, Request(k) \/ Call(k) PROVE IndInv'
    BY <1>5, RequestStep
  <1>6. CASE Closer \/ Shutdown
    BY <1>6, CloserStep
  <1>7. CASE SignalServerChange \/ \E list \in SUBSET Servers : RefreshServerList(list)
    BY <1>7, RefresherStep
  <1>8. CASE ReceiverSwitches
    BY <1>8, LastSendStep
  <1>9. CASE UNCHANGED vars
    BY <1>9, Stutter
  <1> QED BY <1>1, <1>2, <1>3, <1>4, <1>5, <1>6, <1>7, <1>8, <1>9 DEF Next, Outside

(* The inductive invariant holds in every behaviour. *)
LEMMA Inductive == Spec => []IndInv
  BY Initially, Step, PTL DEF Spec

-----------------------------------------------------------------------------
(* The variables of the client keep their types in every behaviour of the   *)
(* goroutines of RpcClient.                                                 *)
THEOREM TypeCorrect == Spec => []TypeOK
  <1>1. IndInv => TypeOK
    BY DEF IndInv
  <1> QED BY <1>1, Inductive, PTL

(* The reconnect request that goes with a change of rpcClientStatus to      *)
(* UNHEALTHY is never lost, for any number of connections and callers.      *)
THEOREM UnhealthyPursued == Spec => []UnhealthyIsPursued
  <1>1. IndInv => UnhealthyIsPursued
    BY DEF IndInv
  <1> QED BY <1>1, Inductive, PTL

(* notifyConnectionEvent never reads the id of a nil currentConnection.     *)
THEOREM EventsHaveConnection == Spec => []EventHasConnection
  <1>1. IndInv => EventHasConnection
    BY SetsAssumption DEF IndInv, HasConnection, EventHasConnection
  <1> QED BY <1>1, Inductive, PTL

(* reconnect never divides by the length of an empty server list.           *)
THEOREM TurnsCountable == Spec => []TurnIsCountable
  <1>1. IndInv => TurnIsCountable
    BY DEF IndInv, NoListNoConnection, TurnIsCountable
  <1> QED BY <1>1, Inductive, PTL

=============================================================================
