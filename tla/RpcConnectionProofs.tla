------------------------ MODULE RpcConnectionProofs ------------------------
(***************************************************************************)
(* What RpcClient keeps of its connections, for any servers, connections,  *)
(* callers and bounds: which connection is announced, which is closed, and *)
(* which is abandoned.  On top of the invariant of RpcClientProofs these   *)
(* need to know who may replace the current connection: with a fixed       *)
(* server list the worker has nothing to do until Start has installed its  *)
(* connection or given up.                                                 *)
(***************************************************************************)
EXTENDS RpcClientProofs

(* Only refreshServerSrvIfNeed signals a change of the server list.         *)
NoSignal == ~Dynamic => refresher = "poll" /\ ~srcSignal /\ worker # "selfsend"

(* With a fixed list nothing competes with Start's first connection.        *)
StartIsAlone ==
    ~Dynamic /\ starter \in {"init", "dial", "install"} =>
        /\ current = NoConn
        /\ worker \in {"off", "select", "done"}
        /\ reconnectionChan = Empty
        /\ status \notin {"RUNNING", "UNHEALTHY"}
        /\ switching = 0 /\ \A c \in Conns : receiver[c] # "resetsend"
        /\ \A k \in Requesters : caller[k] \notin {"lock", "unregsend", "failsend"}

(* connectionNew and connectToServer's result live from dial to install,    *)
(* and Start starts the worker.                                             *)
NewConnection ==
    /\ starter = "init" => worker = "off"
    /\ worker \notin {"install", "close", "sendD", "swap"} => wConn = NoConn
    /\ starter # "install" => startConn = NoConn

(* What reconnect has done to the old connection by the time it swaps.      *)
PrevIsHandled ==
    ~Dynamic =>
        /\ worker = "close" => abandon[current]
        /\ worker \in {"sendD", "swap"} => current = NoConn \/ ~isOpen[current]

ShutdownIsClosers == status = "SHUTDOWN" => closer # "idle"

(* ClosedIsAbandoned for a receiver anywhere in its loop.                   *)
ClosedNotByMistake ==
    \A c \in Conns :
        ~isOpen[c] /\ ~abandon[c] /\ ~Dynamic => receiver[c] = "done" \/ closer # "idle"

ConfigListens == RedoItems = 0 => registered

ConnInv ==
    /\ NoSignal /\ StartIsAlone /\ NewConnection /\ PrevIsHandled /\ ShutdownIsClosers
    /\ ClosedNotByMistake /\ ReplacedIsClosed
    /\ ConfigListens /\ AnnouncementNotLost

-----------------------------------------------------------------------------
(* A connection dropped at once has no reset in hand. *)
LEMMA DropKeepsResets ==
    ASSUME TypeOK,
           UNCHANGED connVars \/ \E c \in Conns, s \in Servers : ConnectDrops(c, s)
    PROVE  \A d \in Conns : receiver'[d] = "resetsend" => receiver[d] = "resetsend"
  <1>1. ASSUME NEW c \in Conns, NEW s \in Servers, ConnectDrops(c, s)
        PROVE  \A d \in Conns : receiver'[d] = "resetsend" => receiver[d] = "resetsend"
    <2>1. PICK reads \in {"done", "recv"} : Opened(c, s, reads)
      BY <1>1 DEF ConnectDrops
    <2> QED BY <2>1 DEF TypeOK, Opened
  <1> QED BY <1>1 DEF connVars

(* Every step of Start keeps which connection is announced, closed and abandoned. *)
LEMMA ConnStarterStep ==
    ASSUME IndInv, ConnInv, Starter
    PROVE  ConnInv'
  <1> USE SetsAssumption, NumbersAssumption
      DEF IndInv, TypeOK, HasConnection, ConnInv, serverVars, connVars, chanVars, starterVars,
          workerVars, eventVars, callerVars, closerVars, StarterGoes, StarterKeeps
  <1>1. CASE Start
    <2>1. (NoSignal /\ StartIsAlone /\ NewConnection /\ ShutdownIsClosers)'
      BY <1>1 DEF Start, NoSignal, StartIsAlone, NewConnection, ShutdownIsClosers
    <2>2. (PrevIsHandled /\ ClosedNotByMistake /\ ReplacedIsClosed)'
      BY <1>1 DEF Start, PrevIsHandled, ClosedNotByMistake, ReplacedIsClosed,
         StartIsAlone, NewConnection, ShutdownIsClosers
    <2>3. (ConfigListens /\ AnnouncementNotLost)'
      BY <1>1 DEF Start, ConfigListens, AnnouncementNotLost
    <2> QED BY <2>1, <2>2, <2>3
  <1>2. CASE StartDialFails
    <2>1. (NoSignal /\ StartIsAlone /\ NewConnection /\ ShutdownIsClosers)'
      <3>1. \A d \in Conns : receiver'[d] = "resetsend" => receiver[d] = "resetsend"
        BY <1>2, DropKeepsResets DEF StartDialFails
      <3> QED
        BY <1>2, <3>1 DEF StartDialFails, NoSignal, StartIsAlone, NewConnection,
           ShutdownIsClosers
    <2>2. (PrevIsHandled /\ ClosedNotByMistake /\ ReplacedIsClosed)'
      <3>1. CASE UNCHANGED connVars
        BY <1>2, <3>1 DEF StartDialFails, PrevIsHandled, ClosedNotByMistake,
           ReplacedIsClosed, StartIsAlone, NewConnection, ShutdownIsClosers
      <3>2. ASSUME NEW c \in Conns, NEW s \in Servers, ConnectDrops(c, s)
            PROVE  (PrevIsHandled /\ ClosedNotByMistake /\ ReplacedIsClosed)'
        <4>1. /\ c # current /\ c # wConn /\ c # startConn /\ orphans' = orphans \union {c}
              /\ isOpen' = [isOpen EXCEPT ![c] = TRUE] /\ abandon' = [abandon EXCEPT ![c] = FALSE]
              /\ receiver' \in {[receiver EXCEPT ![c] = "recv"], [receiver EXCEPT ![c] = "done"]}
          BY <3>2 DEF ConnectDrops, Opened, Fresh
        <4> QED
          BY <1>2, <4>1 DEF StartDialFails, PrevIsHandled, ClosedNotByMistake,
             ReplacedIsClosed, StartIsAlone, NewConnection, ShutdownIsClosers
      <3> QED BY <1>2, <3>1, <3>2 DEF StartDialFails
    <2>3. (ConfigListens /\ AnnouncementNotLost)'
      BY <1>2 DEF StartDialFails, ConnectDrops, Opened, Fresh, ConfigListens,
         AnnouncementNotLost
    <2> QED BY <2>1, <2>2, <2>3
  <1>3. CASE StartGivesUp
    <2>1. (NoSignal /\ StartIsAlone /\ NewConnection /\ ShutdownIsClosers)'
      BY <1>3 DEF StartGivesUp, NoSignal, StartIsAlone, NewConnection, ShutdownIsClosers
    <2>2. (PrevIsHandled /\ ClosedNotByMistake /\ ReplacedIsClosed)'
      BY <1>3 DEF StartGivesUp, PrevIsHandled, ClosedNotByMistake, ReplacedIsClosed,
         StartIsAlone, NewConnection, ShutdownIsClosers
    <2>3. (ConfigListens /\ AnnouncementNotLost)'
      BY <1>3 DEF StartGivesUp, ConfigListens, AnnouncementNotLost
    <2> QED BY <2>1, <2>2, <2>3
  <1>4. CASE StartSwitches
    <2>1. (NoSignal /\ StartIsAlone /\ NewConnection /\ ShutdownIsClosers)'
      BY <1>4 DEF StartSwitches, switchServerAsync, NoSignal, StartIsAlone,
         NewConnection, ShutdownIsClosers
    <2>2. (PrevIsHandled /\ ClosedNotByMistake /\ ReplacedIsClosed)'
      BY <1>4 DEF StartSwitches, switchServerAsync, PrevIsHandled, ClosedNotByMistake,
         ReplacedIsClosed, StartIsAlone, NewConnection, ShutdownIsClosers
    <2>3. (ConfigListens /\ AnnouncementNotLost)'
      BY <1>4 DEF StartSwitches, switchServerAsync, ConfigListens, AnnouncementNotLost
    <2> QED BY <2>1, <2>2, <2>3
  <1>5. ASSUME NEW c \in Conns, NEW s \in Servers, StartConnects(c, s) PROVE ConnInv'
    <2>1. (NoSignal /\ StartIsAlone /\ NewConnection /\ ShutdownIsClosers)'
      BY <1>5 DEF StartConnects, connectToServer, Opened, Fresh, NoSignal, StartIsAlone,
         NewConnection, ShutdownIsClosers
    <2>2. (PrevIsHandled /\ ClosedNotByMistake /\ ReplacedIsClosed)'
      BY <1>5 DEF StartConnects, connectToServer, Opened, Fresh, PrevIsHandled,
         ClosedNotByMistake, ReplacedIsClosed, StartIsAlone, NewConnection,
         ShutdownIsClosers
    <2>3. (ConfigListens /\ AnnouncementNotLost)'
      BY <1>5 DEF StartConnects, connectToServer, Opened, Fresh, ConfigListens,
         AnnouncementNotLost
    <2> QED BY <2>1, <2>2, <2>3
  <1>6. CASE StartInstalls
    <2>1. (NoSignal /\ StartIsAlone /\ NewConnection /\ ShutdownIsClosers)'
      BY <1>6 DEF StartInstalls, SetCurrent, NoSignal, StartIsAlone, NewConnection,
         ShutdownIsClosers
    <2>2. (PrevIsHandled /\ ClosedNotByMistake /\ ReplacedIsClosed)'
      BY <1>6 DEF StartInstalls, SetCurrent, PrevIsHandled, ClosedNotByMistake,
         ReplacedIsClosed, StartIsAlone, NewConnection, ShutdownIsClosers
    <2>3. (ConfigListens /\ AnnouncementNotLost)'
      BY <1>6 DEF StartInstalls, SetCurrent, ConfigListens, AnnouncementNotLost
    <2> QED BY <2>1, <2>2, <2>3
  <1>7. CASE StartMarksRunning
    <2>1. (NoSignal /\ StartIsAlone /\ NewConnection /\ ShutdownIsClosers)'
      BY <1>7 DEF StartMarksRunning, NoSignal, StartIsAlone, NewConnection,
         ShutdownIsClosers
    <2>2. (PrevIsHandled /\ ClosedNotByMistake /\ ReplacedIsClosed)'
      BY <1>7 DEF StartMarksRunning, PrevIsHandled, ClosedNotByMistake,
         ReplacedIsClosed, StartIsAlone, NewConnection, ShutdownIsClosers
    <2>3. (ConfigListens /\ AnnouncementNotLost)'
      BY <1>7 DEF StartMarksRunning, ConfigListens, AnnouncementNotLost
    <2> QED BY <2>1, <2>2, <2>3
  <1>8. CASE StartAnnounces
    <2>1. (NoSignal /\ StartIsAlone /\ NewConnection /\ ShutdownIsClosers)'
      BY <1>8 DEF StartAnnounces, notifyConnectionChange, NoSignal, StartIsAlone,
         NewConnection, ShutdownIsClosers
    <2>2. (PrevIsHandled /\ ClosedNotByMistake /\ ReplacedIsClosed)'
      BY <1>8 DEF StartAnnounces, notifyConnectionChange, PrevIsHandled,
         ClosedNotByMistake, ReplacedIsClosed, StartIsAlone, NewConnection,
         ShutdownIsClosers
    <2>3. (ConfigListens /\ AnnouncementNotLost)'
      BY <1>8 DEF StartAnnounces, notifyConnectionChange, ConfigListens,
         AnnouncementNotLost
    <2> QED BY <2>1, <2>2, <2>3
  <1>9. CASE RegisterConnectionListener
    <2>1. (NoSignal /\ StartIsAlone /\ NewConnection /\ ShutdownIsClosers)'
      BY <1>9 DEF RegisterConnectionListener, NoSignal, StartIsAlone, NewConnection,
         ShutdownIsClosers
    <2>2. (PrevIsHandled /\ ClosedNotByMistake /\ ReplacedIsClosed)'
      BY <1>9 DEF RegisterConnectionListener, PrevIsHandled, ClosedNotByMistake,
         ReplacedIsClosed, StartIsAlone, NewConnection, ShutdownIsClosers
    <2>3. (ConfigListens /\ AnnouncementNotLost)'
      BY <1>9 DEF RegisterConnectionListener, ConfigListens, AnnouncementNotLost
    <2> QED BY <2>1, <2>2, <2>3
  <1> QED
    BY <1>1, <1>2, <1>3, <1>4, <1>5, <1>6, <1>7, <1>8, <1>9 DEF Starter

(* Every step of the worker and its reconnect does. *)
LEMMA ConnWorkerStep ==
    ASSUME IndInv, ConnInv, Worker \/ healthCheckFails
    PROVE  ConnInv'
  <1> USE SetsAssumption, NumbersAssumption
      DEF IndInv, TypeOK, HasConnection, ConnInv, serverVars, connVars, chanVars, starterVars,
          workerVars, eventVars, callerVars, closerVars, WorkerGoes, ReconnectGoes, ReconnectReturns
  <1>1. CASE WorkerTakesReconnect
    <2>1. (NoSignal /\ StartIsAlone /\ NewConnection /\ ShutdownIsClosers)'
      BY <1>1 DEF WorkerTakesReconnect, NoSignal, StartIsAlone, NewConnection,
         ShutdownIsClosers
    <2>2. (PrevIsHandled /\ ClosedNotByMistake /\ ReplacedIsClosed)'
      BY <1>1 DEF WorkerTakesReconnect, PrevIsHandled, ClosedNotByMistake,
         ReplacedIsClosed, StartIsAlone, NewConnection, ShutdownIsClosers
    <2>3. (ConfigListens /\ AnnouncementNotLost)'
      BY <1>1 DEF WorkerTakesReconnect, ConfigListens, AnnouncementNotLost
    <2> QED BY <2>1, <2>2, <2>3
  <1>2. CASE notifyServerSrvChange
    <2>1. (NoSignal /\ StartIsAlone /\ NewConnection /\ ShutdownIsClosers)'
      BY <1>2 DEF notifyServerSrvChange, NoSignal, StartIsAlone, NewConnection,
         ShutdownIsClosers
    <2>2. (PrevIsHandled /\ ClosedNotByMistake /\ ReplacedIsClosed)'
      BY <1>2 DEF notifyServerSrvChange, PrevIsHandled, ClosedNotByMistake,
         ReplacedIsClosed, StartIsAlone, NewConnection, ShutdownIsClosers
    <2>3. (ConfigListens /\ AnnouncementNotLost)'
      BY <1>2 DEF notifyServerSrvChange, ConfigListens, AnnouncementNotLost
    <2> QED BY <2>1, <2>2, <2>3
  <1>3. CASE WorkerSwitches
    <2>1. (NoSignal /\ StartIsAlone /\ NewConnection /\ ShutdownIsClosers)'
      BY <1>3 DEF WorkerSwitches, switchServerAsync, NoSignal, StartIsAlone,
         NewConnection, ShutdownIsClosers
    <2>2. (PrevIsHandled /\ ClosedNotByMistake /\ ReplacedIsClosed)'
      BY <1>3 DEF WorkerSwitches, switchServerAsync, PrevIsHandled, ClosedNotByMistake,
         ReplacedIsClosed, StartIsAlone, NewConnection, ShutdownIsClosers
    <2>3. (ConfigListens /\ AnnouncementNotLost)'
      BY <1>3 DEF WorkerSwitches, switchServerAsync, ConfigListens, AnnouncementNotLost
    <2> QED BY <2>1, <2>2, <2>3
  <1>4. CASE WorkerStops
    <2>1. (NoSignal /\ StartIsAlone /\ NewConnection /\ ShutdownIsClosers)'
      BY <1>4 DEF WorkerStops, NoSignal, StartIsAlone, NewConnection, ShutdownIsClosers
    <2>2. (PrevIsHandled /\ ClosedNotByMistake /\ ReplacedIsClosed)'
      BY <1>4 DEF WorkerStops, PrevIsHandled, ClosedNotByMistake, ReplacedIsClosed,
         StartIsAlone, NewConnection, ShutdownIsClosers
    <2>3. (ConfigListens /\ AnnouncementNotLost)'
      BY <1>4 DEF WorkerStops, ConfigListens, AnnouncementNotLost
    <2> QED BY <2>1, <2>2, <2>3
  <1>5. CASE healthCheckFails
    <2>1. (NoSignal /\ StartIsAlone /\ NewConnection /\ ShutdownIsClosers)'
      BY <1>5 DEF healthCheckFails, NoSignal, StartIsAlone, NewConnection,
         ShutdownIsClosers
    <2>2. (PrevIsHandled /\ ClosedNotByMistake /\ ReplacedIsClosed)'
      BY <1>5 DEF healthCheckFails, PrevIsHandled, ClosedNotByMistake, ReplacedIsClosed,
         StartIsAlone, NewConnection, ShutdownIsClosers
    <2>3. (ConfigListens /\ AnnouncementNotLost)'
      BY <1>5 DEF healthCheckFails, ConfigListens, AnnouncementNotLost
    <2> QED BY <2>1, <2>2, <2>3
  <1>6. CASE healthCheckReconnects
    <2>1. (NoSignal /\ StartIsAlone /\ NewConnection /\ ShutdownIsClosers)'
      BY <1>6 DEF healthCheckReconnects, NoSignal, StartIsAlone, NewConnection,
         ShutdownIsClosers
    <2>2. (PrevIsHandled /\ ClosedNotByMistake /\ ReplacedIsClosed)'
      BY <1>6 DEF healthCheckReconnects, PrevIsHandled, ClosedNotByMistake,
         ReplacedIsClosed, StartIsAlone, NewConnection, ShutdownIsClosers
    <2>3. (ConfigListens /\ AnnouncementNotLost)'
      BY <1>6 DEF healthCheckReconnects, ConfigListens, AnnouncementNotLost
    <2> QED BY <2>1, <2>2, <2>3
  <1>7. CASE ProbePasses
    <2>1. (NoSignal /\ StartIsAlone /\ NewConnection /\ ShutdownIsClosers)'
      BY <1>7 DEF ProbePasses, NoSignal, StartIsAlone, NewConnection, ShutdownIsClosers
    <2>2. (PrevIsHandled /\ ClosedNotByMistake /\ ReplacedIsClosed)'
      BY <1>7 DEF ProbePasses, PrevIsHandled, ClosedNotByMistake, ReplacedIsClosed,
         StartIsAlone, NewConnection, ShutdownIsClosers
    <2>3. (ConfigListens /\ AnnouncementNotLost)'
      BY <1>7 DEF ProbePasses, ConfigListens, AnnouncementNotLost
    <2> QED BY <2>1, <2>2, <2>3
  <1>8. CASE ProbeFails
    <2>1. (NoSignal /\ StartIsAlone /\ NewConnection /\ ShutdownIsClosers)'
      BY <1>8 DEF ProbeFails, NoSignal, StartIsAlone, NewConnection, ShutdownIsClosers
    <2>2. (PrevIsHandled /\ ClosedNotByMistake /\ ReplacedIsClosed)'
      BY <1>8 DEF ProbeFails, PrevIsHandled, ClosedNotByMistake, ReplacedIsClosed,
         StartIsAlone, NewConnection, ShutdownIsClosers
    <2>3. (ConfigListens /\ AnnouncementNotLost)'
      BY <1>8 DEF ProbeFails, ConfigListens, AnnouncementNotLost
    <2> QED BY <2>1, <2>2, <2>3
  <1>9. CASE ReconnectGivesUp
    <2>1. (NoSignal /\ StartIsAlone /\ NewConnection /\ ShutdownIsClosers)'
      BY <1>9 DEF ReconnectGivesUp, NoSignal, StartIsAlone, NewConnection,
         ShutdownIsClosers
    <2>2. (PrevIsHandled /\ ClosedNotByMistake /\ ReplacedIsClosed)'
      BY <1>9 DEF ReconnectGivesUp, PrevIsHandled, ClosedNotByMistake, ReplacedIsClosed,
         StartIsAlone, NewConnection, ShutdownIsClosers
    <2>3. (ConfigListens /\ AnnouncementNotLost)'
      BY <1>9 DEF ReconnectGivesUp, ConfigListens, AnnouncementNotLost
    <2> QED BY <2>1, <2>2, <2>3
  <1>10. CASE ReconnectDialFails
    <2>1. (NoSignal /\ StartIsAlone /\ NewConnection /\ ShutdownIsClosers)'
      BY <1>10 DEF ReconnectDialFails, ConnectDrops, Opened, Fresh, NoSignal,
         StartIsAlone, NewConnection, ShutdownIsClosers
    <2>2. (PrevIsHandled /\ ClosedNotByMistake /\ ReplacedIsClosed)'
      <3>1. CASE UNCHANGED connVars
        BY <1>10, <3>1 DEF ReconnectDialFails, PrevIsHandled, ClosedNotByMistake,
           ReplacedIsClosed, StartIsAlone, NewConnection, ShutdownIsClosers
      <3>2. ASSUME NEW c \in Conns, NEW s \in Servers, ConnectDrops(c, s)
            PROVE  (PrevIsHandled /\ ClosedNotByMistake /\ ReplacedIsClosed)'
        <4>1. /\ c # current /\ c # wConn /\ c # startConn /\ orphans' = orphans \union {c}
              /\ isOpen' = [isOpen EXCEPT ![c] = TRUE] /\ abandon' = [abandon EXCEPT ![c] = FALSE]
              /\ receiver' \in {[receiver EXCEPT ![c] = "recv"], [receiver EXCEPT ![c] = "done"]}
          BY <3>2 DEF ConnectDrops, Opened, Fresh
        <4> QED
          BY <1>10, <4>1 DEF ReconnectDialFails, PrevIsHandled, ClosedNotByMistake,
             ReplacedIsClosed, StartIsAlone, NewConnection, ShutdownIsClosers
      <3> QED BY <1>10, <3>1, <3>2 DEF ReconnectDialFails, ReconnectTarget
    <2>3. (ConfigListens /\ AnnouncementNotLost)'
      BY <1>10 DEF ReconnectDialFails, ConnectDrops, Opened, Fresh, ConfigListens,
         AnnouncementNotLost
    <2> QED BY <2>1, <2>2, <2>3
  <1>11. ASSUME NEW c \in Conns, NEW s \in Servers, ReconnectConnects(c, s) PROVE ConnInv'
    <2>1. (NoSignal /\ StartIsAlone /\ NewConnection /\ ShutdownIsClosers)'
      BY <1>11 DEF ReconnectConnects, connectToServer, Opened, Fresh, NoSignal,
         StartIsAlone, NewConnection, ShutdownIsClosers
    <2>2. (PrevIsHandled /\ ClosedNotByMistake /\ ReplacedIsClosed)'
      BY <1>11 DEF ReconnectConnects, connectToServer, Opened, Fresh, PrevIsHandled,
         ClosedNotByMistake, ReplacedIsClosed, StartIsAlone, NewConnection,
         ShutdownIsClosers
    <2>3. (ConfigListens /\ AnnouncementNotLost)'
      BY <1>11 DEF ReconnectConnects, connectToServer, Opened, Fresh, ConfigListens,
         AnnouncementNotLost
    <2> QED BY <2>1, <2>2, <2>3
  <1>12. CASE ReconnectAbandonsPrev
    <2>1. (NoSignal /\ StartIsAlone /\ NewConnection /\ ShutdownIsClosers)'
      BY <1>12 DEF ReconnectAbandonsPrev, NoSignal, StartIsAlone, NewConnection,
         ShutdownIsClosers
    <2>2. (PrevIsHandled /\ ClosedNotByMistake /\ ReplacedIsClosed)'
      BY <1>12 DEF ReconnectAbandonsPrev, PrevIsHandled, ClosedNotByMistake,
         ReplacedIsClosed, StartIsAlone, NewConnection, ShutdownIsClosers
    <2>3. (ConfigListens /\ AnnouncementNotLost)'
      BY <1>12 DEF ReconnectAbandonsPrev, ConfigListens, AnnouncementNotLost
    <2> QED BY <2>1, <2>2, <2>3
  <1>13. CASE ReconnectClosesPrev
    <2>1. (NoSignal /\ StartIsAlone /\ NewConnection /\ ShutdownIsClosers)'
      BY <1>13 DEF ReconnectClosesPrev, closeConnection, NoSignal, StartIsAlone,
         NewConnection, ShutdownIsClosers
    <2>2. (PrevIsHandled /\ ClosedNotByMistake /\ ReplacedIsClosed)'
      BY <1>13 DEF ReconnectClosesPrev, closeConnection, PrevIsHandled,
         ClosedNotByMistake, ReplacedIsClosed, StartIsAlone, NewConnection,
         ShutdownIsClosers
    <2>3. (ConfigListens /\ AnnouncementNotLost)'
      BY <1>13 DEF ReconnectClosesPrev, closeConnection, ConfigListens,
         AnnouncementNotLost
    <2> QED BY <2>1, <2>2, <2>3
  <1>14. CASE ReconnectNotifiesDown
    <2>1. (NoSignal /\ StartIsAlone /\ NewConnection /\ ShutdownIsClosers)'
      BY <1>14 DEF ReconnectNotifiesDown, notifyConnectionChange, NoSignal,
         StartIsAlone, NewConnection, ShutdownIsClosers
    <2>2. (PrevIsHandled /\ ClosedNotByMistake /\ ReplacedIsClosed)'
      BY <1>14 DEF ReconnectNotifiesDown, notifyConnectionChange, PrevIsHandled,
         ClosedNotByMistake, ReplacedIsClosed, StartIsAlone, NewConnection,
         ShutdownIsClosers
    <2>3. (ConfigListens /\ AnnouncementNotLost)'
      BY <1>14 DEF ReconnectNotifiesDown, notifyConnectionChange, ConfigListens,
         AnnouncementNotLost
    <2> QED BY <2>1, <2>2, <2>3
  <1>15. CASE ReconnectInstalls
    <2>1. (NoSignal /\ StartIsAlone /\ NewConnection /\ ShutdownIsClosers)'
      BY <1>15 DEF ReconnectInstalls, SetCurrent, NoSignal, StartIsAlone, NewConnection,
         ShutdownIsClosers
    <2>2. (PrevIsHandled /\ ClosedNotByMistake /\ ReplacedIsClosed)'
      BY <1>15 DEF ReconnectInstalls, SetCurrent, PrevIsHandled, ClosedNotByMistake,
         ReplacedIsClosed, StartIsAlone, NewConnection, ShutdownIsClosers
    <2>3. (ConfigListens /\ AnnouncementNotLost)'
      BY <1>15 DEF ReconnectInstalls, SetCurrent, ConfigListens, AnnouncementNotLost
    <2> QED BY <2>1, <2>2, <2>3
  <1>16. CASE ReconnectMarksRunning
    <2>1. (NoSignal /\ StartIsAlone /\ NewConnection /\ ShutdownIsClosers)'
      BY <1>16 DEF ReconnectMarksRunning, NoSignal, StartIsAlone, NewConnection,
         ShutdownIsClosers
    <2>2. (PrevIsHandled /\ ClosedNotByMistake /\ ReplacedIsClosed)'
      BY <1>16 DEF ReconnectMarksRunning, PrevIsHandled, ClosedNotByMistake,
         ReplacedIsClosed, StartIsAlone, NewConnection, ShutdownIsClosers
    <2>3. (ConfigListens /\ AnnouncementNotLost)'
      BY <1>16 DEF ReconnectMarksRunning, ConfigListens, AnnouncementNotLost
    <2> QED BY <2>1, <2>2, <2>3
  <1>17. CASE ReconnectAnnounces
    <2>1. (NoSignal /\ StartIsAlone /\ NewConnection /\ ShutdownIsClosers)'
      BY <1>17 DEF ReconnectAnnounces, notifyConnectionChange, NoSignal, StartIsAlone,
         NewConnection, ShutdownIsClosers
    <2>2. (PrevIsHandled /\ ClosedNotByMistake /\ ReplacedIsClosed)'
      BY <1>17 DEF ReconnectAnnounces, notifyConnectionChange, PrevIsHandled,
         ClosedNotByMistake, ReplacedIsClosed, StartIsAlone, NewConnection,
         ShutdownIsClosers
    <2>3. (ConfigListens /\ AnnouncementNotLost)'
      BY <1>17 DEF ReconnectAnnounces, notifyConnectionChange, ConfigListens,
         AnnouncementNotLost
    <2> QED BY <2>1, <2>2, <2>3
  <1>18. CASE ReconnectRetries
    <2>1. (NoSignal /\ StartIsAlone /\ NewConnection /\ ShutdownIsClosers)'
      BY <1>18 DEF ReconnectRetries, NoSignal, StartIsAlone, NewConnection,
         ShutdownIsClosers
    <2>2. (PrevIsHandled /\ ClosedNotByMistake /\ ReplacedIsClosed)'
      BY <1>18 DEF ReconnectRetries, PrevIsHandled, ClosedNotByMistake,
         ReplacedIsClosed, StartIsAlone, NewConnection, ShutdownIsClosers
    <2>3. (ConfigListens /\ AnnouncementNotLost)'
      BY <1>18 DEF ReconnectRetries, ConfigListens, AnnouncementNotLost
    <2> QED BY <2>1, <2>2, <2>3
  <1>19. CASE ReconnectShutdown
    <2>1. (NoSignal /\ StartIsAlone /\ NewConnection /\ ShutdownIsClosers)'
      BY <1>19 DEF ReconnectShutdown, closeConnection, NoSignal, StartIsAlone,
         NewConnection, ShutdownIsClosers
    <2>2. (PrevIsHandled /\ ClosedNotByMistake /\ ReplacedIsClosed)'
      BY <1>19 DEF ReconnectShutdown, closeConnection, PrevIsHandled,
         ClosedNotByMistake, ReplacedIsClosed, StartIsAlone, NewConnection,
         ShutdownIsClosers
    <2>3. (ConfigListens /\ AnnouncementNotLost)'
      BY <1>19 DEF ReconnectShutdown, closeConnection, ConfigListens,
         AnnouncementNotLost
    <2> QED BY <2>1, <2>2, <2>3
  <1>20. CASE ReconnectNotifiesLateDown
    <2>1. (NoSignal /\ StartIsAlone /\ NewConnection /\ ShutdownIsClosers)'
      BY <1>20 DEF ReconnectNotifiesLateDown, notifyConnectionChange, NoSignal,
         StartIsAlone, NewConnection, ShutdownIsClosers
    <2>2. (PrevIsHandled /\ ClosedNotByMistake /\ ReplacedIsClosed)'
      BY <1>20 DEF ReconnectNotifiesLateDown, notifyConnectionChange, PrevIsHandled,
         ClosedNotByMistake, ReplacedIsClosed, StartIsAlone, NewConnection,
         ShutdownIsClosers
    <2>3. (ConfigListens /\ AnnouncementNotLost)'
      BY <1>20 DEF ReconnectNotifiesLateDown, notifyConnectionChange, ConfigListens,
         AnnouncementNotLost
    <2> QED BY <2>1, <2>2, <2>3
  <1> QED
    BY <1>1, <1>2, <1>3, <1>4, <1>5, <1>6, <1>7, <1>8, <1>9, <1>10, <1>11, <1>12,
         <1>13, <1>14, <1>15, <1>16, <1>17, <1>18, <1>19, <1>20 DEF Worker

(* Every step of the event loop does. *)
LEMMA ConnEventLoopStep ==
    ASSUME IndInv, ConnInv, EventLoop
    PROVE  ConnInv'
  <1> USE SetsAssumption, NumbersAssumption
      DEF IndInv, TypeOK, HasConnection, ConnInv, serverVars, connVars, chanVars, starterVars,
          workerVars, eventVars, callerVars, closerVars, EventLoopGoes
  <1>1. CASE notifyConnectionEvent
    <2>1. (NoSignal /\ StartIsAlone /\ NewConnection /\ ShutdownIsClosers)'
      BY <1>1 DEF notifyConnectionEvent, NoSignal, StartIsAlone, NewConnection,
         ShutdownIsClosers
    <2>2. (PrevIsHandled /\ ClosedNotByMistake /\ ReplacedIsClosed)'
      BY <1>1 DEF notifyConnectionEvent, PrevIsHandled, ClosedNotByMistake,
         ReplacedIsClosed, StartIsAlone, NewConnection, ShutdownIsClosers
    <2>3. (ConfigListens /\ AnnouncementNotLost)'
      BY <1>1 DEF notifyConnectionEvent, ConfigListens, AnnouncementNotLost
    <2> QED BY <2>1, <2>2, <2>3
  <1>2. CASE RedoRequest
    <2>1. (NoSignal /\ StartIsAlone /\ NewConnection /\ ShutdownIsClosers)'
      BY <1>2 DEF RedoRequest, NoSignal, StartIsAlone, NewConnection, ShutdownIsClosers
    <2>2. (PrevIsHandled /\ ClosedNotByMistake /\ ReplacedIsClosed)'
      BY <1>2 DEF RedoRequest, PrevIsHandled, ClosedNotByMistake, ReplacedIsClosed,
         StartIsAlone, NewConnection, ShutdownIsClosers
    <2>3. (ConfigListens /\ AnnouncementNotLost)'
      BY <1>2 DEF RedoRequest, ConfigListens, AnnouncementNotLost
    <2> QED BY <2>1, <2>2, <2>3
  <1>3. CASE RedoDone
    <2>1. (NoSignal /\ StartIsAlone /\ NewConnection /\ ShutdownIsClosers)'
      BY <1>3 DEF RedoDone, NoSignal, StartIsAlone, NewConnection, ShutdownIsClosers
    <2>2. (PrevIsHandled /\ ClosedNotByMistake /\ ReplacedIsClosed)'
      BY <1>3 DEF RedoDone, PrevIsHandled, ClosedNotByMistake, ReplacedIsClosed,
         StartIsAlone, NewConnection, ShutdownIsClosers
    <2>3. (ConfigListens /\ AnnouncementNotLost)'
      BY <1>3 DEF RedoDone, ConfigListens, AnnouncementNotLost
    <2> QED BY <2>1, <2>2, <2>3
  <1>4. CASE EventLoopStops
    <2>1. (NoSignal /\ StartIsAlone /\ NewConnection /\ ShutdownIsClosers)'
      BY <1>4 DEF EventLoopStops, NoSignal, StartIsAlone, NewConnection,
         ShutdownIsClosers
    <2>2. (PrevIsHandled /\ ClosedNotByMistake /\ ReplacedIsClosed)'
      BY <1>4 DEF EventLoopStops, PrevIsHandled, ClosedNotByMistake, ReplacedIsClosed,
         StartIsAlone, NewConnection, ShutdownIsClosers
    <2>3. (ConfigListens /\ AnnouncementNotLost)'
      BY <1>4 DEF EventLoopStops, ConfigListens, AnnouncementNotLost
    <2> QED BY <2>1, <2>2, <2>3
  <1> QED
    BY <1>1, <1>2, <1>3, <1>4 DEF EventLoop

(* Every step of a receiver does. *)
LEMMA ConnReceiverStep ==
    ASSUME IndInv, ConnInv, NEW c \in Conns, Receiver(c) \/ ReceiverReadsAbandon(c) \/ ResetArrives(c)
    PROVE  ConnInv'
  <1> USE SetsAssumption, NumbersAssumption
      DEF IndInv, TypeOK, HasConnection, ConnInv, serverVars, connVars, chanVars, starterVars,
          workerVars, eventVars, callerVars, closerVars, ReceiverGoes
  <1>1. CASE ReceiverReadsAbandon(c)
    <2>1. (NoSignal /\ StartIsAlone /\ NewConnection /\ ShutdownIsClosers)'
      BY <1>1 DEF ReceiverReadsAbandon, NoSignal, StartIsAlone, NewConnection,
         ShutdownIsClosers
    <2>2. (PrevIsHandled /\ ClosedNotByMistake /\ ReplacedIsClosed)'
      BY <1>1 DEF ReceiverReadsAbandon, PrevIsHandled, ClosedNotByMistake,
         ReplacedIsClosed, StartIsAlone, NewConnection, ShutdownIsClosers
    <2>3. (ConfigListens /\ AnnouncementNotLost)'
      BY <1>1 DEF ReceiverReadsAbandon, ConfigListens, AnnouncementNotLost
    <2> QED BY <2>1, <2>2, <2>3
  <1>2. CASE ReceiverSwaps(c)
    <2>1. (NoSignal /\ StartIsAlone /\ NewConnection /\ ShutdownIsClosers)'
      BY <1>2 DEF ReceiverSwaps, CASUnhealthy, NoSignal, StartIsAlone, NewConnection,
         ShutdownIsClosers
    <2>2. (PrevIsHandled /\ ClosedNotByMistake /\ ReplacedIsClosed)'
      BY <1>2 DEF ReceiverSwaps, CASUnhealthy, PrevIsHandled, ClosedNotByMistake,
         ReplacedIsClosed, StartIsAlone, NewConnection, ShutdownIsClosers
    <2>3. (ConfigListens /\ AnnouncementNotLost)'
      BY <1>2 DEF ReceiverSwaps, CASUnhealthy, ConfigListens, AnnouncementNotLost
    <2> QED BY <2>1, <2>2, <2>3
  <1>3. CASE ReceiverReturns(c)
    <2>1. (NoSignal /\ StartIsAlone /\ NewConnection /\ ShutdownIsClosers)'
      BY <1>3 DEF ReceiverReturns, NoSignal, StartIsAlone, NewConnection,
         ShutdownIsClosers
    <2>2. (PrevIsHandled /\ ClosedNotByMistake /\ ReplacedIsClosed)'
      BY <1>3 DEF ReceiverReturns, PrevIsHandled, ClosedNotByMistake, ReplacedIsClosed,
         StartIsAlone, NewConnection, ShutdownIsClosers
    <2>3. (ConfigListens /\ AnnouncementNotLost)'
      BY <1>3 DEF ReceiverReturns, ConfigListens, AnnouncementNotLost
    <2> QED BY <2>1, <2>2, <2>3
  <1>4. CASE ResetArrives(c)
    <2>1. (NoSignal /\ StartIsAlone /\ NewConnection /\ ShutdownIsClosers)'
      BY <1>4 DEF ResetArrives, NoSignal, StartIsAlone, NewConnection, ShutdownIsClosers
    <2>2. (PrevIsHandled /\ ClosedNotByMistake /\ ReplacedIsClosed)'
      BY <1>4 DEF ResetArrives, PrevIsHandled, ClosedNotByMistake, ReplacedIsClosed,
         StartIsAlone, NewConnection, ShutdownIsClosers
    <2>3. (ConfigListens /\ AnnouncementNotLost)'
      BY <1>4 DEF ResetArrives, ConfigListens, AnnouncementNotLost
    <2> QED BY <2>1, <2>2, <2>3
  <1>5. CASE ResetLocks(c)
    <2>1. (NoSignal /\ StartIsAlone /\ NewConnection /\ ShutdownIsClosers)'
      BY <1>5 DEF ResetLocks, NoSignal, StartIsAlone, NewConnection, ShutdownIsClosers
    <2>2. (PrevIsHandled /\ ClosedNotByMistake /\ ReplacedIsClosed)'
      BY <1>5 DEF ResetLocks, PrevIsHandled, ClosedNotByMistake, ReplacedIsClosed,
         StartIsAlone, NewConnection, ShutdownIsClosers
    <2>3. (ConfigListens /\ AnnouncementNotLost)'
      BY <1>5 DEF ResetLocks, ConfigListens, AnnouncementNotLost
    <2> QED BY <2>1, <2>2, <2>3
  <1>6. CASE ResetSwitches(c)
    <2>1. (NoSignal /\ StartIsAlone /\ NewConnection /\ ShutdownIsClosers)'
      BY <1>6 DEF ResetSwitches, switchServerAsync, NoSignal, StartIsAlone,
         NewConnection, ShutdownIsClosers
    <2>2. (PrevIsHandled /\ ClosedNotByMistake /\ ReplacedIsClosed)'
      BY <1>6 DEF ResetSwitches, switchServerAsync, PrevIsHandled, ClosedNotByMistake,
         ReplacedIsClosed, StartIsAlone, NewConnection, ShutdownIsClosers
    <2>3. (ConfigListens /\ AnnouncementNotLost)'
      BY <1>6 DEF ResetSwitches, switchServerAsync, ConfigListens, AnnouncementNotLost
    <2> QED BY <2>1, <2>2, <2>3
  <1> QED
    BY <1>1, <1>2, <1>3, <1>4, <1>5, <1>6 DEF Receiver

(* A receiver's last send does. *)
LEMMA ConnLastSendStep ==
    ASSUME IndInv, ConnInv, ReceiverSwitches
    PROVE  ConnInv'
  <1>1. /\ switching > 0
        /\ UNCHANGED <<status, current, announced, serverVars, connVars, eventChan, mux,
                      starterVars, workerVars, eventVars, callerVars, closerVars>>
    BY DEF ReceiverSwitches
  <1> USE DEF ConnInv, serverVars, connVars, starterVars, workerVars, eventVars, callerVars,
          closerVars
  <1>2. StartIsAlone'
    BY <1>1 DEF StartIsAlone
  <1>3. (NoSignal /\ NewConnection /\ ShutdownIsClosers)'
    BY <1>1 DEF NoSignal, NewConnection, ShutdownIsClosers
  <1>4. (PrevIsHandled /\ ClosedNotByMistake /\ ReplacedIsClosed)'
    BY <1>1 DEF PrevIsHandled, ClosedNotByMistake, ReplacedIsClosed
  <1>5. (ConfigListens /\ AnnouncementNotLost)'
    BY <1>1 DEF ConfigListens, AnnouncementNotLost
  <1> QED BY <1>2, <1>3, <1>4, <1>5

(* Every step of Request does. *)
LEMMA ConnRequestStep ==
    ASSUME IndInv, ConnInv, NEW k \in Requesters, Request(k) \/ Call(k)
    PROVE  ConnInv'
  <1> USE SetsAssumption, NumbersAssumption
      DEF IndInv, TypeOK, HasConnection, ConnInv, serverVars, connVars, chanVars, starterVars,
          workerVars, eventVars, callerVars, closerVars, CallerGoes, MayBeServed, CountRetry, ForgetRetries
  <1>1. CASE Call(k)
    <2>1. (NoSignal /\ StartIsAlone /\ NewConnection /\ ShutdownIsClosers)'
      BY <1>1 DEF Call, NoSignal, StartIsAlone, NewConnection, ShutdownIsClosers
    <2>2. (PrevIsHandled /\ ClosedNotByMistake /\ ReplacedIsClosed)'
      BY <1>1 DEF Call, PrevIsHandled, ClosedNotByMistake, ReplacedIsClosed,
         StartIsAlone, NewConnection, ShutdownIsClosers
    <2>3. (ConfigListens /\ AnnouncementNotLost)'
      BY <1>1 DEF Call, ConfigListens, AnnouncementNotLost
    <2> QED BY <2>1, <2>2, <2>3
  <1>2. CASE waitReconnect(k)
    <2>1. (NoSignal /\ StartIsAlone /\ NewConnection /\ ShutdownIsClosers)'
      BY <1>2 DEF waitReconnect, NoSignal, StartIsAlone, NewConnection,
         ShutdownIsClosers
    <2>2. (PrevIsHandled /\ ClosedNotByMistake /\ ReplacedIsClosed)'
      BY <1>2 DEF waitReconnect, PrevIsHandled, ClosedNotByMistake, ReplacedIsClosed,
         StartIsAlone, NewConnection, ShutdownIsClosers
    <2>3. (ConfigListens /\ AnnouncementNotLost)'
      BY <1>2 DEF waitReconnect, ConfigListens, AnnouncementNotLost
    <2> QED BY <2>1, <2>2, <2>3
  <1>3. CASE RequestSucceeds(k)
    <2>1. (NoSignal /\ StartIsAlone /\ NewConnection /\ ShutdownIsClosers)'
      BY <1>3 DEF RequestSucceeds, NoSignal, StartIsAlone, NewConnection,
         ShutdownIsClosers
    <2>2. (PrevIsHandled /\ ClosedNotByMistake /\ ReplacedIsClosed)'
      BY <1>3 DEF RequestSucceeds, PrevIsHandled, ClosedNotByMistake, ReplacedIsClosed,
         StartIsAlone, NewConnection, ShutdownIsClosers
    <2>3. (ConfigListens /\ AnnouncementNotLost)'
      BY <1>3 DEF RequestSucceeds, ConfigListens, AnnouncementNotLost
    <2> QED BY <2>1, <2>2, <2>3
  <1>4. CASE RequestUnregistered(k)
    <2>1. (NoSignal /\ StartIsAlone /\ NewConnection /\ ShutdownIsClosers)'
      BY <1>4 DEF RequestUnregistered, NoSignal, StartIsAlone, NewConnection,
         ShutdownIsClosers
    <2>2. (PrevIsHandled /\ ClosedNotByMistake /\ ReplacedIsClosed)'
      BY <1>4 DEF RequestUnregistered, PrevIsHandled, ClosedNotByMistake,
         ReplacedIsClosed, StartIsAlone, NewConnection, ShutdownIsClosers
    <2>3. (ConfigListens /\ AnnouncementNotLost)'
      BY <1>4 DEF RequestUnregistered, ConfigListens, AnnouncementNotLost
    <2> QED BY <2>1, <2>2, <2>3
  <1>5. CASE UnregisteredLocks(k)
    <2>1. (NoSignal /\ StartIsAlone /\ NewConnection /\ ShutdownIsClosers)'
      BY <1>5 DEF UnregisteredLocks, CASUnhealthy, NoSignal, StartIsAlone,
         NewConnection, ShutdownIsClosers
    <2>2. (PrevIsHandled /\ ClosedNotByMistake /\ ReplacedIsClosed)'
      BY <1>5 DEF UnregisteredLocks, CASUnhealthy, PrevIsHandled, ClosedNotByMistake,
         ReplacedIsClosed, StartIsAlone, NewConnection, ShutdownIsClosers
    <2>3. (ConfigListens /\ AnnouncementNotLost)'
      BY <1>5 DEF UnregisteredLocks, CASUnhealthy, ConfigListens, AnnouncementNotLost
    <2> QED BY <2>1, <2>2, <2>3
  <1>6. CASE UnregisteredLate(k)
    <2>1. (NoSignal /\ StartIsAlone /\ NewConnection /\ ShutdownIsClosers)'
      BY <1>6 DEF UnregisteredLate, NoSignal, StartIsAlone, NewConnection,
         ShutdownIsClosers
    <2>2. (PrevIsHandled /\ ClosedNotByMistake /\ ReplacedIsClosed)'
      BY <1>6 DEF UnregisteredLate, PrevIsHandled, ClosedNotByMistake, ReplacedIsClosed,
         StartIsAlone, NewConnection, ShutdownIsClosers
    <2>3. (ConfigListens /\ AnnouncementNotLost)'
      BY <1>6 DEF UnregisteredLate, ConfigListens, AnnouncementNotLost
    <2> QED BY <2>1, <2>2, <2>3
  <1>7. CASE UnregisteredSwitches(k)
    <2>1. (NoSignal /\ StartIsAlone /\ NewConnection /\ ShutdownIsClosers)'
      BY <1>7 DEF UnregisteredSwitches, switchServerAsync, NoSignal, StartIsAlone,
         NewConnection, ShutdownIsClosers
    <2>2. (PrevIsHandled /\ ClosedNotByMistake /\ ReplacedIsClosed)'
      BY <1>7 DEF UnregisteredSwitches, switchServerAsync, PrevIsHandled,
         ClosedNotByMistake, ReplacedIsClosed, StartIsAlone, NewConnection,
         ShutdownIsClosers
    <2>3. (ConfigListens /\ AnnouncementNotLost)'
      BY <1>7 DEF UnregisteredSwitches, switchServerAsync, ConfigListens,
         AnnouncementNotLost
    <2> QED BY <2>1, <2>2, <2>3
  <1>8. CASE RequestGivesUp(k)
    <2>1. (NoSignal /\ StartIsAlone /\ NewConnection /\ ShutdownIsClosers)'
      BY <1>8 DEF RequestGivesUp, CASUnhealthy, NoSignal, StartIsAlone, NewConnection,
         ShutdownIsClosers
    <2>2. (PrevIsHandled /\ ClosedNotByMistake /\ ReplacedIsClosed)'
      BY <1>8 DEF RequestGivesUp, CASUnhealthy, PrevIsHandled, ClosedNotByMistake,
         ReplacedIsClosed, StartIsAlone, NewConnection, ShutdownIsClosers
    <2>3. (ConfigListens /\ AnnouncementNotLost)'
      BY <1>8 DEF RequestGivesUp, CASUnhealthy, ConfigListens, AnnouncementNotLost
    <2> QED BY <2>1, <2>2, <2>3
  <1>9. CASE RequestFails(k)
    <2>1. (NoSignal /\ StartIsAlone /\ NewConnection /\ ShutdownIsClosers)'
      BY <1>9 DEF RequestFails, NoSignal, StartIsAlone, NewConnection, ShutdownIsClosers
    <2>2. (PrevIsHandled /\ ClosedNotByMistake /\ ReplacedIsClosed)'
      BY <1>9 DEF RequestFails, PrevIsHandled, ClosedNotByMistake, ReplacedIsClosed,
         StartIsAlone, NewConnection, ShutdownIsClosers
    <2>3. (ConfigListens /\ AnnouncementNotLost)'
      BY <1>9 DEF RequestFails, ConfigListens, AnnouncementNotLost
    <2> QED BY <2>1, <2>2, <2>3
  <1>10. CASE RequestSwitches(k)
    <2>1. (NoSignal /\ StartIsAlone /\ NewConnection /\ ShutdownIsClosers)'
      BY <1>10 DEF RequestSwitches, switchServerAsync, NoSignal, StartIsAlone,
         NewConnection, ShutdownIsClosers
    <2>2. (PrevIsHandled /\ ClosedNotByMistake /\ ReplacedIsClosed)'
      BY <1>10 DEF RequestSwitches, switchServerAsync, PrevIsHandled,
         ClosedNotByMistake, ReplacedIsClosed, StartIsAlone, NewConnection,
         ShutdownIsClosers
    <2>3. (ConfigListens /\ AnnouncementNotLost)'
      BY <1>10 DEF RequestSwitches, switchServerAsync, ConfigListens,
         AnnouncementNotLost
    <2> QED BY <2>1, <2>2, <2>3
  <1> QED
    BY <1>1, <1>2, <1>3, <1>4, <1>5, <1>6, <1>7, <1>8, <1>9, <1>10 DEF Request

(* Every step of CloseClient does. *)
LEMMA ConnCloserStep ==
    ASSUME IndInv, ConnInv, Closer \/ Shutdown
    PROVE  ConnInv'
  <1> USE SetsAssumption, NumbersAssumption
      DEF IndInv, TypeOK, HasConnection, ConnInv, serverVars, connVars, chanVars, starterVars,
          workerVars, eventVars, callerVars, closerVars, CloserGoes
  <1>1. CASE Shutdown
    <2>1. (NoSignal /\ StartIsAlone /\ NewConnection /\ ShutdownIsClosers)'
      BY <1>1 DEF Shutdown, NoSignal, StartIsAlone, NewConnection, ShutdownIsClosers
    <2>2. (PrevIsHandled /\ ClosedNotByMistake /\ ReplacedIsClosed)'
      BY <1>1 DEF Shutdown, PrevIsHandled, ClosedNotByMistake, ReplacedIsClosed,
         StartIsAlone, NewConnection, ShutdownIsClosers
    <2>3. (ConfigListens /\ AnnouncementNotLost)'
      BY <1>1 DEF Shutdown, ConfigListens, AnnouncementNotLost
    <2> QED BY <2>1, <2>2, <2>3
  <1>2. CASE ShutdownCloses
    <2>1. (NoSignal /\ StartIsAlone /\ NewConnection /\ ShutdownIsClosers)'
      BY <1>2 DEF ShutdownCloses, closeConnection, NoSignal, StartIsAlone,
         NewConnection, ShutdownIsClosers
    <2>2. (PrevIsHandled /\ ClosedNotByMistake /\ ReplacedIsClosed)'
      BY <1>2 DEF ShutdownCloses, closeConnection, PrevIsHandled, ClosedNotByMistake,
         ReplacedIsClosed, StartIsAlone, NewConnection, ShutdownIsClosers
    <2>3. (ConfigListens /\ AnnouncementNotLost)'
      BY <1>2 DEF ShutdownCloses, closeConnection, ConfigListens, AnnouncementNotLost
    <2> QED BY <2>1, <2>2, <2>3
  <1>3. CASE ShutdownUnconnected
    <2>1. (NoSignal /\ StartIsAlone /\ NewConnection /\ ShutdownIsClosers)'
      BY <1>3 DEF ShutdownUnconnected, NoSignal, StartIsAlone, NewConnection,
         ShutdownIsClosers
    <2>2. (PrevIsHandled /\ ClosedNotByMistake /\ ReplacedIsClosed)'
      BY <1>3 DEF ShutdownUnconnected, PrevIsHandled, ClosedNotByMistake,
         ReplacedIsClosed, StartIsAlone, NewConnection, ShutdownIsClosers
    <2>3. (ConfigListens /\ AnnouncementNotLost)'
      BY <1>3 DEF ShutdownUnconnected, ConfigListens, AnnouncementNotLost
    <2> QED BY <2>1, <2>2, <2>3
  <1>4. CASE ShutdownNotifies
    <2>1. (NoSignal /\ StartIsAlone /\ NewConnection /\ ShutdownIsClosers)'
      BY <1>4 DEF ShutdownNotifies, notifyConnectionChange, NoSignal, StartIsAlone,
         NewConnection, ShutdownIsClosers
    <2>2. (PrevIsHandled /\ ClosedNotByMistake /\ ReplacedIsClosed)'
      BY <1>4 DEF ShutdownNotifies, notifyConnectionChange, PrevIsHandled,
         ClosedNotByMistake, ReplacedIsClosed, StartIsAlone, NewConnection,
         ShutdownIsClosers
    <2>3. (ConfigListens /\ AnnouncementNotLost)'
      BY <1>4 DEF ShutdownNotifies, notifyConnectionChange, ConfigListens,
         AnnouncementNotLost
    <2> QED BY <2>1, <2>2, <2>3
  <1>5. CASE CancelContext
    <2>1. (NoSignal /\ StartIsAlone /\ NewConnection /\ ShutdownIsClosers)'
      BY <1>5 DEF CancelContext, NoSignal, StartIsAlone, NewConnection,
         ShutdownIsClosers
    <2>2. (PrevIsHandled /\ ClosedNotByMistake /\ ReplacedIsClosed)'
      BY <1>5 DEF CancelContext, PrevIsHandled, ClosedNotByMistake, ReplacedIsClosed,
         StartIsAlone, NewConnection, ShutdownIsClosers
    <2>3. (ConfigListens /\ AnnouncementNotLost)'
      BY <1>5 DEF CancelContext, ConfigListens, AnnouncementNotLost
    <2> QED BY <2>1, <2>2, <2>3
  <1> QED
    BY <1>1, <1>2, <1>3, <1>4, <1>5 DEF Closer

(* Every step of the refresher does: with a fixed list it has none. *)
LEMMA ConnRefresherStep ==
    ASSUME IndInv, ConnInv,
           SignalServerChange \/ \E list \in SUBSET Servers : RefreshServerList(list)
    PROVE  ConnInv'
  <1>1. NoSignal'
    BY DEF SignalServerChange, RefreshServerList, ConnInv, NoSignal
  <1>2. RefresherKeeps
    BY DEF SignalServerChange, RefreshServerList
  <1> QED
    BY <1>1, <1>2 DEF ConnInv, StartIsAlone, NewConnection, PrevIsHandled, ShutdownIsClosers,
       ClosedNotByMistake, ReplacedIsClosed, ConfigListens, AnnouncementNotLost,
       RefresherKeeps, connVars, chanVars, starterVars, workerVars, eventVars, callerVars,
       closerVars

(* A stuttering step does. *)
LEMMA ConnStutter == ASSUME ConnInv, UNCHANGED vars PROVE ConnInv'
  BY DEF ConnInv, NoSignal, StartIsAlone, NewConnection, PrevIsHandled, ShutdownIsClosers,
     ClosedNotByMistake, ReplacedIsClosed, ConfigListens, AnnouncementNotLost, vars,
     serverVars, connVars, chanVars, starterVars, workerVars, eventVars, callerVars, closerVars

(* A client that has not started has no connection to lose. *)
LEMMA ConnInitially == Init => ConnInv
  <1> SUFFICES ASSUME Init PROVE ConnInv
    OBVIOUS
  <1>1. NoSignal /\ NewConnection /\ PrevIsHandled /\ ShutdownIsClosers /\ ConfigListens
    BY DEF Init, NoSignal, NewConnection, PrevIsHandled, ShutdownIsClosers, ConfigListens
  <1>2. StartIsAlone
    BY DEF Init, StartIsAlone
  <1>3. ClosedNotByMistake /\ ReplacedIsClosed /\ AnnouncementNotLost
    BY DEF Init, ClosedNotByMistake, ReplacedIsClosed, AnnouncementNotLost
  <1> QED BY <1>1, <1>2, <1>3 DEF ConnInv

(* Every step of the client keeps the invariant of its connections. *)
LEMMA ConnStep == IndInv /\ ConnInv /\ [Next]_vars => ConnInv'
  <1> SUFFICES ASSUME IndInv, ConnInv, [Next]_vars PROVE ConnInv'
    OBVIOUS
  <1>1. CASE Starter
    BY <1>1, ConnStarterStep
  <1>2. CASE Worker \/ healthCheckFails
    BY <1>2, ConnWorkerStep
  <1>3. CASE EventLoop
    BY <1>3, ConnEventLoopStep
  <1>4. ASSUME NEW c \in Conns, Receiver(c) \/ ReceiverReadsAbandon(c) \/ ResetArrives(c)
        PROVE  ConnInv'
    BY <1>4, ConnReceiverStep
  <1>5. ASSUME NEW k \in Requesters, Request(k) \/ Call(k) PROVE ConnInv'
    BY <1>5, ConnRequestStep
  <1>6. CASE Closer \/ Shutdown
    BY <1>6, ConnCloserStep
  <1>7. CASE SignalServerChange \/ \E list \in SUBSET Servers : RefreshServerList(list)
    BY <1>7, ConnRefresherStep
  <1>8. CASE ReceiverSwitches
    BY <1>8, ConnLastSendStep
  <1>9. CASE UNCHANGED vars
    BY <1>9, ConnStutter
  <1> QED BY <1>1, <1>2, <1>3, <1>4, <1>5, <1>6, <1>7, <1>8, <1>9 DEF Next, Outside

(* The invariant of the connections holds in every behaviour. *)
LEMMA ConnInductive == Spec => []ConnInv
  BY ConnInitially, ConnStep, Inductive, PTL DEF Spec

-----------------------------------------------------------------------------
(* With a fixed server list, reconnect and Start leave no open connection   *)
(* behind when they replace currentConnection.                              *)
THEOREM ReplacedConnectionsClosed == Spec => []ReplacedIsClosed
  <1>1. ConnInv => ReplacedIsClosed
    BY DEF ConnInv
  <1> QED BY <1>1, ConnInductive, PTL

(* With a fixed server list, a receiver that reads abandon after reconnect  *)
(* closed its connection finds it set, however the two interleave.          *)
THEOREM ClosedAbandoned == Spec => []ClosedIsAbandoned
  <1>1. ConnInv => ClosedIsAbandoned
    BY DEF ConnInv, ClosedNotByMistake, ClosedIsAbandoned
  <1> QED BY <1>1, ConnInductive, PTL

(* The config client's listener hears of every connection that becomes      *)
(* current and RUNNING: the CONNECTED event is taken, queued or on its way. *)
THEOREM AnnouncementsKept == Spec => []AnnouncementNotLost
  <1>1. ConnInv => AnnouncementNotLost
    BY DEF ConnInv
  <1> QED BY <1>1, ConnInductive, PTL

-----------------------------------------------------------------------------
(* Start and the worker may both assign currentConnection when the server   *)
(* list comes from an endpoint.                                             *)

BeforeInstall == starter \in {"init", "dial", "install"}

(* The worker is between closing the old connection and assigning the new   *)
(* one, and yet the current connection is open.                             *)
OpenAtSwap == worker \in {"sendD", "swap"} /\ current # NoConn /\ isOpen[current]

(* Then it is Start that has assigned it meanwhile, over a closed one.      *)
SwapMeetsStart == OpenAtSwap => ~BeforeInstall /\ \A c \in Conns : ~LeftOpen(c)

LeftInv == LeftOpenOnce /\ SwapMeetsStart

(* A step that leaves nothing open behind keeps LeftInv. *)
LEMMA LeftShrinks ==
    ASSUME LeftInv,
           \A c \in Conns : LeftOpen(c)' => LeftOpen(c),
           BeforeInstall' => BeforeInstall,
           OpenAtSwap' => OpenAtSwap
    PROVE  LeftInv'
  BY DEF LeftInv, LeftOpenOnce, SwapMeetsStart, BeforeInstall

(* So does a step that has nothing to do with connections. *)
LEMMA LeftUntouched ==
    ASSUME LeftInv,
           UNCHANGED <<isOpen, orphans, current, wConn, startConn>>,
           BeforeInstall' => BeforeInstall,
           worker' \in {"sendD", "swap"} => worker \in {"sendD", "swap"}
    PROVE  LeftInv'
  <1>1. \A c \in Conns : LeftOpen(c)' => LeftOpen(c)
    BY DEF LeftOpen
  <1>2. OpenAtSwap' => OpenAtSwap
    BY DEF OpenAtSwap
  <1> QED BY <1>1, <1>2, LeftShrinks

(* Opening a connection for startConn or wConn, or dropping it at once, leaves *)
(* none behind and does not touch the current one.                            *)
LEMMA OpenedIsHeld ==
    ASSUME TypeOK, NEW c \in Conns, NEW s \in Servers, NEW reads, Opened(c, s, reads),
           UNCHANGED current,
           \/ orphans' = orphans \union {c} /\ UNCHANGED <<startConn, wConn>>
           \/ /\ orphans' = orphans \ {c}
              /\ \/ startConn = NoConn /\ startConn' = c /\ UNCHANGED wConn
                 \/ wConn = NoConn /\ wConn' = c /\ UNCHANGED startConn
    PROVE  /\ \A d \in Conns : LeftOpen(d)' => LeftOpen(d)
           /\ current # NoConn => isOpen'[current'] = isOpen[current]
  BY SetsAssumption DEF TypeOK, Opened, Fresh, LeftOpen

(* Closing the current connection leaves none behind. *)
LEMMA ClosedIsClosed ==
    ASSUME TypeOK, current \in Conns, closeConnection, UNCHANGED <<current, wConn, startConn>>
    PROVE  /\ \A d \in Conns : LeftOpen(d)' => LeftOpen(d)
           /\ ~isOpen'[current']
  BY DEF TypeOK, closeConnection, LeftOpen

(* Start leaves the connection it replaces open, if it replaces one. *)
LEMMA LeftStarterStep ==
    ASSUME IndInv, ConnInv, LeftInv, Starter
    PROVE  LeftInv'
  <1> USE DEF starterVars, workerVars, connVars, chanVars, StarterGoes, StarterKeeps
  <1>1. CASE StartInstalls
    <2>1. /\ BeforeInstall /\ ~BeforeInstall' /\ \A c \in Conns : ~LeftOpen(c)
          /\ startConn \in Conns /\ current' = startConn /\ startConn' = NoConn
          /\ UNCHANGED <<isOpen, orphans, wConn, worker>>
      BY <1>1 DEF StartInstalls, SetCurrent, BeforeInstall, LeftInv, LeftOpenOnce, IndInv,
         HasConnection
    <2>2. \A c \in Conns : LeftOpen(c)' => c = current /\ isOpen[current]
      BY <2>1 DEF LeftOpen
    <2>3. LeftOpenOnce'
      BY <2>1, <2>2 DEF LeftOpenOnce, BeforeInstall
    <2>4. worker \in {"sendD", "swap"} => ~(current \in Conns /\ isOpen[current])
      BY <2>1, SetsAssumption DEF LeftInv, SwapMeetsStart, OpenAtSwap
    <2>5. SwapMeetsStart'
      BY <2>1, <2>2, <2>4 DEF SwapMeetsStart, OpenAtSwap
    <2> QED BY <2>3, <2>5 DEF LeftInv
  <1>2. ASSUME NEW c \in Conns, NEW s \in Servers, StartConnects(c, s) PROVE LeftInv'
    <2>1. /\ Opened(c, s, "recv") /\ UNCHANGED <<current, wConn, worker>> /\ BeforeInstall
          /\ orphans' = orphans \ {c} /\ startConn = NoConn /\ startConn' = c
      BY <1>2 DEF StartConnects, connectToServer, BeforeInstall, ConnInv, NewConnection
    <2>2. TypeOK
      BY DEF IndInv
    <2>3. (\A d \in Conns : LeftOpen(d)' => LeftOpen(d)) /\ (OpenAtSwap' => OpenAtSwap)
      BY <2>1, <2>2, OpenedIsHeld DEF OpenAtSwap
    <2> QED BY <2>1, <2>3, LeftShrinks
  <1>3. CASE StartDialFails
    <2>1. /\ UNCHANGED <<current, startConn, wConn, worker>> /\ BeforeInstall
          /\ \/ UNCHANGED connVars
             \/ \E c \in Conns, s \in Servers : ConnectDrops(c, s)
      BY <1>3 DEF StartDialFails, BeforeInstall, IndInv, TypeOK
    <2>2. CASE UNCHANGED connVars
      BY <2>1, <2>2, LeftUntouched
    <2>3. ASSUME NEW c \in Conns, NEW s \in Servers, ConnectDrops(c, s) PROVE LeftInv'
      <3>1. PICK reads \in {"done", "recv"} : Opened(c, s, reads)
        BY <2>3 DEF ConnectDrops
      <3>3. orphans' = orphans \union {c} /\ TypeOK
        BY <2>3 DEF ConnectDrops, IndInv
      <3>2. (\A d \in Conns : LeftOpen(d)' => LeftOpen(d)) /\ (OpenAtSwap' => OpenAtSwap)
        BY <2>1, <3>1, <3>3, OpenedIsHeld DEF OpenAtSwap
      <3> QED BY <2>1, <3>2, LeftShrinks
    <2> QED BY <2>1, <2>2, <2>3
  <1>4. CASE Start \/ StartGivesUp \/ StartSwitches \/ StartMarksRunning \/ StartAnnounces
             \/ RegisterConnectionListener
    <2>1. /\ UNCHANGED <<isOpen, orphans, current, wConn, startConn>>
          /\ BeforeInstall' => BeforeInstall
          /\ worker' \in {"sendD", "swap"} => worker \in {"sendD", "swap"}
      BY <1>4 DEF Start, StartGivesUp, StartSwitches, StartMarksRunning, StartAnnounces,
         RegisterConnectionListener, BeforeInstall
    <2> QED BY <2>1, LeftUntouched
  <1> QED BY <1>1, <1>2, <1>3, <1>4 DEF Starter

(* reconnect replaces a connection it has closed, or the one Start assigned *)
(* after it had closed the one before.                                      *)
LEMMA LeftWorkerStep ==
    ASSUME IndInv, ConnInv, LeftInv, Worker \/ healthCheckFails
    PROVE  LeftInv'
  <1> USE DEF workerVars, starterVars, connVars, WorkerGoes, ReconnectGoes, ReconnectReturns
  <1>t. TypeOK
    BY DEF IndInv
  <1>1. CASE ReconnectInstalls
    <2>1. /\ worker = "swap" /\ worker' = "mark" /\ wConn \in Conns
          /\ current' = wConn /\ wConn' = NoConn
          /\ UNCHANGED <<isOpen, orphans, startConn, starter>>
      BY <1>1 DEF ReconnectInstalls, SetCurrent, IndInv, HasConnection
    <2>2. SwapMeetsStart'
      BY <2>1 DEF SwapMeetsStart, OpenAtSwap
    <2>3. CASE OpenAtSwap
      <3>1. ~BeforeInstall /\ \A c \in Conns : ~LeftOpen(c)
        BY <2>3 DEF LeftInv, SwapMeetsStart
      <3>2. \A c \in Conns : LeftOpen(c)' => c = current
        BY <2>1, <3>1 DEF LeftOpen
      <3> QED BY <2>1, <2>2, <3>1, <3>2 DEF LeftInv, LeftOpenOnce, BeforeInstall
    <2>4. CASE ~OpenAtSwap
      <3>1. \A c \in Conns : LeftOpen(c)' => LeftOpen(c)
        BY <2>1, <2>4, SetsAssumption DEF LeftOpen, OpenAtSwap
      <3> QED BY <2>1, <2>2, <3>1 DEF LeftInv, LeftOpenOnce
    <2> QED BY <2>3, <2>4
  <1>2. ASSUME NEW c \in Conns, NEW s \in Servers, ReconnectConnects(c, s) PROVE LeftInv'
    <2>1. /\ Opened(c, s, "recv") /\ UNCHANGED <<current, startConn, starter>> /\ worker' = "install"
          /\ orphans' = orphans \ {c} /\ wConn = NoConn /\ wConn' = c
      BY <1>2 DEF ReconnectConnects, connectToServer, ConnInv, NewConnection
    <2>2. \A d \in Conns : LeftOpen(d)' => LeftOpen(d)
      BY <2>1, <1>t, OpenedIsHeld
    <2>3. (BeforeInstall' => BeforeInstall) /\ ~OpenAtSwap'
      BY <2>1 DEF BeforeInstall, OpenAtSwap
    <2> QED BY <2>2, <2>3, LeftShrinks
  <1>3. CASE ReconnectDialFails
    <2>1. /\ UNCHANGED <<current, startConn, wConn, starter>> /\ worker' = "failed"
          /\ \/ UNCHANGED connVars
             \/ \E c \in Conns, s \in Servers : ConnectDrops(c, s)
      BY <1>3 DEF ReconnectDialFails
    <2>2. (BeforeInstall' => BeforeInstall) /\ ~OpenAtSwap'
      BY <2>1 DEF BeforeInstall, OpenAtSwap
    <2>3. CASE UNCHANGED connVars
      BY <2>1, <2>2, <2>3, LeftUntouched
    <2>4. ASSUME NEW c \in Conns, NEW s \in Servers, ConnectDrops(c, s) PROVE LeftInv'
      <3>1. PICK reads \in {"done", "recv"} : Opened(c, s, reads)
        BY <2>4 DEF ConnectDrops
      <3>3. orphans' = orphans \union {c}
        BY <2>4 DEF ConnectDrops
      <3>2. \A d \in Conns : LeftOpen(d)' => LeftOpen(d)
        BY <2>1, <3>1, <3>3, <1>t, OpenedIsHeld
      <3> QED BY <2>2, <3>2, LeftShrinks
    <2> QED BY <2>1, <2>3, <2>4
  <1>4. CASE ReconnectClosesPrev \/ ReconnectShutdown
    <2>1. /\ current \in Conns /\ closeConnection
          /\ UNCHANGED <<current, wConn, startConn, starter>>
      BY <1>4, <1>t DEF ReconnectClosesPrev, ReconnectShutdown, IndInv, HasConnection, TypeOK
    <2>2. (\A d \in Conns : LeftOpen(d)' => LeftOpen(d)) /\ ~OpenAtSwap'
      BY <2>1, <1>t, ClosedIsClosed DEF OpenAtSwap
    <2> QED BY <2>1, <2>2, LeftShrinks DEF BeforeInstall
  <1>5. CASE ReconnectAbandonsPrev
    <2>1. /\ UNCHANGED <<isOpen, orphans, current, wConn, startConn, starter>>
          /\ worker' = IF current = NoConn THEN "swap" ELSE "close"
      BY <1>5 DEF ReconnectAbandonsPrev
    <2>2. (\A d \in Conns : LeftOpen(d)' => LeftOpen(d)) /\ ~OpenAtSwap'
      BY <2>1 DEF LeftOpen, OpenAtSwap
    <2> QED BY <2>1, <2>2, LeftShrinks DEF BeforeInstall
  <1>6. CASE WorkerTakesReconnect \/ notifyServerSrvChange \/ WorkerSwitches \/ WorkerStops
             \/ healthCheckFails \/ healthCheckReconnects \/ ProbePasses \/ ProbeFails
             \/ ReconnectGivesUp \/ ReconnectNotifiesDown \/ ReconnectMarksRunning
             \/ ReconnectAnnounces \/ ReconnectRetries \/ ReconnectNotifiesLateDown
    <2>1. /\ UNCHANGED <<isOpen, orphans, current, wConn, startConn, starter>>
          /\ worker' \in {"sendD", "swap"} => worker \in {"sendD", "swap"}
      BY <1>6 DEF WorkerTakesReconnect, notifyServerSrvChange, WorkerSwitches, WorkerStops,
         healthCheckFails, healthCheckReconnects, ProbePasses, ProbeFails, ReconnectGivesUp,
         ReconnectNotifiesDown, ReconnectMarksRunning, ReconnectAnnounces, ReconnectRetries,
         ReconnectNotifiesLateDown
    <2> QED BY <2>1, LeftUntouched DEF BeforeInstall
  <1> QED BY <1>1, <1>2, <1>3, <1>4, <1>5, <1>6 DEF Worker

(* Shutdown closes the current connection; nobody else touches any. *)
LEMMA LeftOtherStep ==
    ASSUME IndInv, LeftInv,
           \/ EventLoop \/ Closer \/ Shutdown \/ SignalServerChange \/ ReceiverSwitches
           \/ \E c \in Conns : Receiver(c) \/ ReceiverReadsAbandon(c) \/ ResetArrives(c)
           \/ \E k \in Requesters : Request(k) \/ Call(k)
           \/ \E list \in SUBSET Servers : RefreshServerList(list)
           \/ UNCHANGED vars
    PROVE  LeftInv'
  <1> USE DEF workerVars, starterVars, connVars
  <1>1. CASE ShutdownCloses
    <2>1. /\ current \in Conns /\ closeConnection /\ TypeOK
          /\ UNCHANGED <<current, wConn, startConn, starter>>
      BY <1>1 DEF ShutdownCloses, CloserGoes, IndInv, TypeOK
    <2>2. (\A d \in Conns : LeftOpen(d)' => LeftOpen(d)) /\ ~OpenAtSwap'
      BY <2>1, ClosedIsClosed DEF OpenAtSwap
    <2> QED BY <2>1, <2>2, LeftShrinks DEF BeforeInstall
  <1>2. CASE UNCHANGED <<isOpen, orphans, current, wConn, startConn, starter, worker>>
    BY <1>2, LeftUntouched DEF BeforeInstall
  <1>3. CASE EventLoop
    BY <1>2, <1>3 DEF EventLoop, notifyConnectionEvent, RedoRequest, RedoDone, EventLoopStops,
       EventLoopGoes
  <1>4. CASE Closer \/ Shutdown
    BY <1>1, <1>2, <1>4 DEF Closer, Shutdown, ShutdownUnconnected, ShutdownNotifies,
       CancelContext, CloserGoes
  <1>5. CASE SignalServerChange \/ \E list \in SUBSET Servers : RefreshServerList(list)
    BY <1>2, <1>5 DEF SignalServerChange, RefreshServerList, RefresherKeeps
  <1>6. ASSUME NEW c \in Conns, Receiver(c) \/ ReceiverReadsAbandon(c) \/ ResetArrives(c)
        PROVE  LeftInv'
    BY <1>2, <1>6 DEF Receiver, ReceiverReadsAbandon, ResetArrives, ReceiverSwaps,
       ReceiverReturns, ResetLocks, ResetSwitches, ReceiverGoes
  <1>7. ASSUME NEW k \in Requesters, Request(k) \/ Call(k) PROVE LeftInv'
    BY <1>2, <1>7 DEF Request, Call, waitReconnect, RequestSucceeds, RequestUnregistered,
       UnregisteredLocks, UnregisteredLate, UnregisteredSwitches, RequestGivesUp,
       RequestFails, RequestSwitches, CallerGoes
  <1>8. CASE UNCHANGED vars
    BY <1>2, <1>8 DEF vars
  <1>9. CASE ReceiverSwitches
    BY <1>2, <1>9 DEF ReceiverSwitches
  <1> QED BY <1>3, <1>4, <1>5, <1>6, <1>7, <1>8, <1>9

(* With an endpoint too, reconnect and Start leave at most one connection    *)
(* open that was set up, and only when their assignments of                 *)
(* currentConnection cross; those connectToServer drops are not counted.    *)
THEOREM LeaksOnce == Spec => []LeftOpenOnce
  <1>1. Init => LeftInv
    BY DEF Init, LeftInv, LeftOpenOnce, SwapMeetsStart, OpenAtSwap, LeftOpen
  <1>2. IndInv /\ ConnInv /\ LeftInv /\ [Next]_vars => LeftInv'
    BY LeftStarterStep, LeftWorkerStep, LeftOtherStep DEF Next, Outside
  <1>3. LeftInv => LeftOpenOnce
    BY DEF LeftInv
  <1> QED BY <1>1, <1>2, <1>3, Inductive, ConnInductive, PTL DEF Spec

=============================================================================
