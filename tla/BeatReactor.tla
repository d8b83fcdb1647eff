---------------------------- MODULE BeatReactor ----------------------------
(***************************************************************************)
(* The heartbeats of instances that are registered over HTTP:              *)
(* beat_reactor.go and what naming_http_proxy.go asks of it.  Each call of *)
(* AddBeatInfo starts a goroutine, a sender, numbered by the call; a       *)
(* BeatInfo has the number of the call it was made for.  ReqApi takes one  *)
(* step, answers or fails: Answers says what may come.                     *)
(* The delegate gives the HTTP proxy persistent instances only, which need *)
(* no beat; the reactor works for those who use NamingHttpProxy itself.    *)
(***************************************************************************)
EXTENDS Naturals, FiniteSets

CONSTANTS
    Names,             \* service names a user gives, as the times they have the group before them
    BeatThreadCount,   \* permits of the semaphore
    MaxBeats,          \* bound: calls of AddBeatInfo
    NoBeat

ASSUME BeatAssumption ==
    /\ Names \subseteq Nat
    /\ BeatThreadCount \in Nat \ {0} /\ MaxBeats \in Nat \ {0}
    /\ NoBeat \notin Nat

Calls == 1..MaxBeats

(* GetGroupName: the group and "@@" before the name, there or not.  The key *)
(* of buildKey is the name: there is one service, with one ip and port.     *)
GetGroupName(name) == name + 1
BeatKeys == {GetGroupName(n) : n \in Names} \union {GetGroupName(GetGroupName(n)) : n \in Names}

VARIABLES
    beatMap,    \* key -> BeatInfo, or NoBeat
    shutdown,   \* BeatInfos whose State is StateShutdown
    sender,     \* call -> [pc, key, beat]
    permits,    \* free permits of beatThreadSemaphore; more than all of them: it panics
    done,       \* the context is done
    beats       \* number of calls so far

beatVars == <<beatMap, shutdown, sender, permits, done, beats>>

NoSender == [pc |-> "none", key |-> 0, beat |-> NoBeat]

BeatTypeOK ==
    /\ beatMap \in [BeatKeys -> Calls \union {NoBeat}]
    /\ shutdown \subseteq Calls
    /\ sender \in [Calls -> [pc : {"acquire", "check", "send", "wait", "retry", "gone"}, key : BeatKeys,
                             beat : Calls] \union {NoSender}]
    /\ permits \in 0..BeatThreadCount + 1
    /\ done \in BOOLEAN
    /\ beats \in 0..MaxBeats

(* NewBeatReactor *)
BeatInit ==
    /\ beatMap = [k \in BeatKeys |-> NoBeat]
    /\ shutdown = {} /\ beats = 0
    /\ sender = [c \in Calls |-> NoSender]
    /\ permits = BeatThreadCount
    /\ done = FALSE

Panicked == permits > BeatThreadCount

(* Mutant: the entry is replaced and what was there is forgotten. *)
AddBeatForgets(k) ==
    LET b == beats + 1 IN
    /\ beats < MaxBeats /\ beats' = b
    /\ shutdown' = shutdown
    /\ beatMap' = [beatMap EXCEPT ![k] = b]
    /\ sender' = [sender EXCEPT ![b] = [pc |-> "acquire", key |-> k, beat |-> b]]
    /\ UNCHANGED <<permits, done>>

(* AddBeatInfo: of a key that is there already the old BeatInfo, marked     *)
(* Shutdown, is the one that is put back and given to the new sender.       *)
AddBeatInfo(k) ==
    LET b == IF beatMap[k] # NoBeat THEN beatMap[k] ELSE beats + 1 IN
    /\ beats < MaxBeats /\ beats' = beats + 1
    /\ shutdown' = IF beatMap[k] # NoBeat THEN shutdown \union {b} ELSE shutdown
    /\ beatMap' = [beatMap EXCEPT ![k] = b]
    /\ sender' = [sender EXCEPT ![beats + 1] = [pc |-> "acquire", key |-> k, beat |-> b]]
    /\ UNCHANGED <<permits, done>>

(* Mutant: RemoveBeatInfo without the look whether the key exists. *)
RemoveUnchecked(k) ==
    /\ shutdown' = shutdown \union {beatMap[k]}
    /\ beatMap' = [beatMap EXCEPT ![k] = NoBeat]
    /\ UNCHANGED <<sender, permits, done, beats>>

RemoveBeatInfo(k) ==
    /\ shutdown' = IF beatMap[k] # NoBeat THEN shutdown \union {beatMap[k]} ELSE shutdown
    /\ beatMap' = [beatMap EXCEPT ![k] = NoBeat]
    /\ UNCHANGED <<sender, permits, done, beats>>

(* NamingHttpProxy.RegisterInstance of an ephemeral instance, answered: the *)
(* group is put before the name twice.                                      *)
RegisterInstance(n, Answers) ==
    /\ "ok" \in Answers
    /\ AddBeatInfo(GetGroupName(GetGroupName(n)))

(* NamingHttpProxy.DeregisterInstance: its request comes after, and changes *)
(* nothing here.                                                            *)
DeregisterInstance(n) == RemoveBeatInfo(GetGroupName(n))

Moves(c, from, to) == sender[c].pc = from /\ sender' = [sender EXCEPT ![c].pc = to]

(* Acquire: its error, which comes at once when the context is done, is     *)
(* ignored.                                                                 *)
Acquire(c) ==
    /\ sender[c].pc = "acquire"
    /\ done \/ permits > 0
    /\ sender' = [sender EXCEPT ![c].pc = "check"]
    /\ permits' = IF done THEN permits ELSE permits - 1
    /\ UNCHANGED <<beatMap, shutdown, done, beats>>

(* Release, whether the permit is held or not, and on to the next pc. *)
Release(c, from, to) ==
    /\ sender[c].pc = from
    /\ sender' = [sender EXCEPT ![c].pc = to]
    /\ permits' = permits + 1
    /\ UNCHANGED <<beatMap, shutdown, done, beats>>

Stops(c) ==
    /\ sender[c].beat \in shutdown
    /\ Release(c, "check", "gone")

(* Mutant: the state is not looked at before the beat. *)
ContinuesAlways(c) ==
    /\ Moves(c, "check", "send")
    /\ UNCHANGED <<beatMap, shutdown, permits, done, beats>>

Continues(c) ==
    /\ sender[c].beat \notin shutdown
    /\ Moves(c, "check", "send")
    /\ UNCHANGED <<beatMap, shutdown, permits, done, beats>>

(* SendBeat answered.  An answer without an interval is an error, too. *)
SendBeat(c, Answers) ==
    /\ "ok" \in Answers
    /\ Release(c, "send", "wait")

(* Mutant: the permit of a beat that failed is kept. *)
BeatFailsKeeps(c) ==
    /\ Moves(c, "send", "retry")
    /\ UNCHANGED <<beatMap, shutdown, permits, done, beats>>

BeatFails(c) == Release(c, "send", "retry")

TimerFires(c) ==
    /\ Moves(c, "wait", "acquire") \/ Moves(c, "retry", "acquire")
    /\ UNCHANGED <<beatMap, shutdown, permits, done, beats>>

(* Only the wait after a beat that was answered looks at the context. *)
ContextDone(c) ==
    /\ done
    /\ Moves(c, "wait", "gone")
    /\ UNCHANGED <<beatMap, shutdown, permits, done, beats>>

(* NamingClient.CloseClient cancels the context. *)
Close ==
    /\ ~done /\ done' = TRUE
    /\ UNCHANGED <<beatMap, shutdown, sender, permits, beats>>

SenderStep(c, Answers) ==
    Acquire(c) \/ Stops(c) \/ Continues(c) \/ SendBeat(c, Answers) \/ BeatFails(c) \/ TimerFires(c)
        \/ ContextDone(c)

Senders == {c \in Calls : sender[c].pc \notin {"none", "gone"}}
=============================================================================
