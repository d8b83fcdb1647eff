----------------------------- MODULE NamingHttp -----------------------------
(***************************************************************************)
(* The naming client's HTTP side put together: the token that every        *)
(* request carries (SecurityLogin) and the beats that are such requests    *)
(* (BeatReactor).  They share the server, which refuses a request without  *)
(* a token in date, the constructor and the context.                       *)
(***************************************************************************)
EXTENDS SecurityLogin, BeatReactor

vars == <<loginVars, beatVars>>

TypeOK == LoginTypeOK /\ BeatTypeOK

(* What ReqApi may come back with: any request can fail. *)
Answers == IF Authorized THEN {"ok", "error"} ELSE {"error"}

Init == LoginInit /\ BeatInit

Users ==
    /\ Constructed /\ ~Panicked
    /\ \/ \E n \in Names : RegisterInstance(n, Answers) \/ DeregisterInstance(n)
       \/ Close
    /\ UNCHANGED loginVars

Reactor == ~Panicked /\ (\E c \in Calls : SenderStep(c, Answers)) /\ UNCHANGED loginVars

Security ==
    /\ ~Panicked
    /\ LoginStep \/ TimePasses \/ (done /\ RefreshEnds)
    /\ UNCHANGED beatVars

Next == Users \/ Reactor \/ Security

Spec == Init /\ [][Next]_vars

(* The goroutines run, and the semaphore serves its waiters in order. *)
Fairness ==
    \A c \in Calls :
        /\ SF_vars(Acquire(c) /\ ~Panicked /\ UNCHANGED loginVars)
        /\ WF_vars(SenderStep(c, Answers) /\ ~Panicked /\ UNCHANGED loginVars)

FairSpec == Spec /\ Fairness

----------------------------------------------------------------------------
RoundTime == RefreshPeriod + ServerCount * Timeout

(* A request never carries an expired token, as long as the two windows     *)
(* hold the round that is due and the rounds that failed (a count below its *)
(* bound): "We refresh 2 windows before expiration to ensure continuous     *)
(* availability".                                                           *)
TokenInDate ==
    /\ refresher.pc # "gone" /\ TokenSent /\ failed < MaxFailed
    /\ Timeout + (failed + 1) * RoundTime <= 2 * tokenRefreshWindow
    => tokenAge < tokenTtl

(* A BeatInfo that is not shut down is the entry of its key and has one     *)
(* sender: an instance is never beaten for twice, nor by a sender that no   *)
(* RemoveBeatInfo can reach.                                                *)
OneSenderPerBeat ==
    \A c \in Senders : sender[c].beat \notin shutdown =>
        /\ beatMap[sender[c].key] = sender[c].beat
        /\ \A d \in Senders \ {c} : sender[d].key = sender[c].key => sender[d].beat \in shutdown

(* Until the client is closed the permits that are not free are those of    *)
(* the senders between Acquire and Release: none leaks on an error path and *)
(* Release never panics.                                                    *)
PermitsAccounted ==
    ~done => permits + Cardinality({c \in Calls : sender[c].pc \in {"check", "send"}}) = BeatThreadCount

(* The senders of a beat that was removed end, whatever the server answers  *)
(* and however many senders share the semaphore.                            *)
RemovedFallsSilent ==
    \A c \in Calls : sender[c].beat \in shutdown ~> sender[c].pc = "gone" \/ Panicked
=============================================================================
