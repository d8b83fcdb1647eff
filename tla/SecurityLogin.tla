--------------------------- MODULE SecurityLogin ---------------------------
(***************************************************************************)
(* The access token of the HTTP requests: NacosAuthClient under the        *)
(* SecurityProxy, which logs in once when the NacosServer is made and then *)
(* RefreshPeriod after the end of each round.  Time is counted in ticks;   *)
(* a try at one server answers within Timeout, and a timer fires on time.  *)
(* The server list is a given one: what an endpoint does to it is in       *)
(* RpcClient.                                                              *)
(***************************************************************************)
EXTENDS Naturals

CONSTANTS
    ServerCount,     \* len(serverCfgs)
    HasUser,         \* username # ""
    TokenTtls,       \* what a server may say of a token's life
    RefreshPeriod,   \* the proxy's timer, 5 s
    Timeout,         \* of one request
    MaxFailed,       \* bound: failed counts up to it
    NoToken

ASSUME LoginAssumption ==
    /\ ServerCount \in Nat \ {0} /\ HasUser \in BOOLEAN
    /\ TokenTtls \subseteq Nat \ {0}
    /\ \E n \in TokenTtls : \A m \in TokenTtls : m <= n   \* an int64
    /\ RefreshPeriod \in Nat \ {0} /\ Timeout \in Nat /\ MaxFailed \in Nat
    /\ NoToken \notin Nat

VARIABLES
    refresher,     \* the goroutine in Login: [pc, server, time]
    tokenTtl,      \* 0 before the first token
    sinceRefresh,  \* now - lastRefreshTime
    tokenAge,      \* external: time since the server issued accessToken, or NoToken
    failed         \* history: rounds since the last token that should have brought one

loginVars == <<refresher, tokenTtl, sinceRefresh, tokenAge, failed>>

Highest(S) == CHOOSE n \in S : \A m \in S : m <= n

(* Bound: the ages count up to here, which no comparison tells from more. *)
Forever == Highest(TokenTtls) + 1
Capped(n) == IF n > Forever THEN Forever ELSE n

tokenRefreshWindow == tokenTtl \div 10

LoginTypeOK ==
    /\ refresher \in [pc : {"new", "login", "wait", "gone"}, server : 1..ServerCount,
                      time : 0..RefreshPeriod + Timeout]
    /\ tokenTtl \in TokenTtls \union {0}
    /\ sinceRefresh \in 0..Forever
    /\ tokenAge \in (0..Forever) \union {NoToken}
    /\ failed \in 0..MaxFailed

(* NewNacosServer: the first round is made by the caller. *)
LoginInit ==
    /\ refresher = [pc |-> "new", server |-> 1, time |-> 0]
    /\ tokenTtl = 0 /\ sinceRefresh = 0 /\ tokenAge = NoToken /\ failed = 0

LoggingIn == refresher.pc \in {"new", "login"}
Constructed == refresher.pc # "new"

(* GetSecurityInfo, InjectSecurityInfo: a request has a token once there is *)
(* one, in date or not.  The server (external) refuses one out of date.     *)
TokenSent == tokenAge # NoToken
Authorized == HasUser => TokenSent /\ tokenAge < tokenTtl

(* The round is over: AutoRefresh sets its timer again. *)
RoundOver == refresher' = [pc |-> "wait", server |-> 1, time |-> RefreshPeriod]

RoundFails == failed' = IF failed < MaxFailed THEN failed + 1 ELSE failed

(* Mutant: one window, as NacosAuthClient's own AutoRefresh has it. *)
FreshOneWindow == tokenTtl > 0 /\ sinceRefresh < tokenTtl - tokenRefreshWindow

(* login finds the token in date but for two windows. *)
Fresh == tokenTtl > 0 /\ sinceRefresh < tokenTtl - 2 * tokenRefreshWindow

LoginSkips ==
    /\ LoggingIn /\ refresher.time = 0
    /\ Fresh \/ ~HasUser
    /\ RoundOver
    /\ sinceRefresh' = IF Fresh THEN sinceRefresh ELSE 0
    /\ UNCHANGED <<tokenTtl, tokenAge, failed>>

Asking == LoggingIn /\ HasUser /\ ~Fresh

(* login stores the token; the server issued it at some time in between. *)
LoginStores ==
    /\ Asking
    /\ \E ttl \in TokenTtls, age \in 0..refresher.time :
           tokenTtl' = ttl /\ tokenAge' = Capped(age)
    /\ sinceRefresh' = 0 /\ failed' = 0
    /\ RoundOver

(* An answer 200 without a token is taken for a success: no other server is *)
(* asked.                                                                   *)
LoginNoToken ==
    /\ Asking
    /\ RoundOver /\ RoundFails
    /\ UNCHANGED <<tokenTtl, sinceRefresh, tokenAge>>

(* Login: after an error the next server is asked, after the last one the   *)
(* proxy logs the error.  The next login looks at the clock again.          *)
LoginError ==
    /\ Asking
    /\ IF refresher.server < ServerCount
       THEN /\ refresher' = [refresher EXCEPT !.server = @ + 1, !.time = 0]
            /\ UNCHANGED failed
       ELSE RoundOver /\ RoundFails
    /\ UNCHANGED <<tokenTtl, sinceRefresh, tokenAge>>

AutoRefresh ==
    /\ refresher.pc = "wait" /\ refresher.time = 0
    /\ refresher' = [refresher EXCEPT !.pc = "login"]
    /\ UNCHANGED <<tokenTtl, sinceRefresh, tokenAge, failed>>

(* The context is done: seen only in the select of AutoRefresh. *)
RefreshEnds ==
    /\ refresher.pc = "wait"
    /\ refresher' = [refresher EXCEPT !.pc = "gone"]
    /\ UNCHANGED <<tokenTtl, sinceRefresh, tokenAge, failed>>

(* A timer that is due fires, a request whose time is over fails, first. *)
TimePasses ==
    /\ CASE refresher.pc = "wait" -> refresher.time > 0
         [] LoggingIn -> Asking /\ refresher.time < Timeout
         [] OTHER -> TRUE
    /\ refresher' = [refresher EXCEPT !.time = CASE refresher.pc = "wait" -> @ - 1
                                                 [] LoggingIn -> @ + 1
                                                 [] OTHER -> @]
    /\ sinceRefresh' = Capped(sinceRefresh + 1)
    /\ tokenAge' = IF TokenSent THEN Capped(tokenAge + 1) ELSE NoToken
    /\ UNCHANGED <<tokenTtl, failed>>

LoginStep == LoginSkips \/ LoginStores \/ LoginNoToken \/ LoginError \/ AutoRefresh
=============================================================================
