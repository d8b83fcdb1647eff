-------------------------- MODULE NamingHttpProofs --------------------------
(***************************************************************************)
(* Proofs about NamingHttp for any number of servers, calls and permits,   *)
(* any lives of tokens and any timeouts.  The token and the beats share no *)
(* variable that the other one writes: each has an inductive invariant of  *)
(* its own.  TokenInDate needs a clock of the round under way, relating    *)
(* the ages to the failed rounds and to where the refresher is;            *)
(* PermitsAccounted needs that a sender not started yet holds no permit.   *)
(***************************************************************************)
EXTENDS NamingHttp, FiniteSetTheorems, TLAPS

(* Time since the last round ended. *)
Elapsed ==
    IF refresher.pc = "wait" THEN RefreshPeriod - refresher.time
    ELSE RefreshPeriod + (refresher.server - 1) * Timeout + refresher.time

(* The clocks: a timer and a request are within their times, a token is at  *)
(* most one request older than lastRefreshTime, and a token that was in     *)
(* date but for two windows has aged by the failed rounds and this one.     *)
RoundClock ==
    /\ refresher.pc = "wait" => refresher.server = 1 /\ refresher.time <= RefreshPeriod
    /\ LoggingIn => refresher.time <= Timeout
    /\ TokenSent => HasUser /\ tokenTtl \in TokenTtls
    /\ refresher.pc # "gone" /\ TokenSent =>
        /\ tokenAge <= sinceRefresh + Timeout
        /\ failed < MaxFailed =>
               sinceRefresh < tokenTtl - 2 * tokenRefreshWindow + failed * RoundTime + Elapsed

LoginInv == LoginTypeOK /\ RoundClock

(* The goroutine of a call that was not made does not run. *)
SendersStarted == \A c \in Calls : c > beats => sender[c].pc = "none"

BeatInv == BeatTypeOK /\ SendersStarted /\ OneSenderPerBeat /\ PermitsAccounted

-----------------------------------------------------------------------------
(* The highest of the lives a token may have is one of them.               *)
LEMMA ForeverIsLonger ==
    Forever \in Nat /\ \A ttl \in TokenTtls : ttl < Forever
  <1>1. PICK n \in TokenTtls : \A m \in TokenTtls : m <= n
    BY LoginAssumption
  <1>2. Highest(TokenTtls) \in TokenTtls /\ \A m \in TokenTtls : m <= Highest(TokenTtls)
    BY <1>1 DEF Highest
  <1>3. \A ttl \in TokenTtls : ttl \in Nat
    BY LoginAssumption
  <1>4. ASSUME NEW h \in Nat, \A m \in TokenTtls : m <= h
        PROVE  h + 1 \in Nat /\ \A ttl \in TokenTtls : ttl < h + 1
    BY <1>3, <1>4
  <1> QED BY <1>2, <1>3, <1>4 DEF Forever

(* An age that is capped is an age, and not more than it was.              *)
LEMMA CappedAge ==
    ASSUME NEW n \in Nat
    PROVE  Capped(n) \in 0..Forever /\ Capped(n) <= n
  BY ForeverIsLonger DEF Capped

(* The time of a round grows with the servers asked and the rounds failed: *)
(* the products of RoundTime, one step at a time.                          *)
LEMMA RoundArithmetic ==
    /\ RoundTime \in Nat
    /\ \A f \in Nat : f * RoundTime \in Nat /\ (f + 1) * RoundTime = f * RoundTime + RoundTime
    /\ \A i \in 1..ServerCount :
           /\ (i - 1) * Timeout \in Nat
           /\ i * Timeout = (i - 1) * Timeout + Timeout
           /\ i * Timeout <= ServerCount * Timeout
  <1>1. ServerCount * Timeout \in Nat /\ RoundTime \in Nat
    BY LoginAssumption DEF RoundTime
  <1>2. \A a, b \in Nat : a * b \in Nat /\ (a + 1) * b = a * b + b
    OBVIOUS
  <1>3. ASSUME NEW i \in 1..ServerCount
        PROVE  /\ (i - 1) * Timeout \in Nat
               /\ i * Timeout = (i - 1) * Timeout + Timeout
               /\ i * Timeout <= ServerCount * Timeout
    <2>1. i - 1 \in Nat /\ i \in Nat /\ ServerCount - i \in Nat /\ Timeout \in Nat
      BY LoginAssumption
    <2>2. (i - 1) * Timeout \in Nat /\ i * Timeout = (i - 1) * Timeout + Timeout
      BY <2>1, <1>2
    <2>3. (ServerCount - i) * Timeout \in Nat
      BY <2>1, <1>2
    <2>4. ServerCount * Timeout = i * Timeout + (ServerCount - i) * Timeout
      <3>1. \A a, b, c \in Nat : (a + b) * c = a * c + b * c
        OBVIOUS
      <3>2. i + (ServerCount - i) = ServerCount
        BY <2>1, LoginAssumption
      <3> QED BY <2>1, <3>1, <3>2
    <2> QED BY <1>1, <2>1, <2>2, <2>3, <2>4
  <1> QED BY <1>1, <1>2, <1>3

(* A window is a tenth of a token's life: two of them leave some of it.    *)
LEMMA WindowsLeaveTime ==
    ASSUME tokenTtl \in TokenTtls
    PROVE  tokenRefreshWindow \in Nat /\ 0 < tokenTtl - 2 * tokenRefreshWindow
  BY LoginAssumption DEF tokenRefreshWindow

-----------------------------------------------------------------------------
(* The token. *)

(* Nobody has a token when the client is made. *)
LEMMA LoginInvInit == LoginInit => LoginInv
  <1> SUFFICES ASSUME LoginInit PROVE LoginInv
    OBVIOUS
  <1>1. LoginTypeOK
    BY LoginAssumption, ForeverIsLonger DEF LoginInit, LoginTypeOK
  <1>2. RoundClock
    BY LoginAssumption DEF LoginInit, RoundClock, TokenSent, LoggingIn
  <1> QED BY <1>1, <1>2 DEF LoginInv

(* A round that ends keeps the types: the timer is set, the first server is *)
(* next, and the count of failed rounds stays below its bound.              *)
LEMMA RoundOverTyped ==
    ASSUME LoginInv, RoundOver
    PROVE  /\ refresher' \in [pc : {"new", "login", "wait", "gone"}, server : 1..ServerCount,
                              time : 0..RefreshPeriod + Timeout]
           /\ refresher'.pc = "wait" /\ refresher'.server = 1 /\ refresher'.time = RefreshPeriod
           /\ Elapsed' = 0
  BY LoginAssumption DEF RoundOver, Elapsed

(* Login skipping the round, because the token is fresh or nobody logs in, *)
(* keeps the clocks.                                                       *)
LEMMA SkipKeepsClock ==
    ASSUME LoginInv, LoginSkips
    PROVE  LoginInv'
  <1> USE DEF LoginInv
  <1>1. RoundOver /\ UNCHANGED <<tokenTtl, tokenAge, failed>>
    BY DEF LoginSkips
  <1>2. LoginTypeOK'
    BY <1>1, RoundOverTyped, ForeverIsLonger DEF LoginSkips, LoginTypeOK
  <1>3. CASE TokenSent
    <2>1. Fresh /\ sinceRefresh' = sinceRefresh
      BY <1>3 DEF LoginSkips, RoundClock
    <2>2. tokenRefreshWindow \in Nat /\ tokenTtl \in Nat /\ tokenRefreshWindow' = tokenRefreshWindow
      BY <1>1, <1>3, WindowsLeaveTime, LoginAssumption DEF RoundClock, tokenRefreshWindow
    <2>3. failed * RoundTime \in Nat /\ failed' * RoundTime = failed * RoundTime
      BY <1>1, RoundArithmetic, LoginAssumption DEF LoginTypeOK
    <2>4. sinceRefresh' < tokenTtl' - 2 * tokenRefreshWindow' + failed' * RoundTime + Elapsed'
      BY <1>1, <2>1, <2>2, <2>3, RoundOverTyped DEF Fresh, LoginTypeOK
    <2>5. tokenAge' <= sinceRefresh' + Timeout
      BY <1>1, <1>3, <2>1, <2>4 DEF LoginSkips, LoggingIn, RoundClock
    <2> QED BY <1>1, <1>2, <1>3, <2>4, <2>5, RoundOverTyped, LoginAssumption
              DEF RoundClock, TokenSent, LoggingIn
  <1>4. CASE ~TokenSent
    BY <1>1, <1>2, <1>4, RoundOverTyped, LoginAssumption DEF RoundClock, TokenSent, LoggingIn
  <1> QED BY <1>3, <1>4

(* A new token starts the clocks. *)
LEMMA StoreStartsClock ==
    ASSUME LoginInv, LoginStores
    PROVE  LoginInv'
  <1> USE DEF LoginInv
  <1>1. PICK ttl \in TokenTtls, age \in 0..refresher.time :
            tokenTtl' = ttl /\ tokenAge' = Capped(age)
    BY DEF LoginStores
  <1>2. RoundOver /\ sinceRefresh' = 0 /\ failed' = 0 /\ HasUser /\ LoggingIn
    BY DEF LoginStores, Asking
  <1>3. refresher.time \in Nat /\ refresher.time <= Timeout
    BY <1>2, LoginAssumption DEF LoginTypeOK, RoundClock
  <1>4. tokenAge' \in 0..Forever /\ tokenAge' <= Timeout
    <2>1. age \in Nat /\ age <= Timeout
      BY <1>3, LoginAssumption
    <2> QED BY <1>1, <2>1, CappedAge, ForeverIsLonger, LoginAssumption
  <1>5. LoginTypeOK'
    BY <1>1, <1>2, <1>4, RoundOverTyped, ForeverIsLonger, LoginAssumption DEF LoginTypeOK
  <1>6. tokenRefreshWindow' \in Nat /\ 0 < tokenTtl' - 2 * tokenRefreshWindow'
    BY <1>1, LoginAssumption DEF tokenRefreshWindow
  <1>7. sinceRefresh' < tokenTtl' - 2 * tokenRefreshWindow' + failed' * RoundTime + Elapsed'
    <2>1. failed' * RoundTime = 0
      BY <1>2, RoundArithmetic
    <2>2. tokenTtl' \in Nat /\ Elapsed' = 0 /\ sinceRefresh' = 0
      BY <1>1, <1>2, RoundOverTyped, LoginAssumption
    <2> HIDE DEF LoginInv
    <2>3. \A t, w \in Nat : 0 < t - 2 * w => 0 < t - 2 * w + 0 + 0
      OBVIOUS
    <2> QED BY <1>6, <2>1, <2>2, <2>3, Zenon
  <1> QED BY <1>1, <1>2, <1>4, <1>5, <1>7, RoundOverTyped, LoginAssumption
            DEF RoundClock, LoggingIn

(* A round that ends without a token is counted: its time moves from the   *)
(* clock of the round to the failed ones.                                  *)
LEMMA FailureIsCounted ==
    ASSUME LoginInv, Asking, RoundOver, RoundFails, UNCHANGED <<tokenTtl, sinceRefresh, tokenAge>>
    PROVE  LoginInv'
  <1> USE DEF LoginInv
  <1>1. LoginTypeOK'
    BY RoundOverTyped, LoginAssumption DEF LoginTypeOK, RoundFails
  <1>2. ASSUME TokenSent, failed' < MaxFailed
        PROVE  sinceRefresh' < tokenTtl' - 2 * tokenRefreshWindow' + failed' * RoundTime + Elapsed'
    <2>1. failed \in Nat /\ failed' = failed + 1 /\ failed < MaxFailed
      BY <1>2, LoginAssumption DEF RoundFails, LoginTypeOK
    <2>2. /\ tokenRefreshWindow \in Nat /\ tokenTtl \in Nat /\ tokenRefreshWindow' = tokenRefreshWindow
          /\ sinceRefresh \in Nat
      BY <1>2, WindowsLeaveTime, LoginAssumption, ForeverIsLonger
      DEF RoundClock, tokenRefreshWindow, LoginTypeOK
    <2>3. /\ failed * RoundTime \in Nat
          /\ failed' * RoundTime = failed * RoundTime + RoundTime
      BY <2>1, RoundArithmetic
    <2>4. sinceRefresh < tokenTtl - 2 * tokenRefreshWindow + failed * RoundTime + Elapsed
      BY <1>2, <2>1 DEF RoundClock, Asking, LoggingIn
    <2>5. Elapsed \in Nat /\ Elapsed <= RoundTime
      <3>1. refresher.server \in 1..ServerCount /\ refresher.time \in Nat /\ refresher.time <= Timeout
        BY LoginAssumption DEF LoginTypeOK, RoundClock, Asking
      <3>2. Elapsed = RefreshPeriod + (refresher.server - 1) * Timeout + refresher.time
        BY DEF Elapsed, Asking, LoggingIn
      <3> HIDE DEF LoginInv
      <3>3. /\ (refresher.server - 1) * Timeout \in Nat
            /\ (refresher.server - 1) * Timeout + Timeout <= ServerCount * Timeout
            /\ ServerCount * Timeout \in Nat
        BY <3>1, RoundArithmetic, LoginAssumption
      <3> QED BY <3>1, <3>2, <3>3, LoginAssumption DEF RoundTime
    <2> QED BY <2>2, <2>3, <2>4, <2>5, RoundOverTyped, RoundArithmetic
  <1> QED BY <1>1, <1>2, RoundOverTyped, LoginAssumption DEF RoundClock, TokenSent, LoggingIn, Asking

(* After an error the next server is asked, after the last one the round   *)
(* has failed.                                                             *)
LEMMA ErrorKeepsClock ==
    ASSUME LoginInv, LoginError
    PROVE  LoginInv'
  <1> USE DEF LoginInv
  <1>1. CASE refresher.server < ServerCount
    <2>1. /\ refresher' = [refresher EXCEPT !.server = refresher.server + 1, !.time = 0]
          /\ UNCHANGED <<tokenTtl, sinceRefresh, tokenAge, failed>>
          /\ LoggingIn
      BY <1>1 DEF LoginError, Asking
    <2>2. /\ refresher.server \in 1..ServerCount /\ refresher.time \in Nat
          /\ refresher.time <= Timeout
          /\ refresher'.server = refresher.server + 1 /\ refresher'.time = 0
          /\ refresher'.pc = refresher.pc
      BY <2>1, LoginAssumption DEF LoginTypeOK, RoundClock
    <2>3. LoginTypeOK'
      <3>1. refresher' \in [pc : {"new", "login", "wait", "gone"}, server : 1..ServerCount,
                            time : 0..RefreshPeriod + Timeout]
        <4>1. refresher.server + 1 \in 1..ServerCount /\ 0 \in 0..RefreshPeriod + Timeout
          BY <1>1, <2>2, LoginAssumption
        <4> QED BY <2>1, <4>1 DEF LoginTypeOK
      <3> QED BY <2>1, <3>1 DEF LoginTypeOK
    <2>4. Elapsed \in Nat /\ Elapsed' \in Nat /\ Elapsed <= Elapsed'
      <3>1. /\ Elapsed = RefreshPeriod + (refresher.server - 1) * Timeout + refresher.time
            /\ Elapsed' = RefreshPeriod + (refresher.server + 1 - 1) * Timeout + 0
        BY <2>1, <2>2 DEF Elapsed, LoggingIn
      <3>2. refresher.server + 1 - 1 = refresher.server
        BY <2>2, LoginAssumption
      <3> HIDE DEF LoginInv
      <3>3. /\ (refresher.server - 1) * Timeout \in Nat
            /\ refresher.server * Timeout = (refresher.server - 1) * Timeout + Timeout
        BY <2>2, RoundArithmetic
      <3> QED BY <2>2, <3>1, <3>2, <3>3, LoginAssumption
    <2>5. ASSUME TokenSent, failed < MaxFailed
          PROVE  sinceRefresh < tokenTtl - 2 * tokenRefreshWindow + failed * RoundTime + Elapsed'
      <3>1. tokenRefreshWindow \in Nat /\ tokenTtl \in Nat /\ sinceRefresh \in Nat /\ failed \in Nat
        BY <2>5, WindowsLeaveTime, LoginAssumption, ForeverIsLonger DEF RoundClock, LoginTypeOK
      <3>2. sinceRefresh < tokenTtl - 2 * tokenRefreshWindow + failed * RoundTime + Elapsed
        BY <2>1, <2>5 DEF RoundClock, LoggingIn
      <3>3. failed * RoundTime \in Nat
        BY <3>1, RoundArithmetic
      <3> HIDE DEF LoginInv
      <3> QED BY <2>4, <3>1, <3>2, <3>3
    <2>6. TokenSent' = TokenSent /\ LoggingIn' = LoggingIn /\ tokenRefreshWindow' = tokenRefreshWindow
      BY <2>1, <2>2 DEF TokenSent, LoggingIn, tokenRefreshWindow
    <2>7. RoundClock'
      BY <2>1, <2>2, <2>5, <2>6, LoginAssumption DEF RoundClock, LoggingIn
    <2> QED BY <2>3, <2>7
  <1>2. CASE ~(refresher.server < ServerCount)
    BY <1>2, FailureIsCounted DEF LoginError
  <1> QED BY <1>1, <1>2

(* The timer fires on time: the first server is asked at once. *)
LEMMA TimerKeepsClock ==
    ASSUME LoginInv, AutoRefresh
    PROVE  LoginInv'
  <1> USE DEF LoginInv
  <1>1. /\ refresher' = [refresher EXCEPT !.pc = "login"]
        /\ UNCHANGED <<tokenTtl, sinceRefresh, tokenAge, failed>>
        /\ refresher.pc = "wait" /\ refresher.time = 0 /\ refresher.server = 1
    BY DEF AutoRefresh, RoundClock
  <1>2. LoginTypeOK'
    BY <1>1 DEF LoginTypeOK
  <1>3. refresher'.pc = "login" /\ refresher'.time = 0 /\ refresher'.server = 1
    BY <1>1 DEF LoginTypeOK
  <1>4. Elapsed' = Elapsed
    BY <1>1, <1>3, LoginAssumption DEF Elapsed
  <1> QED BY <1>1, <1>2, <1>3, <1>4, LoginAssumption
            DEF RoundClock, TokenSent, LoggingIn, tokenRefreshWindow

(* While time passes the ages grow no faster than the clock of the round.  *)
LEMMA TimeKeepsClock ==
    ASSUME LoginInv, TimePasses
    PROVE  LoginInv'
  <1> USE DEF LoginInv
  <1>1. /\ sinceRefresh' = Capped(sinceRefresh + 1)
        /\ tokenAge' = IF TokenSent THEN Capped(tokenAge + 1) ELSE NoToken
        /\ UNCHANGED <<tokenTtl, failed>>
    BY DEF TimePasses
  <1>2. sinceRefresh \in Nat /\ sinceRefresh' \in 0..Forever /\ sinceRefresh' <= sinceRefresh + 1
    BY <1>1, CappedAge, ForeverIsLonger DEF LoginTypeOK
  <1>3. ASSUME TokenSent
        PROVE  /\ tokenAge \in Nat /\ tokenAge' \in 0..Forever
               /\ tokenAge <= sinceRefresh + Timeout => tokenAge' <= sinceRefresh' + Timeout
    BY <1>1, <1>2, <1>3, ForeverIsLonger, LoginAssumption DEF LoginTypeOK, TokenSent, Capped
  <1>4. TokenSent' = TokenSent /\ tokenRefreshWindow' = tokenRefreshWindow
    BY <1>1, <1>3, LoginAssumption, ForeverIsLonger DEF TokenSent, tokenRefreshWindow
  <1>5. tokenAge' \in (0..Forever) \union {NoToken}
    BY <1>1, <1>3
  <1>6. refresher.time \in Nat /\ refresher.server \in 1..ServerCount
    BY LoginAssumption DEF LoginTypeOK
  <1>7. CASE refresher.pc = "wait"
    <2>1. refresher' = [refresher EXCEPT !.time = refresher.time - 1] /\ refresher.time > 0
      BY <1>7 DEF TimePasses, LoggingIn
    <2>2. /\ refresher'.pc = "wait" /\ refresher'.server = refresher.server
          /\ refresher'.time = refresher.time - 1
      BY <1>7, <2>1 DEF LoginTypeOK
    <2>3. LoginTypeOK'
      BY <1>1, <1>2, <1>5, <2>1, LoginAssumption DEF LoginTypeOK
    <2>4. Elapsed' = Elapsed + 1 /\ Elapsed \in Int
      BY <1>6, <1>7, <2>2, LoginAssumption DEF Elapsed
    <2>5. ASSUME TokenSent, failed < MaxFailed
          PROVE  sinceRefresh' < tokenTtl' - 2 * tokenRefreshWindow' + failed' * RoundTime + Elapsed'
      <3>1. tokenRefreshWindow \in Nat /\ tokenTtl \in Nat /\ failed \in Nat
        BY <2>5, WindowsLeaveTime, LoginAssumption DEF RoundClock, LoginTypeOK
      <3>2. sinceRefresh < tokenTtl - 2 * tokenRefreshWindow + failed * RoundTime + Elapsed
        BY <1>7, <2>5 DEF RoundClock
      <3>3. failed * RoundTime \in Nat
        BY <3>1, RoundArithmetic
      <3> HIDE DEF LoginInv
      <3> QED BY <1>1, <1>2, <1>4, <2>4, <3>1, <3>2, <3>3
    <2>6. RoundClock'
      BY <1>1, <1>3, <1>4, <1>6, <1>7, <2>2, <2>5, LoginAssumption DEF RoundClock, LoggingIn
    <2> QED BY <2>3, <2>6
  <1>8. CASE LoggingIn
    <2>1. /\ refresher' = [refresher EXCEPT !.time = refresher.time + 1] /\ refresher.time < Timeout
          /\ refresher.pc # "wait"
      BY <1>8 DEF TimePasses, LoggingIn
    <2>2. /\ refresher'.pc = refresher.pc /\ refresher'.server = refresher.server
          /\ refresher'.time = refresher.time + 1
      BY <2>1 DEF LoginTypeOK
    <2>3. LoginTypeOK'
      <3>1. refresher' \in [pc : {"new", "login", "wait", "gone"}, server : 1..ServerCount,
                            time : 0..RefreshPeriod + Timeout]
        BY <1>6, <2>1, LoginAssumption DEF LoginTypeOK
      <3> QED BY <1>1, <1>2, <1>5, <3>1, LoginAssumption DEF LoginTypeOK
    <2>4. Elapsed' = Elapsed + 1 /\ Elapsed \in Int
      <3>1. (refresher.server - 1) * Timeout \in Nat
        BY <1>6, RoundArithmetic
      <3>2. /\ Elapsed = RefreshPeriod + (refresher.server - 1) * Timeout + refresher.time
            /\ Elapsed' = RefreshPeriod + (refresher.server - 1) * Timeout + (refresher.time + 1)
        BY <2>1, <2>2 DEF Elapsed
      <3> QED BY <1>6, <3>1, <3>2, LoginAssumption
    <2>5. ASSUME TokenSent, failed < MaxFailed
          PROVE  sinceRefresh' < tokenTtl' - 2 * tokenRefreshWindow' + failed' * RoundTime + Elapsed'
      <3>1. tokenRefreshWindow \in Nat /\ tokenTtl \in Nat /\ failed \in Nat
        BY <2>5, WindowsLeaveTime, LoginAssumption DEF RoundClock, LoginTypeOK
      <3>2. sinceRefresh < tokenTtl - 2 * tokenRefreshWindow + failed * RoundTime + Elapsed
        BY <1>8, <2>5 DEF RoundClock, LoggingIn
      <3>3. failed * RoundTime \in Nat
        BY <3>1, RoundArithmetic
      <3> HIDE DEF LoginInv
      <3> QED BY <1>1, <1>2, <1>4, <2>4, <3>1, <3>2, <3>3
    <2>6. RoundClock'
      BY <1>1, <1>3, <1>4, <1>6, <1>8, <2>1, <2>2, <2>5, LoginAssumption DEF RoundClock, LoggingIn
    <2> QED BY <2>3, <2>6
  <1>9. CASE refresher.pc # "wait" /\ ~LoggingIn
    <2>1. refresher' = refresher /\ refresher.pc = "gone"
      BY <1>9 DEF TimePasses, LoggingIn, LoginTypeOK
    <2> QED BY <1>1, <1>2, <1>4, <1>5, <2>1, LoginAssumption DEF LoginTypeOK, RoundClock, LoggingIn
  <1> QED BY <1>7, <1>8, <1>9

(* Every step of the security side keeps the clocks. *)
LEMMA SecurityStep ==
    ASSUME LoginInv, Security
    PROVE  LoginInv'
  <1>1. CASE LoginNoToken
    BY <1>1, FailureIsCounted DEF LoginNoToken
  <1>2. CASE RefreshEnds
    <2>1. LoginTypeOK' /\ refresher'.pc = "gone"
      BY <1>2 DEF RefreshEnds, LoginInv, LoginTypeOK
    <2> QED BY <1>2, <2>1 DEF RefreshEnds, LoginInv, RoundClock, TokenSent, LoggingIn
  <1> QED BY <1>1, <1>2, SkipKeepsClock, StoreStartsClock, ErrorKeepsClock, TimerKeepsClock,
             TimeKeepsClock DEF Security, LoginStep

-----------------------------------------------------------------------------
(* The beats. *)

(* The senders between Acquire and Release. *)
Holders == {c \in Calls : sender[c].pc \in {"check", "send"}}

(* There are finitely many senders, so that the holders can be counted.    *)
LEMMA HoldersFinite ==
    ASSUME NEW S, S \subseteq Calls
    PROVE  IsFiniteSet(S) /\ Cardinality(S) \in Nat
  <1>1. IsFiniteSet(Calls)
    BY FS_Interval, BeatAssumption DEF Calls
  <1>2. IsFiniteSet(S)
    BY <1>1, FS_Subset
  <1> QED BY <1>2, FS_CardinalityType

(* No beat is sent when the client is made. *)
LEMMA BeatInvInit == BeatInit => BeatInv
  <1> SUFFICES ASSUME BeatInit PROVE BeatInv
    OBVIOUS
  <1>1. BeatTypeOK
    <2>1. permits \in 0..BeatThreadCount + 1 /\ beats \in 0..MaxBeats
      BY BeatAssumption DEF BeatInit
    <2> QED BY <2>1 DEF BeatInit, BeatTypeOK
  <1>2. SendersStarted /\ OneSenderPerBeat
    BY DEF BeatInit, SendersStarted, OneSenderPerBeat, Senders, NoSender
  <1>3. PermitsAccounted
    <2>1. Holders = {}
      BY DEF BeatInit, NoSender, Holders
    <2>2. Cardinality(Holders) = 0
      BY <2>1, FS_EmptySet
    <2> QED BY <2>2, BeatAssumption DEF BeatInit, PermitsAccounted, Holders
  <1> QED BY <1>1, <1>2, <1>3 DEF BeatInv

(* What is known of a sender that runs: its key and its BeatInfo are there. *)
LEMMA SendersHaveBeats ==
    ASSUME BeatTypeOK, NEW c \in Senders
    PROVE  c \in Calls /\ sender[c].key \in BeatKeys /\ sender[c].beat \in Calls /\ sender[c].beat # NoBeat
  <1>1. c \in Calls /\ sender[c].pc # "none"
    BY DEF Senders
  <1>2. sender[c] # NoSender
    BY <1>1 DEF NoSender
  <1>3. sender[c] \in [pc : {"acquire", "check", "send", "wait", "retry", "gone"}, key : BeatKeys,
                      beat : Calls]
    BY <1>1, <1>2 DEF BeatTypeOK
  <1>4. NoBeat \notin Calls
    BY BeatAssumption DEF Calls
  <1> QED BY <1>1, <1>3, <1>4

(* Both names a user's name is turned into are keys. *)
LEMMA NamesAreKeys ==
    ASSUME NEW n \in Names
    PROVE  GetGroupName(n) \in BeatKeys /\ GetGroupName(GetGroupName(n)) \in BeatKeys
  BY DEF BeatKeys

(* AddBeatInfo: what was there for the key is shut down with its senders,  *)
(* and the new goroutine waits for a permit.                               *)
LEMMA AddKeepsBeats ==
    ASSUME BeatInv, NEW k \in BeatKeys, AddBeatInfo(k)
    PROVE  BeatInv'
  <1> DEFINE b == IF beatMap[k] # NoBeat THEN beatMap[k] ELSE beats + 1
  <1>1. /\ beats < MaxBeats /\ beats' = beats + 1
        /\ shutdown' = IF beatMap[k] # NoBeat THEN shutdown \union {b} ELSE shutdown
        /\ beatMap' = [beatMap EXCEPT ![k] = b]
        /\ sender' = [sender EXCEPT ![beats + 1] = [pc |-> "acquire", key |-> k, beat |-> b]]
        /\ permits' = permits /\ done' = done
    BY DEF AddBeatInfo
  <1>2. beats \in Nat /\ beats + 1 \in Calls /\ b \in Calls
    BY <1>1, BeatAssumption DEF BeatInv, BeatTypeOK, Calls
  <1> HIDE DEF b
  <1>3. BeatTypeOK'
    <2>1. sender'[beats + 1] \in [pc : {"acquire", "check", "send", "wait", "retry", "gone"},
                                  key : BeatKeys, beat : Calls]
      BY <1>1, <1>2 DEF BeatInv, BeatTypeOK
    <2>2. \A c \in Calls \ {beats + 1} : sender'[c] = sender[c]
      BY <1>1, <1>2 DEF BeatInv, BeatTypeOK
    <2>3. sender' \in [Calls -> [pc : {"acquire", "check", "send", "wait", "retry", "gone"},
                                 key : BeatKeys, beat : Calls] \union {NoSender}]
      BY <1>1, <1>2, <2>1, <2>2 DEF BeatInv, BeatTypeOK
    <2>4. beatMap' \in [BeatKeys -> Calls \union {NoBeat}] /\ shutdown' \subseteq Calls
      BY <1>1, <1>2 DEF BeatInv, BeatTypeOK
    <2>5. beats' \in 0..MaxBeats
      BY <1>1, <1>2, BeatAssumption
    <2> QED BY <1>1, <2>3, <2>4, <2>5 DEF BeatInv, BeatTypeOK
  <1>4. /\ sender'[beats + 1] = [pc |-> "acquire", key |-> k, beat |-> b]
        /\ \A c \in Calls \ {beats + 1} : sender'[c] = sender[c]
    BY <1>1, <1>2 DEF BeatInv, BeatTypeOK
  <1>5. SendersStarted'
    <2>1. \A c \in Calls : c > beats + 1 => c \in Calls \ {beats + 1} /\ c > beats
      BY <1>2 DEF Calls
    <2> QED BY <1>1, <1>4, <2>1 DEF BeatInv, SendersStarted
  <1>6. \A c \in Senders \ {beats + 1} : sender[c].key = k => sender[c].beat \in shutdown'
    <2> SUFFICES ASSUME NEW c \in Senders, sender[c].key = k, sender[c].beat \notin shutdown'
                 PROVE  FALSE
      OBVIOUS
    <2>1. sender[c].beat \notin shutdown
      BY <1>1
    <2>2. beatMap[k] = sender[c].beat
      BY <2>1 DEF BeatInv, OneSenderPerBeat
    <2>3. beatMap[k] # NoBeat
      BY <2>2, SendersHaveBeats DEF BeatInv
    <2> QED BY <1>1, <2>2, <2>3 DEF b
  <1>7. OneSenderPerBeat'
    <2> SUFFICES ASSUME NEW c \in Senders', sender'[c].beat \notin shutdown'
                 PROVE  /\ beatMap'[sender'[c].key] = sender'[c].beat
                        /\ \A d \in Senders' \ {c} :
                               sender'[d].key = sender'[c].key => sender'[d].beat \in shutdown'
      BY DEF OneSenderPerBeat
    <2>1. Senders' \ {beats + 1} = Senders \ {beats + 1}
      BY <1>4 DEF Senders
    <2>2. CASE c = beats + 1
      <3>1. sender'[c].key = k /\ sender'[c].beat = b
        BY <1>4, <2>2
      <3>2. beatMap'[k] = b
        BY <1>1 DEF BeatInv, BeatTypeOK
      <3>3. \A d \in Senders' \ {c} : sender'[d] = sender[d] /\ d \in Senders \ {beats + 1}
        BY <1>4, <2>1, <2>2 DEF Senders
      <3> QED BY <1>6, <3>1, <3>2, <3>3
    <2>3. CASE c # beats + 1
      <3>1. c \in Senders \ {beats + 1} /\ sender'[c] = sender[c]
        BY <1>4, <2>1, <2>3 DEF Senders
      <3>2. sender[c].key # k /\ sender[c].key \in BeatKeys /\ sender[c].beat \notin shutdown
        BY <1>1, <1>6, <3>1 DEF BeatInv, BeatTypeOK, Senders, NoSender
      <3>3. beatMap'[sender[c].key] = sender[c].beat
        BY <1>1, <3>1, <3>2 DEF BeatInv, OneSenderPerBeat, BeatTypeOK
      <3>4. ASSUME NEW d \in Senders' \ {c}, sender'[d].key = sender[c].key
            PROVE  sender'[d].beat \in shutdown'
        <4>1. d # beats + 1
          BY <1>4, <3>2, <3>4
        <4>2. d \in Senders \ {c} /\ sender'[d] = sender[d]
          BY <1>4, <2>1, <4>1 DEF Senders
        <4> QED BY <1>1, <3>1, <3>2, <3>4, <4>2 DEF BeatInv, OneSenderPerBeat
      <3> QED BY <3>1, <3>3, <3>4
    <2> QED BY <2>2, <2>3
  <1>8. PermitsAccounted'
    <2>1. sender[beats + 1].pc = "none"
      BY <1>2 DEF BeatInv, SendersStarted
    <2>2. Holders' = Holders
      BY <1>4, <2>1 DEF Holders
    <2> QED BY <1>1, <2>2 DEF BeatInv, PermitsAccounted, Holders
  <1> QED BY <1>3, <1>5, <1>7, <1>8 DEF BeatInv

(* RemoveBeatInfo: the senders of the key are shut down with its entry.    *)
LEMMA RemoveKeepsBeats ==
    ASSUME BeatInv, NEW k \in BeatKeys, RemoveBeatInfo(k)
    PROVE  BeatInv'
  <1> USE DEF RemoveBeatInfo, BeatInv
  <1>1. BeatTypeOK'
    BY DEF BeatTypeOK
  <1>2. SendersStarted' /\ PermitsAccounted'
    BY DEF SendersStarted, PermitsAccounted
  <1>3. OneSenderPerBeat'
    <2>1. Senders' = Senders /\ shutdown \subseteq shutdown'
      BY DEF Senders
    <2>2. ASSUME NEW c \in Senders, sender[c].beat \notin shutdown'
          PROVE  sender[c].key # k /\ sender[c].key \in BeatKeys
      <3>1. sender[c].beat \notin shutdown
        BY <2>1, <2>2
      <3>2. beatMap[sender[c].key] = sender[c].beat
        BY <3>1 DEF OneSenderPerBeat
      <3> QED BY <2>2, <3>2, SendersHaveBeats
    <2>3. \A j \in BeatKeys \ {k} : beatMap'[j] = beatMap[j]
      BY DEF BeatTypeOK
    <2> QED BY <2>1, <2>2, <2>3 DEF OneSenderPerBeat
  <1> QED BY <1>1, <1>2, <1>3

(* A step of one sender that moves its program counter between running     *)
(* states, or to its end, keeps all but the count of permits.              *)
LEMMA MoveKeepsBeats ==
    ASSUME BeatInv, NEW c \in Calls, NEW pc \in {"acquire", "check", "send", "wait", "retry", "gone"},
           sender[c].pc \notin {"none", "gone"}, sender' = [sender EXCEPT ![c].pc = pc],
           permits' \in 0..BeatThreadCount + 1, UNCHANGED <<beatMap, shutdown, done, beats>>
    PROVE  /\ (BeatTypeOK /\ SendersStarted /\ OneSenderPerBeat)'
           /\ Holders' = IF pc \in {"check", "send"} THEN Holders \union {c} ELSE Holders \ {c}
  <1> USE DEF BeatInv
  <1>1. BeatTypeOK'
    BY DEF BeatTypeOK, NoSender
  <1>2. /\ sender'[c].pc = pc /\ sender'[c].key = sender[c].key /\ sender'[c].beat = sender[c].beat
        /\ \A d \in Calls \ {c} : sender'[d] = sender[d]
    BY DEF BeatTypeOK, NoSender
  <1>3. SendersStarted'
    BY <1>2 DEF SendersStarted
  <1>4. OneSenderPerBeat'
    <2>1. Senders' \subseteq Senders
      BY <1>2 DEF Senders
    <2>2. \A d \in Calls : sender'[d].key = sender[d].key /\ sender'[d].beat = sender[d].beat
      BY <1>2
    <2>3. \A d \in Senders : d \in Calls
      BY DEF Senders
    <2> QED BY <2>1, <2>2, <2>3 DEF OneSenderPerBeat
  <1>5. Holders' = IF pc \in {"check", "send"} THEN Holders \union {c} ELSE Holders \ {c}
    BY <1>2 DEF Holders
  <1> QED BY <1>1, <1>3, <1>4, <1>5

(* Every step of a sender keeps the permits accounted for: it takes one    *)
(* before it becomes a holder and gives it back as it stops being one.     *)
LEMMA SenderKeepsBeats ==
    ASSUME BeatInv, ~Panicked, NEW c \in Calls, SenderStep(c, Answers)
    PROVE  BeatInv'
  <1> USE DEF BeatInv
  <1>1. permits \in Nat /\ permits <= BeatThreadCount /\ BeatThreadCount \in Nat
    BY BeatAssumption DEF Panicked, BeatTypeOK
  <1>2. Cardinality(Holders) \in Nat /\ IsFiniteSet(Holders)
    BY HoldersFinite DEF Holders
  <1>3. ASSUME NEW from \in {"check", "send"}, NEW to \in {"wait", "retry", "gone"}, Release(c, from, to)
        PROVE  BeatInv'
    <2>1. /\ (BeatTypeOK /\ SendersStarted /\ OneSenderPerBeat)'
          /\ Holders' = Holders \ {c}
      <3>1. permits' \in 0..BeatThreadCount + 1
        BY <1>1, <1>3 DEF Release
      <3> QED BY <1>3, <3>1, MoveKeepsBeats DEF Release
    <2>2. c \in Holders
      BY <1>3 DEF Holders, Release
    <2>3. Cardinality(Holders') = Cardinality(Holders) - 1
      BY <1>2, <2>1, <2>2, FS_RemoveElement
    <2>4. PermitsAccounted'
      BY <1>1, <1>2, <1>3, <2>3 DEF PermitsAccounted, Holders, Release
    <2> QED BY <2>1, <2>4
  <1>4. CASE Acquire(c)
    <2>1. permits' \in 0..BeatThreadCount + 1
      BY <1>1, <1>4 DEF Acquire
    <2>2. /\ (BeatTypeOK /\ SendersStarted /\ OneSenderPerBeat)'
          /\ Holders' = Holders \union {c}
      BY <1>4, <2>1, MoveKeepsBeats DEF Acquire
    <2>3. c \notin Holders
      BY <1>4 DEF Holders, Acquire
    <2>4. Cardinality(Holders') = Cardinality(Holders) + 1
      BY <1>2, <2>2, <2>3, FS_AddElement
    <2>5. PermitsAccounted'
      BY <1>1, <1>2, <1>4, <2>4 DEF PermitsAccounted, Holders, Acquire
    <2> QED BY <2>2, <2>5
  <1>5. ASSUME NEW from, NEW to, Moves(c, from, to), UNCHANGED <<beatMap, shutdown, permits, done, beats>>,
               \/ from = "check" /\ to = "send"
               \/ from \in {"wait", "retry"} /\ to \in {"acquire", "gone"}
        PROVE  BeatInv'
    <2>1. permits' \in 0..BeatThreadCount + 1
      BY <1>5 DEF BeatTypeOK
    <2>2. /\ (BeatTypeOK /\ SendersStarted /\ OneSenderPerBeat)'
          /\ Holders' = IF to \in {"check", "send"} THEN Holders \union {c} ELSE Holders \ {c}
      BY <1>5, <2>1, MoveKeepsBeats DEF Moves
    <2>3. Holders' = Holders
      BY <1>5, <2>2 DEF Moves, Holders
    <2>4. PermitsAccounted'
      BY <1>5, <2>3 DEF PermitsAccounted, Holders
    <2> QED BY <2>2, <2>4
  <1>6. CASE Stops(c) \/ SendBeat(c, Answers) \/ BeatFails(c)
    BY <1>3, <1>6 DEF Stops, SendBeat, BeatFails
  <1>7. CASE Continues(c) \/ TimerFires(c) \/ ContextDone(c)
    BY <1>5, <1>7 DEF Continues, TimerFires, ContextDone
  <1> QED BY <1>4, <1>6, <1>7 DEF SenderStep

(* Every step of a user or a sender keeps the invariant of the beats.      *)
LEMMA BeatStep ==
    ASSUME BeatInv, Users \/ Reactor
    PROVE  BeatInv'
  <1>1. CASE Reactor
    BY <1>1, SenderKeepsBeats DEF Reactor
  <1>2. CASE Users /\ Close
    BY <1>2 DEF Close, BeatInv, BeatTypeOK, SendersStarted, OneSenderPerBeat, Senders, PermitsAccounted
  <1>3. CASE \E n \in Names : RegisterInstance(n, Answers) \/ DeregisterInstance(n)
    BY <1>3, NamesAreKeys, AddKeepsBeats, RemoveKeepsBeats DEF RegisterInstance, DeregisterInstance
  <1> QED BY <1>1, <1>2, <1>3 DEF Users

-----------------------------------------------------------------------------
(* The composition. *)

(* A step that leaves one side alone keeps its invariant. *)
LEMMA LoginStutters ==
    ASSUME LoginInv, UNCHANGED loginVars
    PROVE  LoginInv'
  BY DEF LoginInv, LoginTypeOK, RoundClock, loginVars, LoggingIn, TokenSent, tokenRefreshWindow, Elapsed

(* The same for the other side. *)
LEMMA BeatStutters ==
    ASSUME BeatInv, UNCHANGED beatVars
    PROVE  BeatInv'
  BY DEF BeatInv, BeatTypeOK, SendersStarted, OneSenderPerBeat, Senders, PermitsAccounted, beatVars

(* The invariants of the two sides hold in every state. *)
LEMMA Invariants == Spec => [](LoginInv /\ BeatInv)
  <1>1. Init => LoginInv /\ BeatInv
    BY LoginInvInit, BeatInvInit DEF Init
  <1>2. LoginInv /\ BeatInv /\ [Next]_vars => (LoginInv /\ BeatInv)'
    <2> SUFFICES ASSUME LoginInv, BeatInv, [Next]_vars
                 PROVE  (LoginInv /\ BeatInv)'
      OBVIOUS
    <2>1. CASE Users \/ Reactor
      BY <2>1, BeatStep, LoginStutters DEF Users, Reactor
    <2>2. CASE Security
      BY <2>2, SecurityStep, BeatStutters DEF Security
    <2>3. CASE UNCHANGED vars
      BY <2>3, LoginStutters, BeatStutters DEF vars
    <2> QED BY <2>1, <2>2, <2>3 DEF Next
  <1> QED BY <1>1, <1>2, PTL DEF Spec

(* The types of the refresher, the clocks, the senders and the semaphore.  *)
THEOREM TypeCorrect == Spec => []TypeOK
  <1>1. LoginInv /\ BeatInv => TypeOK
    BY DEF LoginInv, BeatInv, TypeOK
  <1> QED BY <1>1, Invariants, PTL

(* For any number of servers and any lives of tokens: while rounds fail    *)
(* for less time than two windows, no request carries an expired token.    *)
THEOREM TokenStaysInDate == Spec => []TokenInDate
  <1>1. LoginInv => TokenInDate
    <2> SUFFICES ASSUME LoginInv, refresher.pc # "gone", TokenSent, failed < MaxFailed,
                        Timeout + (failed + 1) * RoundTime <= 2 * tokenRefreshWindow
                 PROVE  tokenAge < tokenTtl
      BY DEF TokenInDate
    <2>1. /\ tokenTtl \in Nat /\ tokenRefreshWindow \in Nat /\ failed \in Nat
          /\ tokenAge \in Nat /\ sinceRefresh \in Nat
      BY WindowsLeaveTime, ForeverIsLonger, LoginAssumption
      DEF LoginInv, LoginTypeOK, RoundClock, TokenSent
    <2>2. /\ tokenAge <= sinceRefresh + Timeout
          /\ sinceRefresh < tokenTtl - 2 * tokenRefreshWindow + failed * RoundTime + Elapsed
      BY DEF LoginInv, RoundClock
    <2>3. /\ RoundTime \in Nat /\ failed * RoundTime \in Nat
          /\ (failed + 1) * RoundTime = failed * RoundTime + RoundTime
      BY <2>1, RoundArithmetic
    <2>4. Elapsed \in Int /\ Elapsed <= RoundTime
      <3>1. refresher.server \in 1..ServerCount /\ refresher.time \in Nat
        BY LoginAssumption DEF LoginInv, LoginTypeOK
      <3>2. /\ (refresher.server - 1) * Timeout \in Nat /\ ServerCount * Timeout \in Nat
            /\ (refresher.server - 1) * Timeout + Timeout <= ServerCount * Timeout
        BY <3>1, RoundArithmetic, LoginAssumption
      <3>3. CASE refresher.pc = "wait"
        BY <3>1, <3>2, <3>3, LoginAssumption DEF Elapsed, RoundTime
      <3>4. CASE refresher.pc # "wait"
        <4>1. LoggingIn
          BY <3>4 DEF LoginInv, LoginTypeOK, LoggingIn
        <4>2. refresher.time <= Timeout
          BY <4>1 DEF LoginInv, RoundClock
        <4> QED BY <3>1, <3>2, <3>4, <4>2, LoginAssumption DEF Elapsed, RoundTime
      <3> QED BY <3>3, <3>4
    <2> QED BY <2>1, <2>2, <2>3, <2>4, LoginAssumption
  <1> QED BY <1>1, Invariants, PTL

(* For any number of services and calls: an instance is never beaten for   *)
(* twice, nor by a sender that no RemoveBeatInfo can reach.                *)
THEOREM BeatHasOneSender == Spec => []OneSenderPerBeat
  <1>1. BeatInv => OneSenderPerBeat
    BY DEF BeatInv
  <1> QED BY <1>1, Invariants, PTL

(* For any number of permits and senders: none leaks before the client is  *)
(* closed.                                                                 *)
THEOREM NoPermitLeaks == Spec => []PermitsAccounted
  <1>1. BeatInv => PermitsAccounted
    BY DEF BeatInv
  <1> QED BY <1>1, Invariants, PTL

(* Release never panics before the client is closed. *)
THEOREM OpenNeverPanics == Spec => [](~done => ~Panicked)
  <1>1. BeatInv => (~done => ~Panicked)
    <2>1. Cardinality(Holders) \in Nat
      BY HoldersFinite DEF Holders
    <2> QED BY <2>1, BeatAssumption DEF BeatInv, BeatTypeOK, PermitsAccounted, Holders, Panicked
  <1> QED BY <1>1, Invariants, PTL

=============================================================================
