--------------------------- MODULE NamingRegistry ---------------------------
(***************************************************************************)
(* What the naming client promises about registrations: the server holds   *)
(* for a service what was asked for last, or still what it held before, or *)
(* nothing because the connection that held it is gone.  Only for a        *)
(* service with operations that crossed each other (loose) may it hold     *)
(* something else.                                                         *)
(***************************************************************************)
CONSTANTS
    Services,        \* grouped service names
    Registrations,   \* what can be registered for a service
    NoRegistration

VARIABLES
    asked,   \* service -> what the last call asked for
    held,    \* service -> what the server holds for this client
    loose    \* services with operations that crossed each other

Held == Registrations \union {NoRegistration}

Init ==
    /\ asked = [s \in Services |-> NoRegistration]
    /\ held = [s \in Services |-> NoRegistration]
    /\ loose = {}

(* A call starts; it may cross another operation on the same service.       *)
Ask(s, r) ==
    /\ asked' = [asked EXCEPT ![s] = r]
    /\ loose' \in {loose, loose \union {s}}
    /\ UNCHANGED held

(* Operations are found to cross without a new call.                        *)
Loosen == loose \subseteq loose' /\ UNCHANGED <<asked, held>>

(* The server carries out a request.                                        *)
Serve(s) ==
    /\ \/ held' = [held EXCEPT ![s] = asked[s]]
       \/ s \in loose /\ \E r \in Held : held' = [held EXCEPT ![s] = r]
    /\ UNCHANGED <<asked, loose>>

(* The connection is gone, and the server forgets what came over it.        *)
Forget == held' = [s \in Services |-> NoRegistration] /\ UNCHANGED <<asked, loose>>

Next ==
    \/ \E s \in Services : Serve(s) \/ \E r \in Held : Ask(s, r)
    \/ Loosen
    \/ Forget

Spec == Init /\ [][Next]_<<asked, held, loose>>
=============================================================================
