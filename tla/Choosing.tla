------------------------------ MODULE Choosing ------------------------------
(***************************************************************************)
(* Which instance, which server: the selection of naming_client.go with    *)
(* naming_instance_chooser.go and subscribe_callback_wrapper.go, and the   *)
(* order in which nacos_server.go tries the servers.                       *)
(* An instance is [id, cluster, healthy, enable, weight], its weight in    *)
(* halves, for weights are floats and the chooser truncates them.  An      *)
(* empty name of a cluster is "none".                                      *)
(***************************************************************************)
EXTENDS Integers, Sequences, FiniteSets, SequencesExt

(* joinCluster: sorted, without duplicates and empty names, that is, a set. *)
joinCluster(clusters) == ToSet(clusters) \ {"none"}

(* The instances of a list that are in S, appended one by one. *)
Keep(hosts, S) ==
    LET Kept[i \in 0..Len(hosts)] ==
            IF i = 0 THEN <<>>
            ELSE IF hosts[i] \in S THEN Append(Kept[i - 1], hosts[i]) ELSE Kept[i - 1]
    IN Kept[Len(hosts)]

(* ClusterSelector.SelectInstance *)
SelectInstance(clusters, hosts) ==
    IF joinCluster(clusters) = {} THEN hosts
    ELSE Keep(hosts, {h \in ToSet(hosts) : h.cluster \in ToSet(clusters)})

(* Mutant: the names are compared as they were given. *)
EqualsAsGiven(a, b) == a = b

Equals(a, b) == joinCluster(a) = joinCluster(b)

Usable(h) == h.enable /\ h.weight > 0

(* SelectAllInstances *)
SelectAllInstances(clusters, hosts) == SelectInstance(clusters, hosts)

(* selectInstances; "error" when no instance is in the clusters. *)
selectInstances(hosts, healthy) ==
    IF hosts = <<>> THEN "error" ELSE Keep(hosts, {h \in ToSet(hosts) : h.healthy = healthy /\ Usable(h)})

SelectInstances(clusters, hosts, healthy) == selectInstances(SelectInstance(clusters, hosts), healthy)

IntWeight(h) == h.weight \div 2

(* sort.Sort by weight, which may leave equal weights in any order. *)
ByWeight(instances) ==
    LET places == DOMAIN instances
        order == CHOOSE p \in Bijection(places, places) :
                     \A i, j \in places : i < j => instances[p[i]].weight <= instances[p[j]].weight
    IN [i \in places |-> instances[order[i]]]

(* newChooser: sorted by weight, with the running totals of the weights. *)
newChooser(instances) ==
    LET data == ByWeight(instances)
        Total[i \in 0..Len(data)] == IF i = 0 THEN 0 ELSE Total[i - 1] + IntWeight(data[i])
    IN [data |-> data, totals |-> [i \in 1..Len(data) |-> Total[i]], max |-> Total[Len(data)]]

(* Mutant: the search for a total above r, one too far. *)
pickAbove(chs, r) ==
    LET from == {i \in DOMAIN chs.totals : chs.totals[i] > r} IN
    chs.data[IF from = {} THEN Len(chs.data) ELSE Min(from)]

(* pick with the random number r in 1..max: SearchInts. *)
pick(chs, r) == chs.data[Min({i \in DOMAIN chs.totals : chs.totals[i] >= r})]

(* selectOneHealthyInstances, as its possible outcomes, each with the       *)
(* number of random numbers that lead to it.  rand.Intn(0) panics.          *)
selectOneHealthyInstances(hosts) ==
    LET result == Keep(hosts, {h \in ToSet(hosts) : h.healthy /\ Usable(h)})
        chs == newChooser(result)
    IN IF hosts = <<>> \/ result = <<>> THEN "error"
       ELSE IF chs.max = 0 THEN "panic"
       ELSE [h \in ToSet(result) |-> Cardinality({r \in 1..chs.max : pick(chs, r) = h})]

SelectOneHealthyInstance(clusters, hosts) == selectOneHealthyInstances(SelectInstance(clusters, hosts))

----------------------------------------------------------------------------
RequestDomainRetryTime == 3

(* Mutant: a step of i from where the loop began, two at a time. *)
triesByTwo(n, start) == [i \in 1..n |-> (start + 2 * (i - 1)) % n]

(* The servers that ReqApi, and ReqConfigApi, would ask one after the       *)
(* other, out of 0..n-1: index = (index + i) % n.                           *)
Tries(n, start) ==
    IF n = 1 THEN [i \in 1..RequestDomainRetryTime |-> 0]
    ELSE LET Index[i \in 1..n] == IF i = 1 THEN start ELSE (Index[i - 1] + i - 1) % n IN Index

(* ReqApi: server s fails its first fails[s] requests. *)
ReqApi(n, start, fails) ==
    LET t == Tries(n, start) IN
    \E i \in DOMAIN t : Cardinality({j \in 1..i - 1 : t[j] = t[i]}) >= fails[t[i]]
=============================================================================
