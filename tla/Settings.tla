------------------------------- MODULE Settings -------------------------------
(***************************************************************************)
(* What a client is built from: its settings and server addresses          *)
(* (client_factory.go, nacos_client.go), the labels its connection carries *)
(* (rpc_client.go) and its chain of config filters (config_filter.go).     *)
(* A map of labels is a function from keys to values; a key that consists  *)
(* of blanks, and a text that is empty, is "none".                         *)
(***************************************************************************)
EXTENDS Integers, Sequences, SequencesExt, Functions

RpcPortOffset == 1000
DefaultPort == 8848
MaxPort == 65535

(* SetClientConfig; zero and negative numbers get the defaults.  The        *)
(* defaults of the log level and the directories are left out.              *)
SetClientConfig(config) ==
    [config EXCEPT !.timeoutMs = IF @ <= 0 THEN 10000 ELSE @,
                   !.beatInterval = IF @ <= 0 THEN 5000 ELSE @,
                   !.updateThreadNum = IF @ <= 0 THEN 20 ELSE @]

(* SetServerConfig: the first bad server ends it, with what it has written  *)
(* into the servers before.                                                 *)
SetServerConfig(servers) ==
    LET bad == {i \in DOMAIN servers : servers[i].ip = "none" \/ servers[i].port \notin 1..MaxPort}
        until == IF bad = {} THEN Len(servers) ELSE (CHOOSE i \in bad : \A j \in bad : i <= j) - 1
    IN [ok |-> bad = {},
        servers |-> [i \in DOMAIN servers |->
                        IF i <= until /\ servers[i].path = "none"
                        THEN [servers[i] EXCEPT !.path = "/nacos"] ELSE servers[i]]]

(* Mutant: the gRPC port is derived before the port gets its default. *)
WithPortsGrpcFirst(s) ==
    [s EXCEPT !.port = IF @ = 0 THEN DefaultPort ELSE @,
              !.grpcPort = IF @ = 0 THEN s.port + RpcPortOffset ELSE @]

(* The loop of setConfig over one server: its ports. *)
WithPorts(s) ==
    LET port == IF s.port = 0 THEN DefaultPort ELSE s.port IN
    [s EXCEPT !.port = port, !.grpcPort = IF @ = 0 THEN port + RpcPortOffset ELSE @]

(* setConfig.  param.servers is the caller's own slice, so what it leaves   *)
(* there is part of the result.                                             *)
setConfig(param) ==
    LET config == SetClientConfig(param.config)
        set == SetServerConfig([i \in DOMAIN param.servers |-> WithPorts(param.servers[i])])
        none == param.servers = <<>>
    IN [ok |-> IF none THEN config.endpoint ELSE set.ok,
        config |-> config,
        servers |-> IF none THEN <<>> ELSE set.servers]

----------------------------------------------------------------------------
(* Labels. *)

NoLabels == <<>>

(* parseLabels: a label is [key, value, parts], parts the number of pieces  *)
(* around its equal signs; later labels win.                                *)
parseLabels(labels) ==
    LET good == {i \in DOMAIN labels : labels[i].parts = 2}
        keys == {labels[i].key : i \in good}
        last(k) == CHOOSE i \in good : /\ labels[i].key = k
                                       /\ \A j \in good : labels[j].key = k => j <= i
    IN [k \in keys |-> labels[last(k)].value]

(* The entries of two maps, the first one's for a key that both have. *)
Overlay(first, second) ==
    [k \in DOMAIN first \cup DOMAIN second |-> IF k \in DOMAIN first THEN first[k] ELSE second[k]]

(* Mutant: what is in both maps is always taken from the second. *)
mergeMapsSecond(map1, map2, preferFirst) == Overlay(map2, map1)

(* mergeMaps *)
mergeMaps(map1, map2, preferFirst) == IF preferFirst THEN Overlay(map1, map2) ELSE Overlay(map2, map1)

(* getAppLabelsFromEnv *)
getAppLabelsFromEnv(gray, labels) ==
    Overlay(parseLabels(labels),
            IF gray = "none" THEN NoLabels ELSE [k \in {"nacos_config_gray_label"} |-> gray])

(* mergerAppLabels: anything but "env" prefers the client's labels. *)
mergerAppLabels(appointed, env, preferred) == mergeMaps(appointed, env, preferred # "env")

(* addPrefixForEachKey: a blank key goes. *)
addPrefixForEachKey(m) ==
    [k \in {<<"app_", key>> : key \in DOMAIN m \ {"none"}} |-> m[k[2]]]

(* CreateClient, its labels: those of the SDK last. *)
CreateClient(appointed, gray, envLabels, preferred, labels) ==
    Overlay(labels, addPrefixForEachKey(
                        mergerAppLabels(appointed, getAppLabelsFromEnv(gray, envLabels), preferred)))

----------------------------------------------------------------------------
(* The chain of filters, each [name, order]. *)

(* Mutant: an equal order stops it too. *)
addPositionEqual(chain, f) ==
    LET stops == {i \in DOMAIN chain : chain[i].name = f.name \/ f.order <= chain[i].order} IN
    IF stops = {} THEN Len(chain) + 1 ELSE CHOOSE i \in stops : \A j \in stops : i <= j

(* The position that addFilter stops at: of the first filter that has the   *)
(* new one's name or a higher order, or the end.                            *)
addPosition(chain, f) ==
    LET stops == {i \in DOMAIN chain : chain[i].name = f.name \/ f.order < chain[i].order} IN
    IF stops = {} THEN Len(chain) + 1 ELSE CHOOSE i \in stops : \A j \in stops : i <= j

(* addFilter.  In the middle, append to c[:pos] writes over the filter   *)
(* that is at pos, since both are slices of one array; the second append    *)
(* then repeats the new filter.                                             *)
addFilter(chain, f) ==
    LET pos == addPosition(chain, f) IN
    IF pos > Len(chain) THEN Append(chain, f)
    ELSE IF chain[pos].name = f.name THEN chain
    ELSE SubSeq(chain, 1, pos - 1) \o <<f, f>> \o SubSeq(chain, pos + 1, Len(chain))

(* AddFilter for each filter of a sequence. *)
AddFilters(filters) ==
    LET Chain[n \in 0..Len(filters)] == IF n = 0 THEN <<>> ELSE addFilter(Chain[n - 1], filters[n])
    IN Chain[Len(filters)]

(* DoFilters: the filters run in the order of the chain up to the first     *)
(* that fails.                                                              *)
DoFilters(chain, failing) ==
    LET fails == {i \in DOMAIN chain : chain[i].name \in failing} IN
    IF fails = {} THEN chain ELSE SubSeq(chain, 1, CHOOSE i \in fails : \A j \in fails : i <= j)
=============================================================================
