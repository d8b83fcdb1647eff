------------------------------ MODULE Algorithms ------------------------------
(***************************************************************************)
(* The pure algorithms of the SDK against reference definitions.  Each      *)
(* behaviour takes one input of one task and computes its output.           *)
(***************************************************************************)
EXTENDS Choosing, Credentials, Encryption, Settings

VARIABLES task, input, output

vars == <<task, input, output>>

----------------------------------------------------------------------------
(* The inputs. *)

Instances == [cluster : {"a", "b"}, healthy : BOOLEAN, enable : {TRUE}, weight : {1, 2, 6}]
                \cup [cluster : {"a"}, healthy : {TRUE}, enable : {FALSE}, weight : {2}]
                \cup [cluster : {"a"}, healthy : {TRUE}, enable : {TRUE}, weight : {0}]

(* Lists of up to three instances, each with an id of its own. *)
Hosts == LET Listed(s) == [i \in DOMAIN s |-> [id |-> i, cluster |-> s[i].cluster, healthy |-> s[i].healthy,
                                            enable |-> s[i].enable, weight |-> s[i].weight]]
         IN {Listed(s) : s \in SeqOf(Instances, 2)} \cup
            {Listed(s) : s \in [1..3 -> [cluster : {"a"}, healthy : {TRUE}, enable : {TRUE}, weight : {0, 1, 2, 6}]]}

ClusterLists == SeqOf({"none", "a", "b"}, 2)

RamProperties == {"ak", "sk", "token", "region", "secretName", "ramRoleName", "roleArn",
                  "roleSessionName", "oidcProviderArn", "oidcTokenFile", "credentialsURI"}

ClientConfigs ==
    LET envs == {{}, {"sk"}, {"ak", "sk"}, {"ak", "sk", "token"}} IN
    [own : SUBSET RamProperties, env : envs, ram : {TRUE}, custom : BOOLEAN] \cup
    [own : SUBSET {"ak", "sk"}, env : envs, ram : {FALSE}, custom : BOOLEAN]

Requests ==
    [type : NamingRequests \cup ConfigRequests \cup {"ConfigBatchListenRequest"}, namespace : {<<>>, <<"n">>},
     group : {<<"g">>}, name : {<<"s">>, <<"g", "s">>}]

KmsConfigs == {{}, {"ak", "sk"}, {"ak", "sk", "region"}, {"ak", "sk", "kmsEndpoint"}, {"kmsV3Config"},
               {"kmsV3Config", "v3Endpoint", "password", "clientKey", "ca"}}

DataIds == {{}, {"cipher"}, {"cipher", "cipher-"}, {"cipher", "cipher-", "cipher-kms-aes-128"},
            {"cipher", "cipher-", "cipher-kms-aes-256"},
            {"cipher", "cipher-", "cipher-kms-aes-128", "cipher-kms-aes-256"}}

Texts == SeqOf({1, BlockSize + 1}, BlockSize + 1)

Servers == [ip : {"none", "x"}, port : {0, 1, DefaultPort, MaxPort, MaxPort + 1}, grpcPort : {0, 1},
            path : {"none", "/p"}]

Maps(keys, values) == UNION {[d -> values] : d \in SUBSET keys}

Labels == SeqOf([key : {"none", "k"}, value : {"e1", "e2"}, parts : {2, 3}], 2)

Filters == SeqOf([name : {"f", "g", "h"}, order : {0, 1}], 3)

----------------------------------------------------------------------------
Init ==
    /\ output = <<>>
    /\ \/ task = "select" /\ input \in [clusters : ClusterLists, hosts : Hosts]
       \/ task = "equals" /\ input \in [a : ClusterLists, b : ClusterLists]
       \/ /\ task = "request"
          /\ \E n \in 1..4 : input \in [n : {n}, start : 0..n - 1, fails : [0..n - 1 -> {0, 1, 3}]]
       \/ task = "login" /\ input \in [config : ClientConfigs, cloud : {"ok", "initFails", "getFails"}]
       \/ task = "sign" /\ input \in Requests
       \/ /\ task = "encrypt"
          /\ input \in [version : {"DEFAULT_KMS_VERSION", "KMSv1", "KMSv3", "v9"}, kms : KmsConfigs,
                        dataId : DataIds, keyId : {"none", "id"}, text : Texts]
       \/ /\ task = "settings"
          /\ input \in [config : [timeoutMs : {0, 7}, beatInterval : {-1}, updateThreadNum : {1}, endpoint : BOOLEAN],
                        servers : SeqOf(Servers, 2)]
       \/ /\ task = "labels"
          /\ input \in [appointed : Maps({"none", "k", "nacos_config_gray_label"}, {"c"}), gray : {"none", "g"},
                        env : Labels, preferred : {"none", "env", "config"}]
       \/ task = "filters" /\ input \in [filters : Filters, failing : SUBSET {"f"}]

Computes(t, result) == task = t /\ output = <<>> /\ output' = <<result>> /\ UNCHANGED <<task, input>>

(* SelectOneHealthyInstance and SelectInstances of one list. *)
Select ==
    Computes("select",
             [one |-> SelectOneHealthyInstance(input.clusters, input.hosts),
              healthy |-> SelectInstances(input.clusters, input.hosts, TRUE),
              all |-> SelectAllInstances(input.clusters, input.hosts)])

(* Two selectors, told apart by Equals. *)
CompareSelectors == Computes("equals", Equals(input.a, input.b))

(* A request over HTTP with servers that fail. *)
Request == Computes("request", ReqApi(input.n, input.start, input.fails))

(* The signing of a configuration's requests. *)
RamLogin ==
    Computes("login", GetSecurityInfo(Login(input.config, input.cloud),
                                      BuildNamingResource(<<"n">>, <<"g">>, <<"s">>)))

SignRequest ==
    Computes("sign", doInject(IF input.type \in NamingRequests THEN BuildNamingResourceByRequest(input)
                              ELSE BuildConfigResourceByRequest(input),
                              RamContext("own", "own", "none", "own", FALSE)))

(* Encryption of a config, and decryption of what it gave; no client is     *)
(* built where KMSv3Config is missing.                                      *)
EncryptConfig ==
    /\ task = "encrypt"
    /\ LET client == RegisterConfigEncryptionKmsPlugins(input.version, input.kms).kmsClient
           param == [dataId |-> input.dataId, keyId |-> input.keyId, encryptedDataKey |-> "none",
                     plainDataKey |-> "none", content |-> [by |-> "plain", text |-> input.text], err |-> "none"]
       IN /\ client # "panic"
          /\ \E cipher \in EncryptPlain(param, client) :
             \E plain \in DecryptCipher([cipher EXCEPT !.plainDataKey = "none", !.err = "none"], client) :
                Computes("encrypt", [cipher |-> cipher, plain |-> plain])

(* Two clients from one parameter. *)
CreateTwice ==
    Computes("settings", LET first == setConfig(input) IN
                         [first |-> first, second |-> setConfig([input EXCEPT !.servers = first.servers])])

Label ==
    Computes("labels", CreateClient(input.appointed, input.gray, input.env, input.preferred,
                                    [k \in {<<"source">>} |-> "sdk"]))

BuildChain == Computes("filters", DoFilters(AddFilters(input.filters), input.failing))

Next ==
    Select \/ CompareSelectors \/ Request \/ RamLogin \/ SignRequest \/ EncryptConfig
        \/ CreateTwice \/ Label \/ BuildChain

Spec == Init /\ [][Next]_vars

----------------------------------------------------------------------------
(* What an output is checked against. *)

Result == output[1]
Done(t) == task = t /\ output # <<>>

(* The instance that SelectOneHealthyInstance returns is drawn in           *)
(* proportion to the truncated weights among the healthy, enabled instances *)
(* of the clusters asked for, and the call fails where no such instance     *)
(* has a weight of at least one.                                            *)
PickFollowsWeights ==
    Done("select") =>
        LET eligible == {h \in ToSet(input.hosts) : /\ h.healthy /\ h.enable /\ h.weight > 0
                                                    /\ \/ ToSet(input.clusters) \subseteq {"none"}
                                                       \/ h.cluster \in ToSet(input.clusters)}
            failed == \A h \in eligible : h.weight < 2
        IN IF failed THEN Result.one = (IF eligible = {} THEN "error" ELSE "panic")
           ELSE /\ DOMAIN Result.one = eligible
                /\ \A h \in eligible : Result.one[h] = h.weight \div 2

(* Two subscriptions whose selectors Equals takes for the same see the same *)
(* instances, and two that it tells apart can be shown a list on which they *)
(* differ: RemoveCallbackFunc removes a callback by this comparison.        *)
EqualSelectorsSelectAlike ==
    Done("equals") =>
        (Result <=> \A cluster \in {"a", "b", "c"} :
                        LET host == <<[cluster |-> cluster]>> IN
                        SelectInstance(input.a, host) = SelectInstance(input.b, host))

(* A request over HTTP succeeds while there is a server that answers, as    *)
(* long as the tries reach it: with one, two or four servers they reach     *)
(* all, with three the one it began with and the next.  A single server is  *)
(* asked again, so it may fail twice.                                       *)
FailoverReaches ==
    Done("request") =>
        LET reached == IF input.n = 3 THEN {input.start, (input.start + 1) % 3} ELSE 0..input.n - 1 IN
        Result <=> \/ \E s \in reached : input.fails[s] = 0
                   \/ input.n = 1 /\ input.fails[0] < 3
                   \/ input.n = 3 /\ input.fails[input.start] = 1

(* The places whose access key is a temporary one: it was put there with    *)
(* its token.                                                               *)
Temporary(c) == {"cloud"} \cup {place \in {"own", "env"} : "token" \in c[place]}

TokenDue(c, place) == IF place \in Temporary(c) THEN place ELSE "none"

(* The server, which knows the secret and the token of every access key,    *)
(* accepts a signature made with the key's own secret, derived as the       *)
(* version says, and with the key's own token: none if it is permanent.     *)
Accepts(c, info) ==
    /\ info.signature.key = IF info.version = "v4"
                            THEN finalSigningKey(info.accessKey, GetNacosProperties(c, "region"))
                            ELSE <<info.accessKey>>
    /\ info.token = TokenDue(c, info.accessKey)

(* Key, secret and token, each taken from the configuration or else from    *)
(* the environment, are those of one key; without a RamConfig no token is.  *)
SetTogether(c) ==
    LET source(p) == GetNacosProperties(c, p) IN
    /\ source("ak") = source("sk")
    /\ TokenDue(c, source("ak")) = IF c.ram THEN source("token") ELSE "none"

(* Whichever provider the order leads to, its key goes with its own secret  *)
(* and token: the server accepts what a client signs unless the client uses *)
(* the key that is configured and configuration and environment mix their   *)
(* keys, secrets or tokens (an own key with the environment's token, say, a *)
(* secret of the environment with an own key, or a temporary key and no     *)
(* RamConfig), and then it does not.                                        *)
SignedVerifiably ==
    Done("login") /\ Result.present /\ input.cloud = "ok" =>
        (Accepts(input.config, Result.info)
            <=> SetTogether(input.config) \/ Result.info.accessKey \notin {"own", "env"})

(* What a gRPC request is signed for: the grouped name of its service, the  *)
(* group once, whether or not the name came with it; the namespace and      *)
(* group of its config; nothing for the listening of many configs.          *)
SignsItsService ==
    Done("sign") =>
        Result.signature.data = IF input.type \in NamingRequests THEN <<"g", "s">>
                        ELSE IF input.type \in ConfigRequests THEN input.namespace \o <<"g">> ELSE <<>>

(* What EncryptionHandler gives without an error is not the plain content,  *)
(* and DecryptionHandler of a client that is set up alike gives the content *)
(* back, whichever order Go ranges over the map of plugins in, then and     *)
(* now.                                                                     *)
EncryptionOpens ==
    Done("encrypt") /\ Result.cipher.err = "none" =>
        /\ Result.cipher.content.by # "plain"
        /\ Result.plain.err = "none"
        /\ Result.plain.content = [by |-> "plain", text |-> input.text]

(* Of two clients made from one parameter, whose servers setConfig writes   *)
(* its defaults into, the second has what the first has; and when they are  *)
(* accepted, there is an endpoint or every server has an address, a port of *)
(* the TCP range and, when no gRPC port was given, its port and the offset. *)
SharedParamAgrees ==
    Done("settings") =>
        LET first == Result.first IN
        /\ Result.second = first
        /\ first.ok => \/ input.servers = <<>> /\ input.config.endpoint
                       \/ \A i \in DOMAIN first.servers :
                              LET s == first.servers[i] IN
                              /\ s.ip # "none" /\ s.path # "none" /\ s.port \in 1..MaxPort
                              /\ s.grpcPort \in {input.servers[i].grpcPort, s.port + RpcPortOffset} \ {0}

(* A label of the connection has the value of the source that is preferred  *)
(* and has it: the environment's labels, its gray label below them, or the  *)
(* configuration; the preference decides between environment and            *)
(* configuration only for a key that both have.                             *)
LabelPrecedence ==
    Done("labels") =>
        \A k \in {"k", "nacos_config_gray_label"} :
            LET given == {input.env[i].value : i \in {j \in DOMAIN input.env :
                                                        input.env[j].key = k /\ input.env[j].parts = 2}}
                env == given \cup IF given = {} /\ k # "k" THEN {input.gray} \ {"none"} ELSE {}
                own == IF k \in DOMAIN input.appointed THEN {input.appointed[k]} ELSE {}
                label == IF <<"app_", k>> \in DOMAIN Result THEN {Result[<<"app_", k>>]} ELSE {}
            IN IF own # {} /\ (env = {} \/ input.preferred # "env") THEN label = own
               ELSE label \subseteq env /\ (label = {} <=> env = {})

(* Filters that are added in a non-decreasing order all run, once each,     *)
(* until one fails.  (One of a lower order takes another's place: addFilter *)
(* writes over it.)                                                         *)
ChainKeepsFilters ==
    LET filters == input.filters
        ordered == \A i, j \in DOMAIN filters : i < j => filters[i].order <= filters[j].order
        names == {filters[i].name : i \in DOMAIN filters}
        failed == names \cap input.failing # {}
    IN Done("filters") /\ ordered =>
           /\ \A i, j \in DOMAIN Result : i < j => Result[i].name # Result[j].name /\ Result[i].order <= Result[j].order
           /\ IF failed THEN Last(Result).name \in input.failing ELSE {Result[i].name : i \in DOMAIN Result} = names
=============================================================================
