----------------------------- MODULE Credentials -----------------------------
(***************************************************************************)
(* RAM authentication: which provider supplies the credentials             *)
(* (ram_auth_client.go, ram_credential_provider.go), what a request is     *)
(* signed for (security_proxy.go) and what the signature puts into its     *)
(* headers (resource_injector.go, signature_util.go).                      *)
(* A client configuration c is [own, env, ram, custom]: the properties     *)
(* that the configuration sets, those that the environment sets, whether   *)
(* there is a RamConfig (own then holds its properties too) and whether    *)
(* the user gave a provider of his own, which always matches.              *)
(* A value is known by where it comes from, and is "none" when not set.    *)
(* cloud: how the service behind a provider answers, "ok", "initFails"     *)
(* or "getFails".                                                          *)
(***************************************************************************)
EXTENDS Integers, Sequences

(* GetNacosProperties *)
GetNacosProperties(c, property) ==
    IF property \in c.own THEN "own" ELSE IF property \in c.env THEN "env" ELSE "none"

IsSet(c, properties) == \A p \in properties : GetNacosProperties(c, p) # "none"

RamContext(ak, sk, token, region, ephemeral) ==
    [accessKey |-> ak, secretKey |-> sk, securityToken |-> token,
     signatureRegionId |-> region, ephemeralAccessKeyId |-> ephemeral]

NoContext == RamContext("none", "none", "none", "none", FALSE)

(* What a provider that asks a service gets from it: a key of "cloud" is    *)
(* temporary and has a token, one of "secretManager" is not.                *)
FromCloud(c, cloud, place) ==
    IF cloud = "ok"
    THEN RamContext(place, place, IF place = "cloud" THEN place ELSE "none",
                    GetNacosProperties(c, "region"), place = "cloud")
    ELSE NoContext

(* The providers: MatchProvider, and GetCredentialsForNacosClient after Init. *)
AccessKeyCredentialProvider(c, cloud) ==
    [match |-> IsSet(c, {"ak", "sk"}),
     context |-> RamContext(GetNacosProperties(c, "ak"), GetNacosProperties(c, "sk"), "none",
                            IF c.ram THEN GetNacosProperties(c, "region") ELSE "none", FALSE),
     init |-> TRUE]

AutoRotateCredentialProvider(c, cloud) ==
    [match |-> c.ram /\ IsSet(c, {"secretName"}), context |-> FromCloud(c, cloud, "secretManager"),
     init |-> cloud # "initFails"]

StsTokenCredentialProvider(c, cloud) ==
    [match |-> c.ram /\ IsSet(c, {"ak", "sk", "token"}),
     context |-> RamContext(GetNacosProperties(c, "ak"), GetNacosProperties(c, "sk"),
                            GetNacosProperties(c, "token"), GetNacosProperties(c, "region"), TRUE),
     init |-> TRUE]

EcsRamRoleCredentialProvider(c, cloud) ==
    [match |-> c.ram /\ IsSet(c, {"ramRoleName"}), context |-> FromCloud(c, cloud, "cloud"),
     init |-> cloud # "initFails"]

RamRoleArnCredentialProvider(c, cloud) ==
    [match |-> /\ c.ram /\ IsSet(c, {"roleArn", "roleSessionName"})
               /\ \A p \in {"ak", "sk", "oidcProviderArn"} : ~IsSet(c, {p}),
     context |-> FromCloud(c, cloud, "cloud"), init |-> cloud # "initFails"]

OIDCRoleArnCredentialProvider(c, cloud) ==
    [match |-> c.ram /\ IsSet(c, {"roleArn", "roleSessionName", "oidcProviderArn", "oidcTokenFile"}),
     context |-> FromCloud(c, cloud, "cloud"), init |-> cloud # "initFails"]

CredentialsURICredentialProvider(c, cloud) ==
    [match |-> c.ram /\ IsSet(c, {"credentialsURI"}), context |-> FromCloud(c, cloud, "cloud"),
     init |-> cloud # "initFails"]

(* Mutant: the plain access key before the one with a token. *)
NewRamAuthClientKeyFirst(c, cloud) ==
    <<RamRoleArnCredentialProvider(c, cloud), EcsRamRoleCredentialProvider(c, cloud),
      OIDCRoleArnCredentialProvider(c, cloud), CredentialsURICredentialProvider(c, cloud),
      AutoRotateCredentialProvider(c, cloud), AccessKeyCredentialProvider(c, cloud),
      StsTokenCredentialProvider(c, cloud)>>

(* NewRamAuthClient: the providers in the order in which Login asks them. *)
NewRamAuthClient(c, cloud) ==
    <<RamRoleArnCredentialProvider(c, cloud), EcsRamRoleCredentialProvider(c, cloud),
      OIDCRoleArnCredentialProvider(c, cloud), CredentialsURICredentialProvider(c, cloud),
      AutoRotateCredentialProvider(c, cloud), StsTokenCredentialProvider(c, cloud),
      AccessKeyCredentialProvider(c, cloud)>>

(* NewRamAuthClientWithProvider: the user's provider comes last. *)
NewRamAuthClientWithProvider(c, cloud) ==
    NewRamAuthClient(c, cloud) \o
    IF c.custom
    THEN <<[match |-> TRUE, context |-> RamContext("custom", "custom", "none", "none", FALSE), init |-> TRUE]>>
    ELSE <<>>

(* Login: the first provider that matches stays, whatever its Init says. *)
Login(c, cloud) ==
    LET providers == NewRamAuthClientWithProvider(c, cloud)
        matching == {i \in DOMAIN providers : providers[i].match}
        first == CHOOSE i \in matching : \A j \in matching : i <= j
    IN IF matching = {} THEN [matched |-> FALSE, ok |-> FALSE, context |-> NoContext]
       ELSE [matched |-> TRUE, ok |-> providers[first].init, context |-> providers[first].context]

----------------------------------------------------------------------------
(* What is signed.  A name is the sequence of its parts: <<"g", "s">> is    *)
(* the grouped name g@@s, <<>> is no name.                                  *)

BuildNamingResource(namespace, group, serviceName) ==
    [requestType |-> "naming", namespace |-> namespace, group |-> group, resource |-> serviceName]

BuildConfigResource(tenant, group, dataId) ==
    [requestType |-> "config", namespace |-> tenant, group |-> group, resource |-> dataId]

NamingRequests == {"InstanceRequest", "BatchInstanceRequest", "ServiceListRequest",
                   "ServiceQueryRequest", "SubscribeServiceRequest"}
ConfigRequests == {"ConfigQueryRequest", "ConfigPublishRequest", "ConfigRemoveRequest"}

(* BuildNamingResourceByRequest: no name for any other request. *)
BuildNamingResourceByRequest(r) ==
    IF r.type \in NamingRequests THEN BuildNamingResource(r.namespace, r.group, r.name)
    ELSE BuildNamingResource(<<>>, <<>>, <<>>)

BuildConfigResourceByRequest(r) ==
    IF r.type \in ConfigRequests THEN BuildConfigResource(r.namespace, r.group, r.name)
    ELSE BuildConfigResource(<<>>, <<>>, <<>>)

(* Mutant: a name that has its group gets it again. *)
getGroupedServiceNameAlways(resource) ==
    IF resource.group = <<>> THEN resource.resource ELSE resource.group \o resource.resource

(* getGroupedServiceName *)
getGroupedServiceName(resource) ==
    IF Len(resource.resource) > 1 \/ resource.group = <<>> THEN resource.resource
    ELSE resource.group \o resource.resource

(* getResourceName *)
getResourceName(resource) == resource.namespace \o resource.group

(* finalSigningKey: a key derived from the secret, for a region.  (And for  *)
(* the day and the product, which are left out.)                            *)
finalSigningKey(secret, region) == <<secret, region>>

(* trySignatureWithV4: the key to sign with, derived when there is a region. *)
trySignatureWithV4(context) ==
    IF context.signatureRegionId = "none" THEN <<context.secretKey>>
    ELSE finalSigningKey(context.secretKey, context.signatureRegionId)

(* Sign: who has the data and the key can make the same signature. *)
Sign(data, key) == [data |-> data, key |-> key]

(* doInject of the two injectors: an empty key signs no config request. *)
doInject(resource, context) ==
    LET key == trySignatureWithV4(context) IN
    [accessKey |-> context.accessKey,
     token |-> IF context.ephemeralAccessKeyId THEN context.securityToken ELSE "none",
     version |-> IF context.signatureRegionId = "none" THEN "none" ELSE "v4",
     signature |-> IF resource.requestType = "naming" THEN Sign(getGroupedServiceName(resource), key)
                   ELSE IF key = <<"none">> THEN Sign(<<>>, <<>>)
                   ELSE Sign(getResourceName(resource), key)]

(* GetSecurityInfo: no headers without a provider. *)
GetSecurityInfo(login, resource) ==
    [present |-> login.matched, info |-> doInject(resource, login.context)]
=============================================================================
