------------------------------ MODULE Encryption ------------------------------
(***************************************************************************)
(* Encryption of configurations: the handler that chooses a plugin by the  *)
(* data id (common/encryption/handler.go), the plugins (kms_plugins.go),   *)
(* the AES layer with its padding (aes_ecb_pkcs5padding.go) and the KMS    *)
(* clients (kms_client.go).                                                *)
(* A data id is the set of the names it contains.  A content is [by, text]: *)
(* its bytes and who opens it, "plain" for all, "kms" or a data key.  A     *)
(* data key is known by its spec, plain or as the blob that the KMS opens.  *)
(* A client is "v1", "v3" or "nil"; every method called on "nil" panics.   *)
(* A key or key id that is empty, and an error that is nil, is "none".     *)
(***************************************************************************)
EXTENDS Integers, Sequences

CONSTANT BlockSize

ASSUME BlockSizeAssumption == BlockSize \in Nat \ {0}

CipherPrefix == "cipher-"
Plugins == {"cipher", "cipher-kms-aes-128", "cipher-kms-aes-256"}
NameLen == [p \in Plugins |-> IF p = "cipher" THEN 6 ELSE 18]

----------------------------------------------------------------------------
(* The clients.  A configuration is the set of what it gives a value.      *)

(* checkKmsV1InitParam, checkKmsRamInitParam and checkKmsV3InitParam. *)
checkKmsV1InitParam(cfg) == {"region", "ak", "sk"} \subseteq cfg
checkKmsRamInitParam(cfg) == {"kmsEndpoint", "ak", "sk"} \subseteq cfg
checkKmsV3InitParam(cfg) == {"v3Endpoint", "password", "clientKey", "ca"} \subseteq cfg

(* NewKmsRamClient: the endpoint decides between the versions. *)
NewKmsRamClient(cfg) ==
    IF "kmsEndpoint" \in cfg
    THEN IF checkKmsRamInitParam(cfg) THEN "v3" ELSE "nil"
    ELSE IF checkKmsV1InitParam(cfg) THEN "v1" ELSE "nil"

(* NewKmsV3ClientWithConfig; newKmsV3Client reads KMSv3Config without a check. *)
NewKmsV3ClientWithConfig(cfg) ==
    IF "kmsV3Config" \notin cfg THEN "panic" ELSE IF checkKmsV3InitParam(cfg) THEN "v3" ELSE "nil"

(* innerNewKmsClient *)
innerNewKmsClient(version, cfg) ==
    IF version \in {"KMSv1", "DEFAULT_KMS_VERSION"} THEN NewKmsRamClient(cfg)
    ELSE IF version = "KMSv3" THEN NewKmsV3ClientWithConfig(cfg) ELSE "nil"

(* RegisterConfigEncryptionKmsPlugins: an error is logged, and the plugins  *)
(* are registered with whatever client there is.                            *)
RegisterConfigEncryptionKmsPlugins(version, cfg) ==
    [plugins |-> Plugins, kmsClient |-> innerNewKmsClient(version, cfg)]

(* The KMS through its clients: Encrypt, and Decrypt of what it made.       *)
KmsEncrypt(content) == [by |-> "kms", text |-> content.text]
KmsDecrypt(content) == [by |-> "plain", text |-> content.text]

----------------------------------------------------------------------------
(* The AES layer. *)

(* Mutant: no padding when the text fills its last block. *)
PKCS5PaddingIfNeeded(text) ==
    LET padding == (BlockSize - (Len(text) % BlockSize)) % BlockSize IN
    text \o [i \in 1..padding |-> padding]

PKCS5Padding(text) ==
    LET padding == BlockSize - (Len(text) % BlockSize) IN text \o [i \in 1..padding |-> padding]

(* PKCS5UnPadding: the last byte says how much to cut; more than there is   *)
(* panics.                                                                  *)
PKCS5UnPadding(data) == SubSeq(data, 1, Len(data) - data[Len(data)])
UnPaddingPanics(data) == data[Len(data)] > Len(data)

AesEcbPkcs5PaddingEncrypt(content, key) == [by |-> key, text |-> PKCS5Padding(content.text)]

(* For a content that the same key made. *)
AesEcbPkcs5PaddingDecrypt(content) == [by |-> "plain", text |-> PKCS5UnPadding(content.text)]

----------------------------------------------------------------------------
(* The plugins.  A parameter is [dataId, keyId, content, encryptedDataKey,  *)
(* plainDataKey, err]; a step of a handler that has failed changes nothing. *)

Fails(param, err) == [param EXCEPT !.err = err]

(* keyIdParamCheck: the key to use, "none" for KeyIdParamCheckError. *)
keyIdParamCheck(keyId, client) ==
    IF keyId # "none" THEN keyId ELSE IF client = "v1" THEN "MSE_KMSv1_DEFAULT_KEY_ID" ELSE "none"

(* GenerateSecretKey of the AES plugins, for a spec. *)
GenerateDataKey(spec, param, client) ==
    IF client = "nil" THEN Fails(param, "panic")
    ELSE IF keyIdParamCheck(param.keyId, client) = "none" THEN Fails(param, "keyId")
    ELSE [param EXCEPT !.plainDataKey = spec, !.encryptedDataKey = spec]

(* kmsPlugin.Encrypt, DecryptSecretKey and Decrypt, shared by the two.  What *)
(* Decrypt gives for a content that its key did not make is garbage, if it   *)
(* is not an error already; here it is "aes".                                *)
AesEncrypt(param) ==
    IF param.err # "none" THEN param
    ELSE [param EXCEPT !.content = AesEcbPkcs5PaddingEncrypt(param.content, param.plainDataKey)]

DecryptSecretKey(param, client) ==
    IF param.encryptedDataKey = "none" THEN Fails(param, "emptyKey")
    ELSE IF client = "nil" THEN Fails(param, "panic")
    ELSE [param EXCEPT !.plainDataKey = param.encryptedDataKey]

AesDecrypt(param) ==
    IF param.err # "none" THEN param
    ELSE IF param.content.by # param.plainDataKey THEN Fails(param, "aes")
    ELSE IF UnPaddingPanics(param.content.text) THEN Fails(param, "panic")
    ELSE [param EXCEPT !.content = AesEcbPkcs5PaddingDecrypt(param.content)]

(* KmsAes128Plugin and KmsAes256Plugin: GenerateSecretKey, then Encrypt. *)
KmsAes128Plugin(param, client) == AesEncrypt(GenerateDataKey("AES_128", param, client))
KmsAes256Plugin(param, client) == AesEncrypt(GenerateDataKey("AES_256", param, client))

(* KmsBasePlugin, which has no data key: its Encrypt, and its Decrypt.  A   *)
(* value that the KMS did not make is refused by it.                        *)
KmsBasePlugin(param, client) ==
    IF client = "nil" THEN Fails(param, "panic")
    ELSE IF keyIdParamCheck(param.keyId, client) = "none" THEN Fails(param, "keyId")
    ELSE [param EXCEPT !.content = KmsEncrypt(param.content)]

KmsBasePluginDecrypt(param, client) ==
    IF client = "nil" THEN Fails(param, "panic")
    ELSE IF param.content.by = "kms" THEN [param EXCEPT !.content = KmsDecrypt(param.content)]
    ELSE Fails(param, "kms")

----------------------------------------------------------------------------
(* The handler. *)

(* Mutant: the first plugin whose name is in the data id. *)
getPluginFirstMatch(dataId) == Plugins \cap dataId

(* getPluginByDataIdPrefix: the map is ranged over in any order, and a      *)
(* longer name replaces a shorter one; so any plugin of the longest names.  *)
getPluginByDataIdPrefix(dataId) ==
    {p \in Plugins \cap dataId : \A q \in Plugins \cap dataId : NameLen[p] >= NameLen[q]}

(* encryptionParamCheck, and decryptionParamCheck *)
encryptionParamCheck(param) ==
    IF CipherPrefix \notin param.dataId THEN Fails(param, "dataId")
    ELSE IF param.content.text = <<>> THEN Fails(param, "content") ELSE param

(* EncryptionHandler and DecryptionHandler: what they may return. *)
EncryptPlain(param, client) ==
    LET checked == encryptionParamCheck(param)
        By(plugin) == CASE plugin = "cipher" -> KmsBasePlugin(param, client)
                        [] plugin = "cipher-kms-aes-128" -> KmsAes128Plugin(param, client)
                        [] plugin = "cipher-kms-aes-256" -> KmsAes256Plugin(param, client)
    IN IF checked.err # "none" THEN {checked}
       ELSE {By(plugin) : plugin \in getPluginByDataIdPrefix(param.dataId)}

DecryptCipher(param, client) ==
    LET checked == encryptionParamCheck(param)
        By(plugin) == IF plugin = "cipher" THEN KmsBasePluginDecrypt(param, client)
                      ELSE AesDecrypt(DecryptSecretKey(param, client))
    IN IF checked.err # "none" THEN {checked}
       ELSE {By(plugin) : plugin \in getPluginByDataIdPrefix(param.dataId)}
=============================================================================
