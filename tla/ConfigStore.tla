---------------------------- MODULE ConfigStore ----------------------------
(***************************************************************************)
(* Reading, publishing and deleting one config: config_client.go,          *)
(* config_proxy.go, the files of disk_cache.go, the rate limiter and the   *)
(* encryption filter.  Readers are goroutines in GetConfig.                *)
(*                                                                         *)
(* The n-th content that is published is -n in the clear and n encrypted;  *)
(* 0 is an empty one.  Its data key, wrapped by the KMS, is n, too, or 0   *)
(* where there is none: each content has a key of its own, so a content    *)
(* and a key go together when they are the same number.                    *)
(***************************************************************************)
EXTENDS Integers, FiniteSets

CONSTANTS
    Readers,
    Algorithms,           \* plugins that the dataId may name; "none": no cipher- prefix
    DisableUseSnapShot,
    Burst,                \* of the limiter, 5
    NoFile,
    MaxVersion            \* bound: contents published

ASSUME StoreAssumption ==
    /\ Algorithms \subseteq {"none", "cipher", "aes"}
    /\ DisableUseSnapShot \in BOOLEAN
    /\ Burst \in Nat \ {0} /\ MaxVersion \in Nat \ {0}
    /\ NoFile \notin Int

Contents == -MaxVersion..MaxVersion
Keys == 0..MaxVersion
Files == Contents \union {NoFile}
KeyFiles == Keys \union {NoFile}

VARIABLES
    algorithm,      \* what the dataId says, for ever
    openKMS,        \* the filter chain has the encryption filter, for ever
    stored,         \* external: what the server has, [content, key]
    version,        \* contents published so far
    snapshot,       \* the file with the content
    keyFile,        \* the file with the encrypted data key
    failover,       \* external: the two files an operator may put, [content, key]
    tokens,         \* of the limiter of this config
    reader,         \* reader -> GetConfig in progress, or the last one
    alone,          \* history: readers at the files that met no writer there
    torn,           \* history: the files may not be the two of one answer
    last            \* history: the content of the answer that is in the files

fileVars == <<snapshot, keyFile, alone, torn, last>>
vars == <<algorithm, openKMS, stored, version, fileVars, failover, tokens, reader>>

Nothing == [content |-> 0, key |-> 0]
NoReader == [pc |-> "idle", content |-> 0, key |-> 0, due |-> NoFile, result |-> "none"]

Writing == {"truncate", "fill", "truncateKey", "fillKey"}
Reading == {"readContent", "readKey"}

TypeOK ==
    /\ algorithm \in Algorithms /\ openKMS \in BOOLEAN
    /\ stored \in [content : Contents, key : Keys]
    /\ version \in Keys
    /\ snapshot \in Files /\ keyFile \in KeyFiles
    /\ failover \in [content : Files, key : KeyFiles]
    /\ tokens \in 0..Burst
    /\ reader \in [Readers -> [pc : {"idle", "query", "filter"} \union Writing \union Reading,
                               content : Contents, key : Keys, due : Files,
                               result : {"none", "value", "ciphertext", "error", "garbage", "panic"}]]
    /\ alone \subseteq Readers /\ torn \in BOOLEAN /\ last \in Contents

(* A client that has never run here.  It has the filter if OpenKMS is set   *)
(* and the filter could be registered; a failure is logged and no more.     *)
Init ==
    /\ algorithm \in Algorithms /\ openKMS \in BOOLEAN
    /\ stored = Nothing /\ version = 0
    /\ snapshot = NoFile /\ keyFile = NoFile
    /\ failover = [content |-> NoFile, key |-> NoFile]
    /\ tokens = Burst
    /\ reader = [r \in Readers |-> NoReader]
    /\ alone = {} /\ torn = FALSE /\ last = 0

----------------------------------------------------------------------------
(* The encryption filter                                                    *)

(* EncryptionHandler by the plugin of the longest name in the dataId: the   *)
(* aes plugins ask the KMS for a data key, the base one lets it encrypt.    *)
EncryptionHandler(n) == [content |-> n, key |-> IF algorithm = "aes" THEN n ELSE 0]

(* DecryptionHandler: what may come of content c with wrapped key e.  The   *)
(* KMS refuses what it did not encrypt.  The padding of what a wrong key    *)
(* gives may be longer than the text.                                       *)
DecryptionHandler(c, e) ==
    CASE algorithm = "cipher" -> {IF c > 0 THEN "value" ELSE "error"}
      [] algorithm = "aes" /\ e = 0 -> {"error"}
      [] algorithm = "aes" /\ e = c -> {"value"}
      [] OTHER -> {"garbage", "error", "panic"}

(* DoFilters of an answer: nothing to do without the filter, for a plain    *)
(* dataId or no content, else the KMS is needed, and may fail.              *)
DoFilters(c, e) ==
    IF ~openKMS \/ algorithm = "none" \/ c = 0 THEN {IF c > 0 THEN "ciphertext" ELSE "value"}
    ELSE DecryptionHandler(c, e) \union {"error"}

----------------------------------------------------------------------------
(* The files                                                                *)

(* Reader r comes to the files: what a writer meets there is not alone. *)
Met == {r \in Readers : reader[r].pc \in Writing}
ComesToRead(r) == alone' = IF Met = {} THEN alone \union {r} ELSE alone
ComesToWrite(r) == alone' = IF Met = {} THEN {r} ELSE {}

(* writeConfigToFile takes two steps.  First an empty content removes the   *)
(* file (if there is none that is all), any other one truncates it.         *)
Truncated(c) == IF c = 0 THEN NoFile ELSE 0
NoNeedToDelete(c, f) == c = 0 /\ f = NoFile

Goes(r, pc) == reader' = [reader EXCEPT ![r].pc = pc]

(* Mutant: an empty content is not written, so the old one stays. *)
TruncatesUnlessEmpty(r) ==
    /\ reader[r].pc = "truncate"
    /\ Goes(r, IF reader[r].content = 0 THEN "truncateKey" ELSE "fill")
    /\ snapshot' = IF reader[r].content = 0 THEN snapshot ELSE 0
    /\ UNCHANGED <<algorithm, openKMS, stored, version, keyFile, alone, torn, last, failover, tokens>>

(* WriteConfigToFile *)
Truncates(r) ==
    /\ reader[r].pc = "truncate"
    /\ Goes(r, IF NoNeedToDelete(reader[r].content, snapshot) THEN "truncateKey" ELSE "fill")
    /\ snapshot' = Truncated(reader[r].content)
    /\ UNCHANGED <<algorithm, openKMS, stored, version, keyFile, alone, torn, last, failover, tokens>>

(* then it is written: after a removal, an empty file again. *)
Fills(r) ==
    /\ reader[r].pc = "fill"
    /\ Goes(r, "truncateKey")
    /\ snapshot' = reader[r].content
    /\ UNCHANGED <<algorithm, openKMS, stored, version, keyFile, alone, torn, last, failover, tokens>>

(* WriteEncryptedDataKeyToFile.  The last step puts the history right.      *)
Written(r) ==
    /\ Goes(r, "filter")
    /\ torn' = (r \notin alone) /\ alone' = alone \ {r}
    /\ last' = reader[r].content

TruncatesKey(r) ==
    /\ reader[r].pc = "truncateKey"
    /\ IF NoNeedToDelete(reader[r].key, keyFile) THEN Written(r)
       ELSE Goes(r, "fillKey") /\ UNCHANGED <<alone, torn, last>>
    /\ keyFile' = Truncated(reader[r].key)
    /\ UNCHANGED <<algorithm, openKMS, stored, version, snapshot, failover, tokens>>

FillsKey(r) ==
    /\ reader[r].pc = "fillKey"
    /\ Written(r)
    /\ keyFile' = reader[r].key
    /\ UNCHANGED <<algorithm, openKMS, stored, version, snapshot, failover, tokens>>

(* A write fails, the disk is full, say: queryConfig goes on to the next    *)
(* file all the same.                                                       *)
WriteFails(r) ==
    /\ \/ reader[r].pc \in {"truncate", "fill"} /\ Goes(r, "truncateKey")
       \/ reader[r].pc \in {"truncateKey", "fillKey"} /\ Goes(r, "filter")
    /\ torn' = TRUE /\ alone' = alone \ {r}
    /\ UNCHANGED <<algorithm, openKMS, stored, version, snapshot, keyFile, last, failover, tokens>>

----------------------------------------------------------------------------
(* GetConfig                                                                *)

Starts(r, pc, content, key) ==
    reader' = [reader EXCEPT ![r] = [pc |-> pc, content |-> content, key |-> key, due |-> NoFile,
                                     result |-> "none"]]

(* getConfigInner: failover files come before the server. *)
GetFailover(r) ==
    /\ reader[r].pc = "idle"
    /\ failover.content \notin {NoFile, 0}
    /\ Starts(r, "filter", failover.content, IF failover.key = NoFile THEN 0 ELSE failover.key)
    /\ UNCHANGED <<algorithm, openKMS, stored, version, fileVars, failover, tokens>>

(* Mutant: AllowN without the look at what is left. *)
QueriesUnlimited(r) ==
    /\ reader[r].pc = "idle"
    /\ failover.content \in {NoFile, 0}
    /\ tokens' = tokens - 1
    /\ Starts(r, "query", 0, 0)
    /\ UNCHANGED <<algorithm, openKMS, stored, version, fileVars, failover>>

(* queryConfig up to the request: IsLimited takes a token. *)
Queries(r) ==
    /\ reader[r].pc = "idle"
    /\ failover.content \in {NoFile, 0}
    /\ tokens > 0 /\ tokens' = tokens - 1
    /\ Starts(r, "query", 0, 0)
    /\ UNCHANGED <<algorithm, openKMS, stored, version, fileVars, failover>>

(* No answer of the server: on to the snapshot, or an error. *)
Unanswered(r) ==
    IF DisableUseSnapShot
    THEN /\ reader' = [reader EXCEPT ![r] = [NoReader EXCEPT !.result = "error"]]
         /\ UNCHANGED alone
    ELSE Starts(r, "readContent", 0, 0) /\ ComesToRead(r)

IsLimited(r) ==
    /\ reader[r].pc = "idle"
    /\ failover.content \in {NoFile, 0}
    /\ tokens = 0
    /\ Unanswered(r)
    /\ UNCHANGED <<algorithm, openKMS, stored, version, snapshot, keyFile, torn, last, failover, tokens>>

(* The request fails, times out, or the config is "being modified" (400). *)
QueryFails(r) ==
    /\ reader[r].pc = "query"
    /\ Unanswered(r)
    /\ UNCHANGED <<algorithm, openKMS, stored, version, snapshot, keyFile, torn, last, failover, tokens>>

(* Any other code is an error, and the snapshot is not looked at. *)
QueryRefused(r) ==
    /\ reader[r].pc = "query"
    /\ reader' = [reader EXCEPT ![r] = [NoReader EXCEPT !.result = "error"]]
    /\ UNCHANGED <<algorithm, openKMS, stored, version, fileVars, failover, tokens>>

(* The content, or 300, "not found", which is a success with nothing in it. *)
QueryAnswered(r) ==
    /\ reader[r].pc = "query"
    /\ Starts(r, "truncate", stored.content, stored.key)
    /\ ComesToWrite(r)
    /\ UNCHANGED <<algorithm, openKMS, stored, version, snapshot, keyFile, torn, last, failover, tokens>>

(* History: what the files should give r, if anything. *)
Due(r) == IF ~torn /\ r \in alone THEN last ELSE NoFile

(* ReadConfigFromFile; the key is read only for a cipher- dataId. *)
ReadConfigFromFile(r) ==
    /\ reader[r].pc = "readContent"
    /\ reader' = [reader EXCEPT ![r] =
           IF snapshot = NoFile THEN [NoReader EXCEPT !.result = "error"]
           ELSE [@ EXCEPT !.content = snapshot, !.due = Due(r),
                          !.pc = IF algorithm = "none" THEN "filter" ELSE "readKey"]]
    /\ alone' = IF reader'[r].pc = "readKey" THEN alone ELSE alone \ {r}
    /\ UNCHANGED <<algorithm, openKMS, stored, version, snapshot, keyFile, torn, last, failover, tokens>>

(* ReadEncryptedDataKeyFromFile: no file is no key. *)
ReadEncryptedDataKeyFromFile(r) ==
    /\ reader[r].pc = "readKey"
    /\ reader' = [reader EXCEPT ![r].key = IF keyFile = NoFile THEN 0 ELSE keyFile,
                                ![r].due = Due(r), ![r].pc = "filter"]
    /\ alone' = alone \ {r}
    /\ UNCHANGED <<algorithm, openKMS, stored, version, snapshot, keyFile, torn, last, failover, tokens>>

(* DoFilters, and GetConfig returns. *)
Returns(r) ==
    /\ reader[r].pc = "filter"
    /\ \E result \in DoFilters(reader[r].content, reader[r].key) :
           reader' = [reader EXCEPT ![r].pc = "idle", ![r].key = 0, ![r].result = result]
    /\ UNCHANGED <<algorithm, openKMS, stored, version, fileVars, failover, tokens>>

GetConfig(r) ==
    \/ GetFailover(r) \/ Queries(r) \/ IsLimited(r) \/ QueryFails(r) \/ QueryRefused(r) \/ QueryAnswered(r)
    \/ Truncates(r) \/ Fills(r) \/ TruncatesKey(r) \/ FillsKey(r) \/ WriteFails(r)
    \/ ReadConfigFromFile(r) \/ ReadEncryptedDataKeyFromFile(r) \/ Returns(r)

----------------------------------------------------------------------------
(* PublishConfig, by this client or another, whose chain has the filter or  *)
(* not: without it, or for a plain dataId, the content goes out as it is.   *)
(* When the filters (the KMS) or the request fail nothing is stored.  An    *)
(* answer that is lost makes it an error to the caller only.                *)
PublishConfig ==
    /\ version < MaxVersion /\ version' = version + 1
    /\ \E filter, fails \in BOOLEAN :
           stored' = IF fails THEN stored
                     ELSE IF filter /\ algorithm # "none" THEN EncryptionHandler(version')
                     ELSE [content |-> -version', key |-> 0]
    /\ UNCHANGED <<algorithm, openKMS, fileVars, failover, tokens, reader>>

DeleteConfig ==
    /\ stored # Nothing /\ stored' = Nothing
    /\ UNCHANGED <<algorithm, openKMS, version, fileVars, failover, tokens, reader>>

(* External: an operator puts the failover files, or takes them away. *)
PutFailover ==
    /\ failover' = IF failover.content = NoFile
                   THEN [content |-> stored.content, key |-> stored.key]
                   ELSE [content |-> NoFile, key |-> NoFile]
    /\ UNCHANGED <<algorithm, openKMS, stored, version, fileVars, tokens, reader>>

(* Time passes: the limiter has a token again. *)
Refill ==
    /\ tokens < Burst /\ tokens' = tokens + 1
    /\ UNCHANGED <<algorithm, openKMS, stored, version, fileVars, failover, reader>>

(* The process ends and is started again: only the files stay. *)
Crash ==
    /\ torn' = (torn \/ Met # {})
    /\ reader' = [r \in Readers |-> NoReader]
    /\ alone' = {} /\ tokens' = Burst
    /\ UNCHANGED <<algorithm, openKMS, stored, version, snapshot, keyFile, last, failover>>

Next ==
    \/ \E r \in Readers : GetConfig(r)
    \/ PublishConfig \/ DeleteConfig \/ PutFailover \/ Refill \/ Crash

Spec == Init /\ [][Next]_vars

----------------------------------------------------------------------------
(* While no two goroutines were at the files together, no write failed and  *)
(* none was cut short by a crash, the snapshot gives what the last answer   *)
(* of the server said: its content, decrypted, or an error; never another   *)
(* version, nor a content under another one's key.                          *)
SnapshotIsLastAnswer ==
    \A r \in Readers : reader[r].due # NoFile =>
        /\ reader[r].result \notin {"garbage", "panic"}
        /\ reader[r].result \in {"value", "ciphertext"} => reader[r].content = reader[r].due
=============================================================================
