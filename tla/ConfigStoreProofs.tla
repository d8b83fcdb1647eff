------------------------- MODULE ConfigStoreProofs -------------------------
(***************************************************************************)
(* Proofs about ConfigStore for any goroutines, versions and burst.        *)
(* SnapshotIsLastAnswer speaks of what GetConfig returned.  To be          *)
(* inductive it needs what holds on the way there: who is alone at the     *)
(* files, what the files hold when nobody writes them, what a writer that  *)
(* is alone has written so far, and what a reader that is alone has read.  *)
(***************************************************************************)
EXTENDS ConfigStore, TLAPS

(* The wrapped data key that goes with a content. *)
KeyOf(c) == IF algorithm = "aes" /\ c > 0 THEN c ELSE 0

(* A file that holds the text c: no file is an empty text. *)
Gives(file, c) == file = c \/ (file = NoFile /\ c = 0)

StoredTogether == stored.key = KeyOf(stored.content)

(* A writer that is alone is the only writer, a reader that is alone has    *)
(* no writer beside it.                                                     *)
AloneAtFiles ==
    \A r \in alone :
        \/ reader[r].pc \in Writing /\ Met = {r}
        \/ reader[r].pc \in Reading /\ Met = {}

(* What a client that starts finds: the content and the key of the last     *)
(* answer, unless a write was cut short or met another.                     *)
FilesHoldLast ==
    ~torn /\ Met = {} => Gives(snapshot, last) /\ Gives(keyFile, KeyOf(last))

WriterKnows(r) ==
    reader[r].pc \in Writing =>
        /\ reader[r].key = KeyOf(reader[r].content)
        /\ r \in alone /\ reader[r].pc \in {"truncateKey", "fillKey"} => Gives(snapshot, reader[r].content)

ReaderKnows(r) ==
    /\ reader[r].pc # "idle" => reader[r].result = "none"
    /\ reader[r].pc \notin {"idle", "readKey", "filter"} => reader[r].due = NoFile
    /\ reader[r].pc = "readContent" => reader[r].key = 0
    /\ reader[r].pc = "readKey" /\ r \in alone /\ ~torn => reader[r].content = last
    /\ reader[r].pc = "filter" /\ reader[r].due # NoFile =>
        reader[r].content = reader[r].due /\ reader[r].key = KeyOf(reader[r].content)
    /\ reader[r].pc = "idle" /\ reader[r].due # NoFile =>
        /\ reader[r].result \notin {"garbage", "panic"}
        /\ reader[r].result \in {"value", "ciphertext"} => reader[r].content = reader[r].due

Knowledge == \A r \in Readers : WriterKnows(r) /\ ReaderKnows(r)

StoreInv ==
    TypeOK /\ StoredTogether /\ AloneAtFiles /\ FilesHoldLast /\ Knowledge

-----------------------------------------------------------------------------
(* Types. *)

ReaderRecord ==
    [pc : {"idle", "query", "filter"} \union Writing \union Reading,
     content : Contents, key : Keys, due : Files,
     result : {"none", "value", "ciphertext", "error", "garbage", "panic"}]

(* A content is a file's text, an empty one is one, and no file is none.   *)
LEMMA ContentsFacts ==
    /\ 0 \in Contents /\ 0 \in Files /\ NoFile \in Files /\ NoFile \notin Contents
    /\ 0 \in Keys /\ 0 \in KeyFiles /\ NoFile \in KeyFiles /\ NoFile \notin Keys
    /\ Contents \subseteq Int /\ Keys \subseteq Nat
  BY StoreAssumption DEF Contents, Files, Keys, KeyFiles

(* The two ways a goroutine's record is replaced, and what comes of a text. *)
LEMMA RecordFacts ==
    /\ NoReader \in ReaderRecord /\ [NoReader EXCEPT !.result = "error"] \in ReaderRecord
    /\ \A c \in Contents, e \in Keys :
        DoFilters(c, e) \subseteq {"value", "ciphertext", "error", "garbage", "panic"}
    /\ \A c \in Contents : Truncated(c) \in Files
    /\ \A e \in Keys : Truncated(e) \in KeyFiles
  <1>1. NoReader \in ReaderRecord /\ [NoReader EXCEPT !.result = "error"] \in ReaderRecord
    BY ContentsFacts DEF NoReader, ReaderRecord
  <1>2. \A c \in Contents, e \in Keys :
        DoFilters(c, e) \subseteq {"value", "ciphertext", "error", "garbage", "panic"}
    BY DEF DoFilters, DecryptionHandler
  <1>3. (\A c \in Contents : Truncated(c) \in Files) /\ \A e \in Keys : Truncated(e) \in KeyFiles
    BY ContentsFacts DEF Truncated
  <1> QED BY <1>1, <1>2, <1>3

(* Every step of a goroutine in GetConfig keeps the types. *)
LEMMA GetConfigTyped ==
    ASSUME TypeOK, NEW r \in Readers, GetConfig(r)
    PROVE  TypeOK'
  <1> USE ContentsFacts
  <1>1. reader \in [Readers -> ReaderRecord] /\ reader[r] \in ReaderRecord
    BY DEF TypeOK, ReaderRecord
  <1>2. ASSUME NEW pc \in {"idle", "query", "filter"} \union Writing \union Reading,
               NEW c \in Contents, NEW e \in Keys, Starts(r, pc, c, e)
        PROVE  reader' \in [Readers -> ReaderRecord]
    BY <1>1, <1>2 DEF Starts, ReaderRecord
  <1>3. ASSUME NEW pc \in {"idle", "query", "filter"} \union Writing \union Reading, Goes(r, pc)
        PROVE  reader' \in [Readers -> ReaderRecord]
    BY <1>1, <1>3 DEF Goes, ReaderRecord
  <1>4. CASE reader' \in [Readers -> ReaderRecord]
    <2> USE <1>4 DEF TypeOK, fileVars
    <2>1. reader' \in [Readers -> [pc : {"idle", "query", "filter"} \union Writing \union Reading,
                                   content : Contents, key : Keys, due : Files,
                                   result : {"none", "value", "ciphertext", "error", "garbage", "panic"}]]
      BY DEF ReaderRecord
    <2>2. CASE GetFailover(r) \/ QueryRefused(r) \/ Returns(r)
      BY <2>1, <2>2 DEF GetFailover, QueryRefused, Returns
    <2>3. CASE Queries(r)
      <3>1. tokens' \in 0..Burst
        BY <2>3, StoreAssumption DEF Queries
      <3> QED BY <2>1, <2>3, <3>1 DEF Queries
    <2>4. CASE IsLimited(r) \/ QueryFails(r)
      <3>1. alone' \subseteq Readers
        BY <2>4 DEF IsLimited, QueryFails, Unanswered, ComesToRead
      <3> QED BY <2>1, <2>4, <3>1 DEF IsLimited, QueryFails
    <2>5. CASE QueryAnswered(r)
      BY <2>1, <2>5 DEF QueryAnswered, ComesToWrite
    <2>6. CASE Truncates(r)
      <3>1. snapshot' \in Files
        BY <1>1, <2>6, RecordFacts DEF Truncates, ReaderRecord
      <3> QED BY <2>1, <2>6, <3>1 DEF Truncates
    <2>7. CASE Fills(r)
      <3>1. snapshot' \in Files
        BY <1>1, <2>7 DEF Fills, ReaderRecord, Files
      <3> QED BY <2>1, <2>7, <3>1 DEF Fills
    <2>8. ASSUME Written(r) PROVE alone' \subseteq Readers /\ torn' \in BOOLEAN /\ last' \in Contents
      BY <1>1, <2>8 DEF Written, ReaderRecord
    <2>9. CASE TruncatesKey(r)
      <3>1. keyFile' \in KeyFiles
        BY <1>1, <2>9, RecordFacts DEF TruncatesKey, ReaderRecord
      <3>2. alone' \subseteq Readers /\ torn' \in BOOLEAN /\ last' \in Contents
        BY <2>8, <2>9 DEF TruncatesKey
      <3> QED BY <2>1, <2>9, <3>1, <3>2 DEF TruncatesKey
    <2>10. CASE FillsKey(r)
      <3>1. keyFile' \in KeyFiles
        BY <1>1, <2>10 DEF FillsKey, ReaderRecord, KeyFiles
      <3> QED BY <2>1, <2>8, <2>10, <3>1 DEF FillsKey
    <2>11. CASE WriteFails(r)
      BY <2>1, <2>11 DEF WriteFails
    <2>12. CASE ReadConfigFromFile(r) \/ ReadEncryptedDataKeyFromFile(r)
      <3>1. alone' \subseteq Readers
        BY <2>12 DEF ReadConfigFromFile, ReadEncryptedDataKeyFromFile
      <3> QED BY <2>1, <2>12, <3>1 DEF ReadConfigFromFile, ReadEncryptedDataKeyFromFile
    <2> QED BY <2>2, <2>3, <2>4, <2>5, <2>6, <2>7, <2>9, <2>10, <2>11, <2>12 DEF GetConfig
  <1>5. reader' \in [Readers -> ReaderRecord]
    <2>1. CASE GetFailover(r)
      <3>1. failover.content \in Contents /\ (IF failover.key = NoFile THEN 0 ELSE failover.key) \in Keys
        BY <2>1 DEF GetFailover, TypeOK, Files, KeyFiles
      <3> QED BY <1>2, <2>1, <3>1 DEF GetFailover
    <2>2. CASE Queries(r)
      BY <1>2, <2>2 DEF Queries
    <2>3. CASE IsLimited(r) \/ QueryFails(r)
      BY <1>1, <1>2, <2>3, RecordFacts DEF IsLimited, QueryFails, Unanswered, Reading
    <2>4. CASE QueryRefused(r)
      BY <1>1, <2>4, RecordFacts DEF QueryRefused
    <2>5. CASE QueryAnswered(r)
      BY <1>2, <2>5 DEF QueryAnswered, TypeOK, Writing
    <2>6. CASE Truncates(r) \/ Fills(r) \/ TruncatesKey(r) \/ FillsKey(r) \/ WriteFails(r)
      BY <1>3, <2>6 DEF Truncates, Fills, TruncatesKey, FillsKey, WriteFails, Written, Writing
    <2>7. Due(r) \in Files
      BY DEF Due, TypeOK, Files
    <2>8. CASE ReadConfigFromFile(r)
      <3>1. CASE snapshot = NoFile
        BY <1>1, <2>8, <3>1, RecordFacts DEF ReadConfigFromFile
      <3>2. CASE snapshot # NoFile
        <4>1. snapshot \in Contents
          BY <3>2 DEF TypeOK, Files
        <4> QED BY <1>1, <2>7, <2>8, <3>2, <4>1 DEF ReadConfigFromFile, ReaderRecord, Reading
      <3> QED BY <3>1, <3>2
    <2>9. CASE ReadEncryptedDataKeyFromFile(r)
      <3>1. (IF keyFile = NoFile THEN 0 ELSE keyFile) \in Keys
        BY DEF TypeOK, KeyFiles
      <3> QED BY <1>1, <2>7, <2>9, <3>1 DEF ReadEncryptedDataKeyFromFile, ReaderRecord
    <2>10. CASE Returns(r)
      <3>1. PICK result \in DoFilters(reader[r].content, reader[r].key) :
                reader' = [reader EXCEPT ![r].pc = "idle", ![r].key = 0, ![r].result = result]
        BY <2>10 DEF Returns
      <3>2. result \in {"value", "ciphertext", "error", "garbage", "panic"}
        BY <1>1, RecordFacts DEF ReaderRecord
      <3> QED BY <1>1, <3>1, <3>2 DEF ReaderRecord
    <2> QED BY <2>1, <2>2, <2>3, <2>4, <2>5, <2>6, <2>8, <2>9, <2>10 DEF GetConfig
  <1> QED BY <1>4, <1>5

(* So does every other step: publishing, the operator, time and crashes.   *)
LEMMA OthersTyped ==
    ASSUME TypeOK, PublishConfig \/ DeleteConfig \/ PutFailover \/ Refill \/ Crash
    PROVE  TypeOK'
  <1> USE ContentsFacts DEF TypeOK, fileVars
  <1>1. CASE PublishConfig
    <2>1. version' \in Keys /\ version' \in Contents /\ -version' \in Contents
      BY <1>1, StoreAssumption DEF PublishConfig, Contents, Keys
    <2>2. stored' \in [content : Contents, key : Keys]
      BY <1>1, <2>1 DEF PublishConfig, EncryptionHandler
    <2> QED BY <1>1, <2>1, <2>2 DEF PublishConfig
  <1>2. CASE DeleteConfig
    BY <1>2 DEF DeleteConfig, Nothing
  <1>3. CASE PutFailover
    BY <1>3 DEF PutFailover, Files, KeyFiles
  <1>4. CASE Refill
    <2>1. tokens' \in 0..Burst
      BY <1>4, StoreAssumption DEF Refill
    <2> QED BY <1>4, <2>1 DEF Refill
  <1>5. CASE Crash
    <2>1. reader' \in [Readers -> ReaderRecord]
      BY <1>5, RecordFacts DEF Crash
    <2>2. tokens' \in 0..Burst
      BY <1>5, StoreAssumption DEF Crash
    <2> QED BY <1>5, <2>1, <2>2 DEF Crash, ReaderRecord
  <1> QED BY <1>1, <1>2, <1>3, <1>4, <1>5

-----------------------------------------------------------------------------
(* What the goroutines at the files know. *)

(* What a program counter that is not at the files is.                     *)
LEMMA PlacesDiffer ==
    /\ Writing \intersect Reading = {}
    /\ {"idle", "query", "filter"} \intersect (Writing \union Reading) = {}
  BY DEF Writing, Reading

(* One goroutine's move changes the writers by no more than itself.        *)
LEMMA MetMoves ==
    ASSUME NEW r \in Readers, \A q \in Readers \ {r} : reader'[q] = reader[q]
    PROVE  Met' = IF reader'[r].pc \in Writing THEN Met \union {r} ELSE Met \ {r}
  BY DEF Met

(* A step of a goroutine that is no writer before or after, and leaves the *)
(* files alone, keeps the invariant if its own knowledge is right.         *)
LEMMA QuietStep ==
    ASSUME StoreInv, NEW r \in Readers, TypeOK',
           \A q \in Readers \ {r} : reader'[q] = reader[q],
           UNCHANGED <<algorithm, stored, snapshot, keyFile, torn, last>>,
           reader[r].pc \notin Writing, reader'[r].pc \notin Writing,
           alone' \ {r} = alone \ {r},
           r \in alone' => reader'[r].pc \in Reading /\ Met = {},
           ReaderKnows(r)'
    PROVE  StoreInv'
  <1> USE DEF StoreInv
  <1>1. Met' = Met
    <2>1. r \notin Met
      BY DEF Met
    <2> QED BY <2>1, MetMoves
  <1>2. StoredTogether'
    BY DEF StoredTogether, KeyOf
  <1>3. AloneAtFiles'
    <2> SUFFICES ASSUME NEW q \in alone'
                 PROVE  \/ reader'[q].pc \in Writing /\ Met' = {q}
                        \/ reader'[q].pc \in Reading /\ Met' = {}
      BY DEF AloneAtFiles
    <2>1. CASE q = r
      BY <1>1, <2>1
    <2>2. CASE q # r
      <3>1. q \in alone /\ q \in Readers
        BY <2>2 DEF TypeOK
      <3> QED BY <1>1, <2>2, <3>1 DEF AloneAtFiles
    <2> QED BY <2>1, <2>2
  <1>4. FilesHoldLast'
    BY <1>1 DEF FilesHoldLast, Gives, KeyOf
  <1>5. Knowledge'
    <2> SUFFICES ASSUME NEW q \in Readers PROVE (WriterKnows(q) /\ ReaderKnows(q))'
      BY DEF Knowledge
    <2>1. CASE q = r
      BY <2>1 DEF WriterKnows
    <2>2. CASE q # r
      <3>1. reader'[q] = reader[q] /\ (q \in alone' <=> q \in alone)
        BY <2>2
      <3>2. WriterKnows(q)'
        BY <3>1 DEF Knowledge, WriterKnows, Gives, KeyOf
      <3>3. ReaderKnows(q)'
        BY <3>1 DEF Knowledge, ReaderKnows, KeyOf
      <3> QED BY <3>2, <3>3
    <2> QED BY <2>1, <2>2
  <1> QED BY <1>2, <1>3, <1>4, <1>5

(* GetConfig up to the files, and after them. *)
LEMMA AwayFromFiles ==
    ASSUME StoreInv, TypeOK', NEW r \in Readers,
           GetFailover(r) \/ Queries(r) \/ IsLimited(r) \/ QueryFails(r) \/ QueryRefused(r) \/ Returns(r)
    PROVE  StoreInv'
  <1>1. UNCHANGED <<algorithm, stored, snapshot, keyFile, torn, last>>
    BY DEF GetFailover, Queries, IsLimited, QueryFails, QueryRefused, Returns, fileVars
  <1>2. reader[r].pc \in {"idle", "query", "filter"}
    BY DEF GetFailover, Queries, IsLimited, QueryFails, QueryRefused, Returns
  <1>3. reader[r].pc \notin Writing /\ reader[r].pc \notin Reading /\ r \notin alone
    BY <1>2, PlacesDiffer DEF StoreInv, AloneAtFiles
  <1>4. reader \in [Readers -> ReaderRecord] /\ reader[r] \in ReaderRecord
    BY DEF StoreInv, TypeOK, ReaderRecord
  <1>5. ASSUME NEW x, x.pc \notin Writing, reader' = [reader EXCEPT ![r] = x],
               alone' = alone \/ (alone' = alone \union {r} /\ Met = {} /\ x.pc \in Reading),
               ReaderKnows(r)'
        PROVE  StoreInv'
    BY <1>1, <1>3, <1>4, <1>5, QuietStep
  <1>6. CASE Queries(r)
    <2>1. ReaderKnows(r)'
      BY <1>4, <1>6 DEF Queries, Starts, ReaderKnows
    <2> QED BY <1>5, <1>6, <2>1 DEF Queries, Starts, fileVars, Writing
  <1>7. CASE GetFailover(r)
    <2>1. ReaderKnows(r)'
      BY <1>4, <1>7 DEF GetFailover, Starts, ReaderKnows
    <2> QED BY <1>5, <1>7, <2>1 DEF GetFailover, Starts, fileVars, Writing
  <1>8. CASE QueryRefused(r)
    <2>1. ReaderKnows(r)'
      BY <1>4, <1>8 DEF QueryRefused, ReaderKnows, NoReader
    <2> QED BY <1>5, <1>8, <2>1 DEF QueryRefused, NoReader, fileVars, Writing
  <1>9. CASE IsLimited(r) \/ QueryFails(r)
    <2>1. Unanswered(r)
      BY <1>9 DEF IsLimited, QueryFails
    <2>2. CASE DisableUseSnapShot
      <3>1. ReaderKnows(r)'
        BY <1>4, <2>1, <2>2 DEF Unanswered, ReaderKnows, NoReader
      <3> QED BY <1>5, <2>1, <2>2, <3>1 DEF Unanswered, NoReader, Writing
    <2>3. CASE ~DisableUseSnapShot
      <3>1. ReaderKnows(r)'
        BY <1>4, <2>1, <2>3 DEF Unanswered, Starts, ReaderKnows
      <3> QED BY <1>5, <2>1, <2>3, <3>1 DEF Unanswered, Starts, ComesToRead, Writing, Reading
    <2> QED BY <2>2, <2>3
  <1>10. CASE Returns(r)
    <2>1. PICK result \in DoFilters(reader[r].content, reader[r].key) :
              reader' = [reader EXCEPT ![r].pc = "idle", ![r].key = 0, ![r].result = result]
      BY <1>10 DEF Returns
    <2>2. /\ reader'[r].pc = "idle" /\ reader'[r].result = result
          /\ reader'[r].content = reader[r].content /\ reader'[r].due = reader[r].due
          /\ \A q \in Readers \ {r} : reader'[q] = reader[q]
      BY <1>4, <2>1 DEF ReaderRecord
    <2>3. ASSUME reader[r].due # NoFile
          PROVE  /\ reader[r].content = reader[r].due
                 /\ reader[r].key = IF algorithm = "aes" /\ reader[r].content > 0 THEN reader[r].content ELSE 0
      BY <1>10, <2>3 DEF StoreInv, Knowledge, ReaderKnows, Returns, KeyOf
    <2>4. ASSUME reader[r].due # NoFile
          PROVE  result \notin {"garbage", "panic"}
      <3>1. algorithm \in {"none", "cipher", "aes"}
        BY StoreAssumption DEF StoreInv, TypeOK
      <3>2. CASE ~openKMS \/ algorithm = "none" \/ reader[r].content = 0
        BY <3>2 DEF DoFilters
      <3>3. CASE ~(~openKMS \/ algorithm = "none" \/ reader[r].content = 0)
        <4>1. result \in DecryptionHandler(reader[r].content, reader[r].key) \union {"error"}
          BY <3>3 DEF DoFilters
        <4>2. CASE algorithm = "cipher"
          BY <4>1, <4>2 DEF DecryptionHandler
        <4>3. CASE algorithm = "aes"
          BY <2>3, <2>4, <4>1, <4>3 DEF DecryptionHandler
        <4> QED BY <3>1, <3>3, <4>2, <4>3
      <3> QED BY <3>2, <3>3
    <2>5. ReaderKnows(r)'
      BY <2>2, <2>3, <2>4 DEF ReaderKnows
    <2>6. reader'[r].pc \notin Writing
      BY <2>2 DEF Writing
    <2>7. alone' = alone
      BY <1>10 DEF Returns, fileVars
    <2> QED BY <1>1, <1>3, <2>2, <2>5, <2>6, <2>7, QuietStep
  <1> QED BY <1>6, <1>7, <1>8, <1>9, <1>10

(* Reading the content: alone and untorn, it is the last answer's.         *)
LEMMA ReadsContent ==
    ASSUME StoreInv, TypeOK', NEW r \in Readers, ReadConfigFromFile(r)
    PROVE  StoreInv'
  <1>1. UNCHANGED <<algorithm, stored, snapshot, keyFile, torn, last>>
    BY DEF ReadConfigFromFile
  <1>2. reader[r].pc = "readContent" /\ reader[r].pc \notin Writing /\ reader[r].pc \in Reading
    BY DEF ReadConfigFromFile, Writing, Reading
  <1>3. reader \in [Readers -> ReaderRecord] /\ reader[r] \in ReaderRecord
    BY DEF StoreInv, TypeOK, ReaderRecord
  <1>4. reader[r].result = "none" /\ reader[r].due = NoFile
    BY <1>2 DEF StoreInv, Knowledge, ReaderKnows
  <1>5. r \in alone => Met = {}
    BY <1>2, PlacesDiffer DEF StoreInv, AloneAtFiles
  <1>6. CASE snapshot = NoFile
    <2>1. /\ reader' = [reader EXCEPT ![r] = [NoReader EXCEPT !.result = "error"]]
      BY <1>6 DEF ReadConfigFromFile
    <2>2. reader'[r] = [NoReader EXCEPT !.result = "error"] /\ \A q \in Readers \ {r} : reader'[q] = reader[q]
      BY <1>3, <2>1
    <2>3. reader'[r].pc = "idle" /\ ReaderKnows(r)'
      BY <2>2 DEF NoReader, ReaderKnows
    <2>4. alone' = alone \ {r} /\ reader'[r].pc \notin Writing
      BY <2>3 DEF ReadConfigFromFile, Writing
    <2> QED BY <1>1, <1>2, <2>2, <2>3, <2>4, QuietStep
  <1>7. CASE snapshot # NoFile
    <2>1. reader' = [reader EXCEPT ![r].content = snapshot, ![r].due = Due(r),
                                   ![r].pc = IF algorithm = "none" THEN "filter" ELSE "readKey"]
      BY <1>7 DEF ReadConfigFromFile
    <2>2. /\ reader'[r].content = snapshot /\ reader'[r].due = Due(r)
          /\ reader'[r].pc = (IF algorithm = "none" THEN "filter" ELSE "readKey")
          /\ reader'[r].result = reader[r].result /\ reader'[r].key = reader[r].key
          /\ \A q \in Readers \ {r} : reader'[q] = reader[q]
      BY <1>3, <2>1 DEF ReaderRecord
    <2>3. alone' = IF algorithm = "none" THEN alone \ {r} ELSE alone
      BY <2>2 DEF ReadConfigFromFile
    <2>4. r \in alone /\ ~torn => snapshot = last
      BY <1>5, <1>7 DEF StoreInv, FilesHoldLast, Gives
    <2>5. Due(r) # NoFile => snapshot = Due(r)
      BY <2>4 DEF Due
    <2>6. ReaderKnows(r)'
      <3>1. CASE algorithm = "none"
        <4>1. reader'[r].pc = "filter"
          BY <2>2, <3>1
        <4>2. reader'[r].key = 0
          BY <1>2, <2>2 DEF StoreInv, Knowledge, ReaderKnows
        <4> QED BY <1>1, <1>4, <2>2, <2>5, <3>1, <4>1, <4>2 DEF ReaderKnows, KeyOf
      <3>2. CASE algorithm # "none"
        <4>1. reader'[r].pc = "readKey" /\ alone' = alone
          BY <2>2, <2>3, <3>2
        <4> QED BY <1>1, <1>4, <2>2, <2>4, <4>1 DEF ReaderKnows
      <3> QED BY <3>1, <3>2
    <2>7. reader'[r].pc \notin Writing /\ (r \in alone' => reader'[r].pc \in Reading)
      BY <2>2, <2>3 DEF Writing, Reading
    <2>8. alone' \ {r} = alone \ {r} /\ (r \in alone' => r \in alone)
      BY <2>3
    <2> QED BY <1>1, <1>2, <1>5, <2>2, <2>6, <2>7, <2>8, QuietStep
  <1> QED BY <1>6, <1>7

(* Reading the key: alone and untorn, it is the one of the content read.   *)
LEMMA ReadsKey ==
    ASSUME StoreInv, TypeOK', NEW r \in Readers, ReadEncryptedDataKeyFromFile(r)
    PROVE  StoreInv'
  <1>1. UNCHANGED <<algorithm, stored, snapshot, keyFile, torn, last>> /\ alone' = alone \ {r}
    BY DEF ReadEncryptedDataKeyFromFile
  <1>2. reader[r].pc = "readKey" /\ reader[r].pc \notin Writing /\ reader[r].pc \in Reading
    BY DEF ReadEncryptedDataKeyFromFile, Writing, Reading
  <1>3. reader[r] \in ReaderRecord
    BY DEF StoreInv, TypeOK, ReaderRecord
  <1>4. /\ reader'[r].key = (IF keyFile = NoFile THEN 0 ELSE keyFile) /\ reader'[r].due = Due(r)
        /\ reader'[r].pc = "filter" /\ reader'[r].content = reader[r].content
        /\ reader'[r].result = reader[r].result
        /\ \A q \in Readers \ {r} : reader'[q] = reader[q]
    BY <1>3 DEF ReadEncryptedDataKeyFromFile, StoreInv, TypeOK, ReaderRecord
  <1>5. reader[r].result = "none"
    BY <1>2 DEF StoreInv, Knowledge, ReaderKnows
  <1>6. r \in alone => Met = {}
    BY <1>2, PlacesDiffer DEF StoreInv, AloneAtFiles
  <1>7. ASSUME r \in alone, ~torn
        PROVE  reader[r].content = last /\ (IF keyFile = NoFile THEN 0 ELSE keyFile) = KeyOf(last)
    <2>1. reader[r].content = last
      BY <1>2, <1>7 DEF StoreInv, Knowledge, ReaderKnows
    <2>2. Gives(keyFile, KeyOf(last))
      BY <1>6, <1>7 DEF StoreInv, FilesHoldLast
    <2>3. KeyOf(last) # NoFile
      BY ContentsFacts DEF KeyOf, StoreInv, TypeOK
    <2> QED BY <2>1, <2>2, <2>3 DEF Gives
  <1>8. ReaderKnows(r)'
    <2>1. ASSUME Due(r) # NoFile
          PROVE  reader[r].content = last /\ reader'[r].key = KeyOf(last) /\ Due(r) = last
      BY <1>4, <1>7, <2>1 DEF Due
    <2> QED BY <1>1, <1>4, <1>5, <2>1 DEF ReaderKnows, KeyOf
  <1>9. reader'[r].pc \notin Writing
    BY <1>4 DEF Writing
  <1> QED BY <1>1, <1>2, <1>4, <1>8, <1>9, QuietStep

(* An answer came: its goroutine is a writer now, and nobody else is alone. *)
LEMMA BecomesWriter ==
    ASSUME StoreInv, TypeOK', NEW r \in Readers, QueryAnswered(r)
    PROVE  StoreInv'
  <1> USE DEF StoreInv
  <1>1. UNCHANGED <<algorithm, stored, snapshot, keyFile, torn, last>>
    BY DEF QueryAnswered
  <1>2. /\ reader'[r] = [pc |-> "truncate", content |-> stored.content, key |-> stored.key,
                         due |-> NoFile, result |-> "none"]
        /\ \A q \in Readers \ {r} : reader'[q] = reader[q]
    BY DEF QueryAnswered, Starts, TypeOK
  <1>3. reader'[r].pc = "truncate" /\ reader'[r].pc \in Writing
    BY <1>2 DEF Writing
  <1>4. Met' = Met \union {r} /\ r \notin Met
    BY <1>2, <1>3, MetMoves DEF QueryAnswered, Met, Writing
  <1>5. alone' = IF Met = {} THEN {r} ELSE {}
    BY DEF QueryAnswered, ComesToWrite
  <1>6. StoredTogether' /\ AloneAtFiles' /\ FilesHoldLast'
    <2>1. StoredTogether'
      BY <1>1 DEF StoredTogether, KeyOf
    <2>2. AloneAtFiles'
      BY <1>3, <1>4, <1>5 DEF AloneAtFiles
    <2>3. FilesHoldLast'
      BY <1>4 DEF FilesHoldLast
    <2> QED BY <2>1, <2>2, <2>3
  <1>7. Knowledge'
    <2> SUFFICES ASSUME NEW q \in Readers PROVE (WriterKnows(q) /\ ReaderKnows(q))'
      BY DEF Knowledge
    <2>1. CASE q = r
      <3>1. reader'[r].key = KeyOf(reader'[r].content) /\ algorithm' = algorithm
        BY <1>1, <1>2 DEF StoredTogether
      <3> QED BY <1>2, <2>1, <3>1 DEF WriterKnows, ReaderKnows, KeyOf
    <2>2. CASE q # r
      <3>1. reader'[q] = reader[q] /\ q \notin alone'
        BY <1>2, <1>5, <2>2
      <3> QED BY <1>1, <3>1 DEF Knowledge, WriterKnows, ReaderKnows, KeyOf
    <2> QED BY <2>1, <2>2
  <1> QED BY <1>6, <1>7

(* What a writer's step does to the others: a reader beside it is not      *)
(* alone, and neither is another writer.                                   *)
LEMMA OthersNotAlone ==
    ASSUME StoreInv, NEW r \in Readers, reader[r].pc \in Writing, NEW q \in alone
    PROVE  q = r
  BY DEF StoreInv, AloneAtFiles, Met

(* A writer's step from one file operation to the next keeps the invariant *)
(* if what it has written so far is right.                                 *)
LEMMA StaysWriter ==
    ASSUME StoreInv, TypeOK', NEW r \in Readers, NEW pc \in {"fill", "truncateKey", "fillKey"},
           reader[r].pc \in Writing, Goes(r, pc), UNCHANGED <<algorithm, stored, last>>,
           UNCHANGED <<torn, alone>> \/ (torn' = TRUE /\ alone' = alone \ {r}),
           r \in alone' /\ pc \in {"truncateKey", "fillKey"} => Gives(snapshot', reader[r].content)
    PROVE  StoreInv'
  <1> USE DEF StoreInv
  <1>1. /\ reader'[r].pc = pc /\ reader'[r].content = reader[r].content
        /\ reader'[r].key = reader[r].key /\ reader'[r].due = reader[r].due
        /\ reader'[r].result = reader[r].result
        /\ \A q \in Readers \ {r} : reader'[q] = reader[q]
    BY DEF Goes, TypeOK
  <1>2. Met' = Met /\ r \in Met
    BY <1>1, MetMoves DEF Met, Writing
  <1>3. \A q \in alone' : q = r /\ q \in alone
    BY OthersNotAlone
  <1>4. StoredTogether' /\ FilesHoldLast'
    BY <1>2 DEF StoredTogether, KeyOf, FilesHoldLast
  <1>5. AloneAtFiles'
    <2>1. pc \in Writing
      BY DEF Writing
    <2>2. r \in alone => Met = {r}
      BY PlacesDiffer DEF AloneAtFiles
    <2> QED BY <1>1, <1>2, <1>3, <2>1, <2>2 DEF AloneAtFiles
  <1>6. Knowledge'
    <2> SUFFICES ASSUME NEW q \in Readers PROVE (WriterKnows(q) /\ ReaderKnows(q))'
      BY DEF Knowledge
    <2>1. CASE q = r
      <3>1. reader[r].key = KeyOf(reader[r].content)
        BY DEF Knowledge, WriterKnows
      <3>2. reader[r].result = "none" /\ reader[r].due = NoFile
        BY DEF Knowledge, ReaderKnows, Writing
      <3>3. WriterKnows(r)'
        BY <1>1, <3>1 DEF WriterKnows, KeyOf, Gives
      <3>4. ReaderKnows(r)'
        BY <1>1, <3>2 DEF ReaderKnows
      <3> QED BY <2>1, <3>3, <3>4
    <2>2. CASE q # r
      <3>1. reader'[q] = reader[q] /\ q \notin alone'
        BY <1>1, <1>3, <2>2
      <3> QED BY <3>1 DEF Knowledge, WriterKnows, ReaderKnows, KeyOf
    <2> QED BY <2>1, <2>2
  <1> QED BY <1>4, <1>5, <1>6

(* A writer leaves the files: either they are torn, or it was the only one *)
(* there and both hold what it wrote.                                      *)
LEMMA LeavesFiles ==
    ASSUME StoreInv, TypeOK', NEW r \in Readers, reader[r].pc \in Writing, Goes(r, "filter"),
           UNCHANGED <<algorithm, stored, snapshot>>, alone' = alone \ {r},
           \/ torn' = TRUE
           \/ /\ r \in alone /\ Gives(snapshot, reader[r].content)
              /\ last' = reader[r].content /\ Gives(keyFile', reader[r].key)
    PROVE  StoreInv'
  <1> USE DEF StoreInv
  <1>1. /\ reader'[r].pc = "filter" /\ reader'[r].content = reader[r].content
        /\ reader'[r].key = reader[r].key /\ reader'[r].due = reader[r].due
        /\ reader'[r].result = reader[r].result
        /\ \A q \in Readers \ {r} : reader'[q] = reader[q]
    BY DEF Goes, TypeOK
  <1>2. alone' = {}
    BY OthersNotAlone
  <1>3. StoredTogether' /\ AloneAtFiles'
    BY <1>2 DEF StoredTogether, KeyOf, AloneAtFiles
  <1>4. FilesHoldLast'
    <2>1. reader[r].key = KeyOf(reader[r].content)
      BY DEF Knowledge, WriterKnows
    <2> QED BY <2>1 DEF FilesHoldLast, Gives, KeyOf
  <1>5. Knowledge'
    <2> SUFFICES ASSUME NEW q \in Readers PROVE (WriterKnows(q) /\ ReaderKnows(q))'
      BY DEF Knowledge
    <2>1. CASE q = r
      <3>1. reader[r].result = "none" /\ reader[r].due = NoFile
        BY DEF Knowledge, ReaderKnows, Writing
      <3> QED BY <1>1, <2>1, <3>1 DEF WriterKnows, ReaderKnows, Writing
    <2>2. CASE q # r
      <3>1. reader'[q] = reader[q]
        BY <1>1, <2>2
      <3> QED BY <1>2, <3>1 DEF Knowledge, WriterKnows, ReaderKnows, KeyOf
    <2> QED BY <2>1, <2>2
  <1> QED BY <1>3, <1>4, <1>5

(* Every step of a writer. *)
LEMMA WriterStep ==
    ASSUME StoreInv, TypeOK', NEW r \in Readers,
           Truncates(r) \/ Fills(r) \/ TruncatesKey(r) \/ FillsKey(r) \/ WriteFails(r)
    PROVE  StoreInv'
  <1>1. reader[r].pc \in Writing
    BY DEF Truncates, Fills, TruncatesKey, FillsKey, WriteFails, Writing
  <1>2. reader[r].content \in Contents /\ reader[r].key \in Keys
    BY DEF StoreInv, TypeOK
  <1>3. CASE Truncates(r)
    <2>1. NoNeedToDelete(reader[r].content, snapshot) => Gives(snapshot', reader[r].content)
      BY <1>3 DEF Truncates, NoNeedToDelete, Truncated, Gives
    <2>2. UNCHANGED <<algorithm, stored, last, torn, alone>>
      BY <1>3 DEF Truncates
    <2>3. CASE NoNeedToDelete(reader[r].content, snapshot)
      <3>1. Goes(r, "truncateKey")
        BY <1>3, <2>3 DEF Truncates
      <3> QED BY <1>1, <2>1, <2>2, <2>3, <3>1, StaysWriter
    <2>4. CASE ~NoNeedToDelete(reader[r].content, snapshot)
      <3>1. Goes(r, "fill")
        BY <1>3, <2>4 DEF Truncates
      <3> QED BY <1>1, <2>2, <3>1, StaysWriter
    <2> QED BY <2>3, <2>4
  <1>4. CASE Fills(r)
    <2>1. Goes(r, "truncateKey") /\ UNCHANGED <<algorithm, stored, last, torn, alone>>
      BY <1>4 DEF Fills
    <2>2. Gives(snapshot', reader[r].content)
      BY <1>4 DEF Fills, Gives
    <2> QED BY <1>1, <2>1, <2>2, StaysWriter
  <1>5. ASSUME r \in alone, reader[r].pc \in {"truncateKey", "fillKey"}
        PROVE  Gives(snapshot, reader[r].content)
    BY <1>1, <1>5 DEF StoreInv, Knowledge, WriterKnows
  <1>6. ASSUME reader[r].pc \in {"truncateKey", "fillKey"}, Written(r), Gives(keyFile', reader[r].key),
               UNCHANGED <<algorithm, stored, snapshot>>
        PROVE  StoreInv'
    BY <1>1, <1>5, <1>6, LeavesFiles DEF Written
  <1>7. CASE TruncatesKey(r)
    <2>1. CASE NoNeedToDelete(reader[r].key, keyFile)
      <3>1. Gives(keyFile', reader[r].key)
        BY <1>7, <2>1 DEF TruncatesKey, NoNeedToDelete, Truncated, Gives
      <3> QED BY <1>6, <1>7, <2>1, <3>1 DEF TruncatesKey
    <2>2. CASE ~NoNeedToDelete(reader[r].key, keyFile)
      <3>1. Goes(r, "fillKey") /\ UNCHANGED <<algorithm, stored, snapshot, last, torn, alone>>
        BY <1>7, <2>2 DEF TruncatesKey
      <3>2. r \in alone => Gives(snapshot', reader[r].content)
        BY <1>5, <1>7, <3>1 DEF TruncatesKey
      <3> QED BY <1>1, <3>1, <3>2, StaysWriter
    <2> QED BY <2>1, <2>2
  <1>8. CASE FillsKey(r)
    BY <1>6, <1>8 DEF FillsKey, Gives
  <1>9. CASE WriteFails(r)
    <2>1. CASE reader[r].pc \in {"truncate", "fill"}
      <3>1. Goes(r, "truncateKey")
        BY <1>9, <2>1 DEF WriteFails
      <3>2. torn' = TRUE /\ alone' = alone \ {r} /\ UNCHANGED <<algorithm, stored, last>>
        BY <1>9 DEF WriteFails
      <3> QED BY <1>1, <3>1, <3>2, StaysWriter
    <2>2. CASE reader[r].pc \notin {"truncate", "fill"}
      <3>1. Goes(r, "filter")
        BY <1>9, <2>2 DEF WriteFails
      <3> QED BY <1>1, <1>9, <3>1, LeavesFiles DEF WriteFails
    <2> QED BY <2>1, <2>2
  <1> QED BY <1>3, <1>4, <1>7, <1>8, <1>9

(* Steps that no goroutine of GetConfig takes. *)
LEMMA OtherStep ==
    ASSUME StoreInv, TypeOK', PublishConfig \/ DeleteConfig \/ PutFailover \/ Refill \/ Crash
    PROVE  StoreInv'
  <1> USE DEF StoreInv
  <1>1. algorithm' = algorithm
    BY DEF PublishConfig, DeleteConfig, PutFailover, Refill, Crash
  <1>2. StoredTogether'
    <2>1. CASE PublishConfig
      <3>1. PICK filter \in BOOLEAN, fails \in BOOLEAN :
                stored' = IF fails THEN stored
                          ELSE IF filter /\ algorithm # "none" THEN EncryptionHandler(version')
                          ELSE [content |-> -version', key |-> 0]
        BY <2>1 DEF PublishConfig
      <3>2. version' \in Nat /\ version' > 0
        BY <2>1, ContentsFacts DEF PublishConfig, TypeOK
      <3>3. CASE fails
        BY <1>1, <3>1, <3>3 DEF StoredTogether, KeyOf
      <3>4. CASE ~fails /\ filter /\ algorithm # "none"
        BY <1>1, <3>1, <3>2, <3>4 DEF EncryptionHandler, StoredTogether, KeyOf
      <3>5. CASE ~fails /\ ~(filter /\ algorithm # "none")
        <4>1. stored'.content = -version' /\ stored'.key = 0
          BY <3>1, <3>5
        <4>2. stored'.content \in Int /\ ~(stored'.content > 0)
          <5>1. \A n \in Nat : n > 0 => -n \in Int /\ ~(-n > 0)
            OBVIOUS
          <5> QED BY <3>2, <4>1, <5>1
        <4>3. KeyOf(stored.content)' = 0
          BY <4>2 DEF KeyOf
        <4> QED BY <4>1, <4>3 DEF StoredTogether
      <3> QED BY <3>3, <3>4, <3>5
    <2>2. CASE DeleteConfig
      BY <1>1, <2>2 DEF DeleteConfig, Nothing, StoredTogether, KeyOf
    <2>3. CASE PutFailover \/ Refill \/ Crash
      BY <1>1, <2>3 DEF PutFailover, Refill, Crash, StoredTogether, KeyOf
    <2> QED BY <2>1, <2>2, <2>3
  <1>3. (AloneAtFiles /\ FilesHoldLast /\ Knowledge)'
    <2>1. CASE Crash
      <3>1. \A r \in Readers : reader'[r] = NoReader
        BY <2>1 DEF Crash
      <3>2. AloneAtFiles'
        BY <2>1 DEF Crash, AloneAtFiles
      <3>3. FilesHoldLast'
        BY <1>1, <2>1 DEF Crash, FilesHoldLast, Gives, KeyOf
      <3>4. Knowledge'
        BY <3>1 DEF Knowledge, WriterKnows, ReaderKnows, NoReader, Writing
      <3> QED BY <3>2, <3>3, <3>4
    <2>2. CASE PublishConfig \/ DeleteConfig \/ PutFailover \/ Refill
      <3>1. UNCHANGED <<fileVars, reader>>
        BY <2>2 DEF PublishConfig, DeleteConfig, PutFailover, Refill
      <3>2. Met' = Met
        BY <3>1 DEF Met
      <3> QED BY <1>1, <3>1, <3>2
            DEF fileVars, AloneAtFiles, FilesHoldLast, Knowledge, WriterKnows, ReaderKnows, KeyOf, Gives
    <2> QED BY <2>1, <2>2
  <1> QED BY <1>2, <1>3

-----------------------------------------------------------------------------
(* The invariant holds in every state. *)
LEMMA Invariants == Spec => []StoreInv
  <1>1. Init => StoreInv
    <2> SUFFICES ASSUME Init PROVE StoreInv
      OBVIOUS
    <2>1. TypeOK
      <3>1. version \in Keys /\ tokens \in 0..Burst
        BY ContentsFacts, StoreAssumption DEF Init
      <3>2. reader \in [Readers -> ReaderRecord]
        BY RecordFacts DEF Init
      <3> QED BY <3>1, <3>2, ContentsFacts DEF Init, TypeOK, Nothing, ReaderRecord
    <2>2. Met = {}
      BY DEF Init, Met, NoReader, Writing
    <2>3. StoredTogether /\ AloneAtFiles /\ FilesHoldLast
      BY <2>2 DEF Init, Nothing, StoredTogether, KeyOf, AloneAtFiles, FilesHoldLast,
                  Gives
    <2>4. Knowledge
      BY DEF Init, Knowledge, WriterKnows, ReaderKnows, NoReader, Writing
    <2> QED BY <2>1, <2>3, <2>4 DEF StoreInv
  <1>2. StoreInv /\ [Next]_vars => StoreInv'
    <2> SUFFICES ASSUME StoreInv, [Next]_vars PROVE StoreInv'
      OBVIOUS
    <2>1. ASSUME NEW r \in Readers, GetConfig(r) PROVE StoreInv'
      <3>1. TypeOK'
        BY <2>1, GetConfigTyped DEF StoreInv
      <3> QED BY <2>1, <3>1, AwayFromFiles, ReadsContent, ReadsKey, BecomesWriter, WriterStep
            DEF GetConfig
    <2>2. CASE PublishConfig \/ DeleteConfig \/ PutFailover \/ Refill \/ Crash
      <3>1. TypeOK'
        BY <2>2, OthersTyped DEF StoreInv
      <3> QED BY <2>2, <3>1, OtherStep
    <2>3. CASE UNCHANGED vars
      <3>1. Met' = Met
        BY <2>3 DEF vars, Met
      <3>2. TypeOK' /\ StoredTogether' /\ AloneAtFiles'
        BY <2>3, <3>1 DEF StoreInv, TypeOK, vars, fileVars, StoredTogether, KeyOf,
              AloneAtFiles
      <3>3. FilesHoldLast' /\ Knowledge'
        BY <2>3, <3>1 DEF StoreInv, vars, fileVars, FilesHoldLast, Knowledge, WriterKnows, ReaderKnows,
              KeyOf, Gives
      <3> QED BY <3>2, <3>3 DEF StoreInv
    <2> QED BY <2>1, <2>2, <2>3 DEF Next
  <1> QED BY <1>1, <1>2, PTL DEF Spec

(* The types of the files, the limiter and the goroutines.                 *)
THEOREM TypeCorrect == Spec => []TypeOK
  <1>1. StoreInv => TypeOK
    BY DEF StoreInv
  <1> QED BY <1>1, Invariants, PTL

(* For any number of goroutines and versions: without an overlap, a failed *)
(* write or a crash in between, the snapshot gives what the last answer    *)
(* said, or an error; never another version or a content under another     *)
(* one's key.                                                              *)
THEOREM SnapshotIsNeverMixed == Spec => []SnapshotIsLastAnswer
  <1>1. StoreInv => SnapshotIsLastAnswer
    <2> SUFFICES ASSUME StoreInv, NEW r \in Readers, reader[r].due # NoFile
                 PROVE  /\ reader[r].result \notin {"garbage", "panic"}
                        /\ reader[r].result \in {"value", "ciphertext"} => reader[r].content = reader[r].due
      BY DEF SnapshotIsLastAnswer
    <2> QED BY DEF StoreInv, Knowledge, ReaderKnows
  <1> QED BY <1>1, Invariants, PTL

(* Whenever nobody writes them, content file and key file are the two of    *)
(* the last answer, at any crash and after it, as long as no write failed,  *)
(* was cut short or met another one; a write that is alone mends the files. *)
THEOREM FilesAreLastAnswer == Spec => []FilesHoldLast
  <1>1. StoreInv => FilesHoldLast
    BY DEF StoreInv
  <1> QED BY <1>1, Invariants, PTL
=============================================================================
