-------------------------- MODULE AlgorithmsProofs --------------------------
(***************************************************************************)
(* The algorithms of Algorithms for every input, not only the bounded ones *)
(* that its runs enumerate.                                                *)
(***************************************************************************)
EXTENDS Algorithms, SequenceTheorems, WellFoundedInduction, FiniteSetTheorems, TLAPS

(* Numbers, sequences and steps. *)

(* A set of numbers has a least one. *)
LEMMA Least ==
    ASSUME NEW S \in SUBSET Nat, S # {}
    PROVE  \E i \in S : \A j \in S : i <= j
  <1>1. \E i \in S : \A j \in S : ~(<<j, i>> \in OpToRel(<, Nat))
    BY NatLessThanWellFounded, WFMin
  <1>2. \A i \in Nat, j \in Nat : j < i => <<j, i>> \in OpToRel(<, Nat)
    BY DEF OpToRel
  <1>3. PICK i \in S : \A j \in S : ~(<<j, i>> \in OpToRel(<, Nat))
    BY <1>1
  <1>4. \A j \in S : ~(j < i)
    BY <1>2, <1>3
  <1> QED BY <1>4

(* A bounded one has a greatest. *)
LEMMA Greatest ==
    ASSUME NEW n \in Nat, NEW S \in SUBSET (0..n), S # {}
    PROVE  \E i \in S : \A j \in S : j <= i
  <1> DEFINE T == {n - i : i \in S}
  <1>1. T \in SUBSET Nat /\ T # {}
    <2>1. PICK k \in S : TRUE
      OBVIOUS
    <2>2. n - k \in T
      OBVIOUS
    <2>3. \A i \in S : n - i \in Nat
      OBVIOUS
    <2> QED BY <2>2, <2>3
  <1>2. PICK t \in T : \A u \in T : t <= u
    BY <1>1, Least
  <1>3. PICK i \in S : t = n - i
    OBVIOUS
  <1>4. \A j \in S : n - i <= n - j
    BY <1>2, <1>3
  <1>5. \A j \in S : j <= i
    BY <1>4
  <1> QED BY <1>5

(* A sequence of bounded length is a sequence. *)
LEMMA BoundedIsSequence ==
    ASSUME NEW S, NEW n \in Nat
    PROVE  SeqOf(S, n) \subseteq Seq(S)
  <1> SUFFICES ASSUME NEW t \in SeqOf(S, n) PROVE t \in Seq(S)
    OBVIOUS
  <1>1. PICK m \in 0..n : t \in [1..m -> S]
    BY DEF SeqOf
  <1>2. m \in Nat
    OBVIOUS
  <1> QED BY <1>1, <1>2

(* What holds of 0 and of each number up to n if it does of the one before, *)
(* holds of all of them.                                                    *)
LEMMA UpTo ==
    ASSUME NEW n \in Nat, NEW T, 0 \in T, \A i \in 1..n : i - 1 \in T => i \in T
    PROVE  \A i \in 0..n : i \in T
  <1> DEFINE S == {i \in 0..n : i \notin T}
  <1>1. SUFFICES ASSUME S # {} PROVE FALSE
    OBVIOUS
  <1>2. PICK m \in S : \A j \in S : m <= j
    <2>1. S \in SUBSET Nat
      OBVIOUS
    <2> HIDE DEF S
    <2> QED BY <1>1, <2>1, Least
  <1>3. m # 0 /\ m \in 1..n
    BY <1>2
  <1>4. m - 1 \in 0..n /\ ~(m <= m - 1)
    BY <1>3
  <1>5. m - 1 \in T
    BY <1>2, <1>4
  <1> QED BY <1>2, <1>3, <1>5

(* A function into S that is x at 0, and each further value of which G      *)
(* makes from the one before.                                               *)
Recurs(f, n, S, x, G) ==
    /\ f \in [0..n -> S]
    /\ f[0] = x
    /\ \A i \in 1..n : f[i] = G[<<i, f[i - 1]>>]

(* There is one, so that what the recursive functions of the model are      *)
(* defined to be exists.                                                    *)
LEMMA Recursion ==
    ASSUME NEW n \in Nat, NEW S, NEW x \in S, NEW G \in [(1..n) \X S -> S]
    PROVE  \E f : Recurs(f, n, S, x, G)
  <1> DEFINE P(m) == \E f \in [0..m -> S] : f[0] = x /\ \A i \in 1..m : f[i] = G[<<i, f[i - 1]>>]
             T == {m \in 0..n : P(m)}
  <1>1. P(0)
    <2> DEFINE f == [i \in 0..0 |-> x]
    <2>1. f \in [0..0 -> S] /\ f[0] = x /\ \A i \in 1..0 : f[i] = G[<<i, f[i - 1]>>]
      OBVIOUS
    <2> QED BY <2>1
  <1>2. ASSUME NEW m \in 1..n, P(m - 1) PROVE P(m)
    <2>1. PICK f \in [0..m - 1 -> S] : f[0] = x /\ \A i \in 1..m - 1 : f[i] = G[<<i, f[i - 1]>>]
      BY <1>2
    <2> DEFINE g == [i \in 0..m |-> IF i < m THEN f[i] ELSE G[<<m, f[m - 1]>>]]
    <2>2. f[m - 1] \in S
      OBVIOUS
    <2>3. G[<<m, f[m - 1]>>] \in S
      BY <2>2
    <2>4. g \in [0..m -> S] /\ g[0] = x
      BY <2>1, <2>3
    <2>5. ASSUME NEW i \in 1..m PROVE g[i] = G[<<i, g[i - 1]>>]
      <3>1. CASE i = m
        <4>1. g[m] = G[<<m, f[m - 1]>>]
          OBVIOUS
        <4>2. g[m - 1] = f[m - 1]
          OBVIOUS
        <4> HIDE DEF g
        <4> QED BY <3>1, <4>1, <4>2
      <3>2. CASE i < m
        BY <2>1, <3>2
      <3> QED BY <3>1, <3>2
    <2> QED BY <2>4, <2>5
  <1> HIDE DEF P
  <1>3. 0 \in T /\ \A m \in 1..n : m - 1 \in T => m \in T
    BY <1>1, <1>2
  <1>4. n \in T
    <2>1. n \in 0..n
      OBVIOUS
    <2> HIDE DEF T
    <2> QED BY <1>3, <2>1, UpTo
  <1> QED BY <1>4 DEF P, Recurs

(* The members of a sequence, with one more. *)
LEMMA MembersOfAppend ==
    ASSUME NEW H, NEW s \in Seq(H), NEW h \in H
    PROVE  /\ Append(s, h) \in Seq(H) /\ Len(Append(s, h)) = Len(s) + 1
           /\ \A i \in 1..Len(s) : Append(s, h)[i] = s[i]
           /\ Append(s, h)[Len(s) + 1] = h
           /\ ToSet(Append(s, h)) = ToSet(s) \cup {h}
  <1>1. /\ Append(s, h) \in Seq(H) /\ Len(Append(s, h)) = Len(s) + 1
        /\ \A i \in 1..Len(s) : Append(s, h)[i] = s[i]
        /\ Append(s, h)[Len(s) + 1] = h
    OBVIOUS
  <1>2. DOMAIN s = 1..Len(s) /\ DOMAIN Append(s, h) = 1..Len(s) + 1 /\ Len(s) \in Nat
    BY <1>1
  <1>3. ToSet(Append(s, h)) = ToSet(s) \cup {h}
    BY <1>1, <1>2 DEF ToSet
  <1> QED BY <1>1, <1>3

(* A list in which no instance stands twice. *)
Distinct(s) == \A i, j \in DOMAIN s : s[i] = s[j] => i = j

(* The loops over a list of instances keep those that are in S, and none    *)
(* twice that was not there twice.                                          *)
LEMMA KeepKeeps ==
    ASSUME NEW H, NEW s \in Seq(H), NEW S
    PROVE  /\ Keep(s, S) \in Seq(H)
           /\ ToSet(Keep(s, S)) = ToSet(s) \cap S
           /\ Distinct(s) => Distinct(Keep(s, S))
  <1> DEFINE n == Len(s)
             E(h, i) == IF i = 0 THEN <<>>
                        ELSE IF s[i] \in S THEN Append(h[i - 1], s[i]) ELSE h[i - 1]
             Q(h) == h = [i \in 0..n |-> E(h, i)]
             G == [p \in (1..n) \X Seq(H) |-> IF s[p[1]] \in S THEN Append(p[2], s[p[1]]) ELSE p[2]]
             kept == CHOOSE h : Q(h)
             first(i) == {s[j] : j \in 1..i}
             T == {i \in 0..n : /\ kept[i] \in Seq(H)
                                /\ ToSet(kept[i]) = first(i) \cap S
                                /\ Distinct(s) => Distinct(kept[i])}
  <1>0. n \in Nat /\ DOMAIN s = 1..n /\ \A i \in 1..n : s[i] \in H
    OBVIOUS
  <1>1. \E h : Q(h)
    <2>1. <<>> \in Seq(H)
      OBVIOUS
    <2>2. G \in [(1..n) \X Seq(H) -> Seq(H)]
      <3>1. \A p \in (1..n) \X Seq(H) : p[1] \in 1..n /\ p[2] \in Seq(H) /\ Append(p[2], s[p[1]]) \in Seq(H)
        OBVIOUS
      <3> QED BY <3>1
    <2> HIDE DEF n
    <2>3. PICK f \in [0..n -> Seq(H)] : f[0] = <<>> /\ \A i \in 1..n : f[i] = G[<<i, f[i - 1]>>]
      <3> DEFINE lists == Seq(H)
                 none == <<>>
      <3>1. none \in lists /\ G \in [(1..n) \X lists -> lists]
        BY <2>1, <2>2
      <3>2. \E f : Recurs(f, n, lists, none, G)
        <4> HIDE DEF G, lists, none
        <4> QED BY <1>0, <3>1, Recursion
      <3> HIDE DEF G
      <3> QED BY <3>2 DEF Recurs
    <2>4. ASSUME NEW i \in 0..n PROVE f[i] = E(f, i)
      <3>1. CASE i = 0
        BY <2>3, <3>1
      <3>2. CASE i \in 1..n
        <4>1. f[i - 1] \in Seq(H) /\ i # 0
          BY <1>0, <3>2
        <4> QED BY <2>3, <3>2, <4>1
      <3> QED BY <1>0, <3>1, <3>2
    <2>5. Q(f)
      <3> HIDE DEF E
      <3> QED BY <2>4
    <2> QED BY <2>5
  <1>2. Keep(s, S) = kept[n]
    BY DEF Keep
  <1>3. Q(kept)
    <2> HIDE DEF Q
    <2> QED BY <1>1
  <1>4. kept[0] = <<>> /\ \A i \in 1..n : kept[i] = IF s[i] \in S THEN Append(kept[i - 1], s[i]) ELSE kept[i - 1]
    <2>1. \A i \in 0..n : kept[i] = E(kept, i)
      <3> HIDE DEF kept, n, E
      <3> QED BY <1>3
    <2> HIDE DEF kept, n
    <2>2. 0 \in 0..n /\ \A i \in 1..n : i \in 0..n /\ i # 0
      BY <1>0
    <2> QED BY <2>1, <2>2
  <1> HIDE DEF kept, Q, E, n
  <1>5. 0 \in T
    <2>1. first(0) = {}
      OBVIOUS
    <2>2. ToSet(<<>>) = {} /\ Distinct(<<>>)
      BY DEF ToSet, Distinct
    <2>3. kept[0] \in Seq(H) /\ ToSet(kept[0]) = {} /\ Distinct(kept[0])
      BY <1>4, <2>2
    <2> QED BY <1>0, <2>1, <2>3
  <1>6. ASSUME NEW i \in 1..n, i - 1 \in T PROVE i \in T
    <2>1. first(i) = first(i - 1) \cup {s[i]}
      BY <1>0
    <2>2. s[i] \in H /\ kept[i - 1] \in Seq(H) /\ ToSet(kept[i - 1]) = first(i - 1) \cap S
      BY <1>0, <1>6
    <2>3. CASE s[i] \notin S
      BY <1>0, <1>4, <1>6, <2>1, <2>3
    <2>4. CASE s[i] \in S
      <3> DEFINE t == kept[i - 1]
      <3>1. kept[i] = Append(t, s[i])
        BY <1>4, <2>4
      <3>2. kept[i] \in Seq(H) /\ ToSet(kept[i]) = ToSet(t) \cup {s[i]}
        BY <2>2, <3>1, MembersOfAppend
      <3>3. ToSet(kept[i]) = first(i) \cap S
        BY <2>1, <2>2, <2>4, <3>2
      <3>4. ASSUME Distinct(s) PROVE Distinct(kept[i])
        <4>1. s[i] \notin first(i - 1)
          BY <1>0, <3>4 DEF Distinct
        <4>2. s[i] \notin ToSet(t)
          BY <2>2, <4>1
        <4>3. Distinct(t)
          BY <1>6, <3>4
        <4>4. /\ DOMAIN kept[i] = 1..Len(t) + 1 /\ DOMAIN t = 1..Len(t) /\ Len(t) \in Nat
              /\ \A j \in 1..Len(t) : kept[i][j] = t[j] /\ kept[i][j] \in ToSet(t)
              /\ kept[i][Len(t) + 1] = s[i]
          BY <2>2, <3>1, <3>2, MembersOfAppend DEF ToSet
        <4> HIDE DEF t
        <4> QED BY <4>2, <4>3, <4>4 DEF Distinct
      <3> QED BY <1>0, <3>2, <3>3, <3>4
    <2> QED BY <2>3, <2>4
  <1>7. n \in T
    <2>1. n \in 0..n
      BY <1>0
    <2> HIDE DEF T
    <2> QED BY <1>0, <1>5, <1>6, <2>1, UpTo
  <1>8. first(n) = ToSet(s)
    BY <1>0 DEF ToSet
  <1> QED BY <1>2, <1>7, <1>8

(* A group and a name make a grouped name of two parts. *)
LEMMA TwoParts ==
    ASSUME NEW g, NEW s
    PROVE  <<g>> \o <<s>> = <<g, s>> /\ Len(<<s>>) = 1 /\ <<g>> # <<>>
  <1>1. <<g>> \in Seq({g, s}) /\ <<s>> \in Seq({g, s}) /\ <<g, s>> \in Seq({g, s})
    OBVIOUS
  <1>2. /\ Len(<<g>>) = 1 /\ Len(<<s>>) = 1 /\ Len(<<g, s>>) = 2
        /\ <<g>>[1] = g /\ <<s>>[1] = s /\ <<g, s>>[1] = g /\ <<g, s>>[2] = s
    OBVIOUS
  <1>3. <<g>> \o <<s>> \in Seq({g, s}) /\ Len(<<g>> \o <<s>>) = 2
    BY <1>1, <1>2, ConcatProperties
  <1>4. (<<g>> \o <<s>>)[1] = g /\ (<<g>> \o <<s>>)[2] = s
    OBVIOUS
  <1>5. \A i \in 1..2 : (<<g>> \o <<s>>)[i] = <<g, s>>[i]
    <2>1. \A i \in 1..2 : i = 1 \/ i = 2
      OBVIOUS
    <2> QED BY <1>2, <1>4, <2>1
  <1>6. <<g>> \o <<s>> = <<g, s>>
    BY <1>1, <1>2, <1>3, <1>5, SeqEqual
  <1>7. <<g>> # <<>>
    BY <1>2, EmptySeq
  <1> QED BY <1>2, <1>6, <1>7

(* A step computes its task's output, once, and leaves the task alone. *)
LEMMA OneOutput ==
    ASSUME Next
    PROVE  task' = task /\ input' = input /\ output = <<>>
  BY DEF Next, Select, CompareSelectors, Request, RamLogin, SignRequest, EncryptConfig, CreateTwice,
         Label, BuildChain, Computes

-----------------------------------------------------------------------------
(* Encryption. *)

(* PKCS5Padding adds between one and BlockSize bytes, the last of which     *)
(* says how many; so PKCS5UnPadding finds the text again and does not cut   *)
(* more than there is.                                                      *)
LEMMA UnPaddingInvertsPadding ==
    ASSUME NEW text \in Seq(Int)
    PROVE  /\ PKCS5UnPadding(PKCS5Padding(text)) = text
           /\ ~UnPaddingPanics(PKCS5Padding(text))
           /\ PKCS5Padding(text) # <<>>
  <1> DEFINE p == BlockSize - (Len(text) % BlockSize)
             pad == [i \in 1..p |-> p]
             data == text \o pad
  <1>1. Len(text) \in Nat /\ p \in 1..BlockSize
    BY BlockSizeAssumption
  <1>2. pad \in Seq(Int) /\ Len(pad) = p
    BY <1>1, BlockSizeAssumption
  <1> HIDE DEF p
  <1>3. Len(data) = Len(text) + p /\ data \in Seq(Int)
    BY <1>1, <1>2
  <1>4. data[Len(data)] = p
    BY <1>1, <1>2, <1>3, BlockSizeAssumption
  <1>5. \A i \in 1..Len(text) : data[i] = text[i]
    BY <1>1, <1>2
  <1>6. SubSeq(data, 1, Len(text)) = text
    BY <1>1, <1>3, <1>5
  <1>7. PKCS5Padding(text) = data
    BY DEF PKCS5Padding, p
  <1>8. Len(data) - data[Len(data)] = Len(text) /\ ~(data[Len(data)] > Len(data))
    BY <1>1, <1>3, <1>4, BlockSizeAssumption
  <1>9. data # <<>>
    <2>1. Len(data) # 0
      BY <1>1, <1>3, BlockSizeAssumption
    <2> HIDE DEF data
    <2> QED BY <2>1
  <1> HIDE DEF data
  <1> QED BY <1>6, <1>7, <1>8, <1>9 DEF PKCS5UnPadding, UnPaddingPanics

(* A parameter of the encryption handler, by its fields. *)
Param(dataId, keyId, encrypted, plain, by, text, err) ==
    [dataId |-> dataId, keyId |-> keyId, encryptedDataKey |-> encrypted, plainDataKey |-> plain,
     content |-> [by |-> by, text |-> text], err |-> err]

(* What a config filter hands to EncryptionHandler. *)
Plain(dataId, keyId, text) == Param(dataId, keyId, "none", "none", "plain", text, "none")

(* The plugins match by the data id alone, so the one that decrypts is of   *)
(* the kind that encrypted: with a data key, or without.                    *)
LEMMA PluginOfKind ==
    ASSUME NEW dataId, NEW p \in getPluginByDataIdPrefix(dataId),
           NEW q \in getPluginByDataIdPrefix(dataId)
    PROVE  /\ p \in Plugins /\ q \in Plugins
           /\ p = "cipher" <=> q = "cipher"
  <1>1. p \in Plugins /\ q \in Plugins /\ NameLen[p] >= NameLen[q] /\ NameLen[q] >= NameLen[p]
    BY DEF getPluginByDataIdPrefix
  <1>2. \A r \in Plugins : NameLen[r] = IF r = "cipher" THEN 6 ELSE 18
    BY DEF NameLen
  <1> QED BY <1>1, <1>2

(* What KmsBasePlugin makes of a content, when it does not fail. *)
LEMMA BaseEncrypts ==
    ASSUME NEW d, NEW k, NEW text, NEW client, NEW param, param = Plain(d, k, text),
           KmsBasePlugin(param, client).err = "none"
    PROVE  /\ client # "nil"
           /\ KmsBasePlugin(param, client) = Param(d, k, "none", "none", "kms", text, "none")
  <1>1. \A e : Fails(param, e).err = e
    BY DEF Param, Plain, Fails
  <1>2. client # "nil" /\ keyIdParamCheck(param.keyId, client) # "none"
    BY <1>1 DEF KmsBasePlugin
  <1>3. KmsBasePlugin(param, client) = [param EXCEPT !.content = [by |-> "kms", text |-> param.content.text]]
    BY <1>2 DEF KmsBasePlugin, KmsEncrypt
  <1>4. param.content.text = text
    BY DEF Param, Plain, Fails
  <1>5. [param EXCEPT !.content = [by |-> "kms", text |-> text]]
          = Param(d, k, "none", "none", "kms", text, "none")
    BY DEF Param, Plain, Fails
  <1> QED BY <1>2, <1>3, <1>4, <1>5

(* What an AES plugin makes of a content, when it does not fail. *)
LEMMA AesEncrypts ==
    ASSUME NEW d, NEW k, NEW text, NEW client, NEW spec, NEW param, param = Plain(d, k, text),
           AesEncrypt(GenerateDataKey(spec, param, client)).err = "none"
    PROVE  /\ client # "nil"
           /\ AesEncrypt(GenerateDataKey(spec, param, client))
                = Param(d, k, spec, spec, spec, PKCS5Padding(text), "none")
  <1>1. \A e : Fails(param, e).err = e
    BY DEF Param, Plain, Fails
  <1>2. client # "nil" /\ keyIdParamCheck(param.keyId, client) # "none"
    BY <1>1 DEF AesEncrypt, GenerateDataKey
  <1>3. GenerateDataKey(spec, param, client) = [param EXCEPT !.plainDataKey = spec, !.encryptedDataKey = spec]
    BY <1>2 DEF GenerateDataKey
  <1>4. [param EXCEPT !.plainDataKey = spec, !.encryptedDataKey = spec]
          = Param(d, k, spec, spec, "plain", text, "none")
    <2>1. [param EXCEPT !.plainDataKey = spec, !.encryptedDataKey = spec]
            = [[param EXCEPT !.plainDataKey = spec] EXCEPT !.encryptedDataKey = spec]
      OBVIOUS
    <2>2. [param EXCEPT !.plainDataKey = spec]
            = Param(d, k, "none", spec, "plain", text, "none")
      BY DEF Param, Plain
    <2>3. [Param(d, k, "none", spec, "plain", text, "none") EXCEPT !.encryptedDataKey = spec]
            = Param(d, k, spec, spec, "plain", text, "none")
      BY DEF Param
    <2> QED BY <2>1, <2>2, <2>3
  <1>5. ASSUME NEW keyed, keyed = Param(d, k, spec, spec, "plain", text, "none")
        PROVE  AesEncrypt(keyed) = Param(d, k, spec, spec, spec, PKCS5Padding(text), "none")
    <2>1. keyed.err = "none" /\ keyed.plainDataKey = spec /\ keyed.content.text = text
      BY <1>5 DEF Param
    <2>2. AesEncrypt(keyed) = [keyed EXCEPT !.content = [by |-> spec, text |-> PKCS5Padding(text)]]
      BY <2>1 DEF AesEncrypt, AesEcbPkcs5PaddingEncrypt
    <2> QED BY <1>5, <2>2 DEF Param
  <1> QED BY <1>2, <1>3, <1>4, <1>5

(* KmsBasePlugin opens what it made. *)
LEMMA BaseDecrypts ==
    ASSUME NEW d, NEW k, NEW text, NEW client, client # "nil",
           NEW cipher, cipher = Param(d, k, "none", "none", "kms", text, "none")
    PROVE  /\ KmsBasePluginDecrypt(cipher, client).err = "none"
           /\ KmsBasePluginDecrypt(cipher, client).content = [by |-> "plain", text |-> text]
  <1>1. cipher.content.by = "kms" /\ cipher.content.text = text
    BY DEF Param
  <1>2. KmsBasePluginDecrypt(cipher, client) = [cipher EXCEPT !.content = [by |-> "plain", text |-> text]]
    BY <1>1 DEF KmsBasePluginDecrypt, KmsDecrypt
  <1>3. [cipher EXCEPT !.content = [by |-> "plain", text |-> text]]
          = Param(d, k, "none", "none", "plain", text, "none")
    BY DEF Param
  <1> QED BY <1>2, <1>3 DEF Param

(* An AES plugin opens what an AES plugin made, with the data key that came *)
(* with it.                                                                 *)
LEMMA AesDecrypts ==
    ASSUME NEW d, NEW k, NEW text \in Seq(Int), NEW client, client # "nil", NEW spec, spec # "none",
           NEW cipher, cipher = Param(d, k, spec, "none", spec, PKCS5Padding(text), "none")
    PROVE  /\ AesDecrypt(DecryptSecretKey(cipher, client)).err = "none"
           /\ AesDecrypt(DecryptSecretKey(cipher, client)).content = [by |-> "plain", text |-> text]
  <1>1. cipher.encryptedDataKey = spec
    BY DEF Param
  <1>2. DecryptSecretKey(cipher, client) = [cipher EXCEPT !.plainDataKey = spec]
    BY <1>1 DEF DecryptSecretKey
  <1>3. [cipher EXCEPT !.plainDataKey = spec] = Param(d, k, spec, spec, spec, PKCS5Padding(text), "none")
    BY DEF Param
  <1>4. ASSUME NEW keyed, keyed = Param(d, k, spec, spec, spec, PKCS5Padding(text), "none")
        PROVE  AesDecrypt(keyed) = Param(d, k, spec, spec, "plain", text, "none")
    <2>1. /\ keyed.err = "none" /\ keyed.plainDataKey = spec
          /\ keyed.content.by = spec /\ keyed.content.text = PKCS5Padding(text)
      BY <1>4 DEF Param
    <2>2. AesDecrypt(keyed) = [keyed EXCEPT !.content = [by |-> "plain", text |-> text]]
      BY <2>1, UnPaddingInvertsPadding DEF AesDecrypt, AesEcbPkcs5PaddingDecrypt
    <2> QED BY <1>4, <2>2 DEF Param
  <1> QED BY <1>2, <1>3, <1>4 DEF Param

(* What another client gets to see of a parameter. *)
Sent(param) == [param EXCEPT !.plainDataKey = "none", !.err = "none"]

(* What EncryptionHandler gives without an error is not the plain content,  *)
(* and DecryptionHandler opens it, whichever plugin either ends up with:    *)
(* for any data id, key id, client and text, and any block size.            *)
THEOREM DecryptionInvertsEncryption ==
    ASSUME NEW d, NEW k, NEW text \in Seq(Int), NEW client, NEW param, param = Plain(d, k, text),
           NEW cipher \in EncryptPlain(param, client), cipher.err = "none",
           NEW plain \in DecryptCipher(Sent(cipher), client)
    PROVE  /\ cipher.content.by # "plain"
           /\ plain.err = "none"
           /\ plain.content = [by |-> "plain", text |-> text]
  <1>1. /\ param.dataId = d /\ param.content.text = text /\ param.err = "none"
        /\ \A e : Fails(param, e).err = e
    BY DEF Param, Plain, Fails
  <1>2. CipherPrefix \in d /\ text # <<>> /\ encryptionParamCheck(param) = param
    BY <1>1 DEF EncryptPlain, encryptionParamCheck
  <1>3. PICK p \in getPluginByDataIdPrefix(d) :
            /\ p = "cipher" => cipher = KmsBasePlugin(param, client)
            /\ p = "cipher-kms-aes-128" => cipher = KmsAes128Plugin(param, client)
            /\ p = "cipher-kms-aes-256" => cipher = KmsAes256Plugin(param, client)
    BY <1>1, <1>2 DEF EncryptPlain
  <1>4. ASSUME NEW sent, sent = Sent(cipher), sent.dataId = d, sent.err = "none", sent.content.text # <<>>
        PROVE  plain = IF p = "cipher" THEN KmsBasePluginDecrypt(sent, client)
                       ELSE AesDecrypt(DecryptSecretKey(sent, client))
    <2>1. encryptionParamCheck(sent) = sent
      BY <1>2, <1>4 DEF encryptionParamCheck
    <2>2. \E q \in getPluginByDataIdPrefix(d) :
             plain = IF q = "cipher" THEN KmsBasePluginDecrypt(sent, client)
                     ELSE AesDecrypt(DecryptSecretKey(sent, client))
      BY <1>4, <2>1 DEF DecryptCipher
    <2> QED BY <1>3, <2>2, PluginOfKind
  <1>5. CASE p = "cipher"
    <2>1. client # "nil" /\ cipher = Param(d, k, "none", "none", "kms", text, "none")
      BY <1>3, <1>5, BaseEncrypts
    <2>2. PICK sent : sent = Sent(cipher)
      OBVIOUS
    <2>3. sent = Param(d, k, "none", "none", "kms", text, "none")
      BY <2>1, <2>2 DEF Sent, Param
    <2>4. sent.dataId = d /\ sent.err = "none" /\ sent.content.text # <<>>
      BY <1>2, <2>3 DEF Param
    <2>5. plain = KmsBasePluginDecrypt(sent, client)
      BY <1>4, <1>5, <2>2, <2>4
    <2>6. cipher.content.by = "kms"
      BY <2>1 DEF Param
    <2> QED BY <2>1, <2>3, <2>5, <2>6, BaseDecrypts
  <1>6. ASSUME NEW spec \in {"AES_128", "AES_256"}, p # "cipher",
               cipher = AesEncrypt(GenerateDataKey(spec, param, client))
        PROVE  /\ cipher.content.by # "plain"
               /\ plain.err = "none"
               /\ plain.content = [by |-> "plain", text |-> text]
    <2>1. client # "nil" /\ cipher = Param(d, k, spec, spec, spec, PKCS5Padding(text), "none")
      BY <1>6, AesEncrypts
    <2>2. PICK sent : sent = Sent(cipher)
      OBVIOUS
    <2>3. sent = Param(d, k, spec, "none", spec, PKCS5Padding(text), "none")
      BY <2>1, <2>2 DEF Sent, Param
    <2>4. sent.dataId = d /\ sent.err = "none" /\ sent.content.text # <<>>
      BY <2>3, UnPaddingInvertsPadding DEF Param
    <2>5. plain = AesDecrypt(DecryptSecretKey(sent, client))
      BY <1>4, <1>6, <2>2, <2>4
    <2>6. cipher.content.by = spec /\ spec # "plain" /\ spec # "none"
      BY <1>6, <2>1 DEF Param
    <2> QED BY <2>1, <2>3, <2>5, <2>6, AesDecrypts
  <1>7. p \in Plugins
    BY <1>3, PluginOfKind
  <1> QED BY <1>3, <1>5, <1>6, <1>7 DEF Plugins, KmsAes128Plugin, KmsAes256Plugin

(* The inputs that the theorems about Spec rest on. *)
EncryptInput ==
    task = "encrypt" => /\ input \in [version : {"DEFAULT_KMS_VERSION", "KMSv1", "KMSv3", "v9"},
                                      kms : KmsConfigs, dataId : DataIds, keyId : {"none", "id"}, text : Texts]
                        /\ input.text \in Seq(Int)

(* A bounded text is a text. *)
LEMMA TextsAreSequences == Texts \subseteq Seq(Int)
  <1>1. Texts \subseteq Seq({1, BlockSize + 1})
    BY BlockSizeAssumption, BoundedIsSequence DEF Texts
  <1>2. {1, BlockSize + 1} \subseteq Int
    BY BlockSizeAssumption
  <1> QED BY <1>1, <1>2

(* EncryptConfig is the step of its task. *)
LEMMA EncryptStep == ASSUME Next, task = "encrypt" PROVE EncryptConfig
  BY DEF Next, Select, CompareSelectors, Request, RamLogin, SignRequest, CreateTwice, Label, BuildChain,
         Computes

(* What EncryptionHandler gives without an error is never the plain content *)
(* and DecryptionHandler gives the content back, for any block size.        *)
THEOREM EncryptionAlwaysOpens == Spec => []EncryptionOpens
  <1>1. Init => EncryptInput /\ EncryptionOpens
    BY TextsAreSequences DEF Init, EncryptInput, EncryptionOpens, Done
  <1>2. EncryptInput /\ EncryptionOpens /\ [Next]_vars => (EncryptInput /\ EncryptionOpens)'
    <2> SUFFICES ASSUME EncryptInput, EncryptionOpens, [Next]_vars
                 PROVE  (EncryptInput /\ EncryptionOpens)'
      OBVIOUS
    <2>1. CASE UNCHANGED vars
      BY <2>1 DEF vars, EncryptInput, EncryptionOpens, Done, Result
    <2>2. CASE Next /\ task # "encrypt"
      BY <2>2, OneOutput DEF EncryptInput, EncryptionOpens, Done
    <2>3. CASE Next /\ task = "encrypt"
      <3>1. EncryptConfig /\ task' = task /\ input' = input
        BY <2>3, OneOutput, EncryptStep
      <3>2. PICK client, param, cipher, plain :
               /\ param = [dataId |-> input.dataId, keyId |-> input.keyId, encryptedDataKey |-> "none",
                           plainDataKey |-> "none", content |-> [by |-> "plain", text |-> input.text],
                           err |-> "none"]
               /\ cipher \in EncryptPlain(param, client)
               /\ plain \in DecryptCipher(Sent(cipher), client)
               /\ output' = <<[cipher |-> cipher, plain |-> plain]>>
        BY <3>1 DEF EncryptConfig, Computes, Sent
      <3>3. input.text \in Seq(Int)
        BY <2>3 DEF EncryptInput
      <3>4. param = Plain(input.dataId, input.keyId, input.text)
        BY <3>2 DEF Plain, Param
      <3>5. ASSUME cipher.err = "none"
            PROVE  /\ cipher.content.by # "plain" /\ plain.err = "none"
                   /\ plain.content = [by |-> "plain", text |-> input.text]
        BY <3>2, <3>3, <3>4, <3>5, DecryptionInvertsEncryption
      <3>6. Result' = [cipher |-> cipher, plain |-> plain]
        BY <3>2 DEF Result
      <3>7. Result'.cipher = cipher /\ Result'.plain = plain
        BY <3>6
      <3> QED BY <2>3, <3>1, <3>5, <3>7 DEF EncryptInput, EncryptionOpens
    <2> QED BY <2>1, <2>2, <2>3
  <1> QED BY <1>1, <1>2, PTL DEF Spec

-----------------------------------------------------------------------------
(* Settings. *)

(* A server as the caller gives it: texts, and ports that are unsigned. *)
AnyServer(texts) == [ip : texts, port : Nat, grpcPort : Nat, path : texts]

(* The bad servers of SetServerConfig, and how far it gets. *)
Bad(servers) == {i \in DOMAIN servers : servers[i].ip = "none" \/ servers[i].port \notin 1..MaxPort}
Until(bad, servers) ==
    IF bad = {} THEN Len(servers) ELSE (CHOOSE i \in bad : \A j \in bad : i <= j) - 1

(* WithPorts gives a server both of its ports. *)
LEMMA PortsAreGiven ==
    ASSUME NEW texts, NEW s \in AnyServer(texts)
    PROVE  /\ WithPorts(s) \in AnyServer(texts)
           /\ WithPorts(s).port # 0 /\ WithPorts(s).grpcPort # 0
           /\ WithPorts(s).ip = s.ip /\ WithPorts(s).path = s.path
           /\ WithPorts(s).grpcPort \in {s.grpcPort, WithPorts(s).port + RpcPortOffset}
  <1> DEFINE port == IF s.port = 0 THEN DefaultPort ELSE s.port
             grpcPort == IF s.grpcPort = 0 THEN port + RpcPortOffset ELSE s.grpcPort
             given == [ip |-> s.ip, port |-> port, grpcPort |-> grpcPort, path |-> s.path]
  <1>1. WithPorts(s) = given
    <2>1. s = [ip |-> s.ip, port |-> s.port, grpcPort |-> s.grpcPort, path |-> s.path]
      BY DEF AnyServer
    <2>2. WithPorts(s) = [[s EXCEPT !.port = port] EXCEPT !.grpcPort = grpcPort]
      BY DEF WithPorts, AnyServer
    <2> HIDE DEF port, grpcPort
    <2>3. [s EXCEPT !.port = port]
             = [ip |-> s.ip, port |-> port, grpcPort |-> s.grpcPort, path |-> s.path]
      BY <2>1
    <2> QED BY <2>2, <2>3
  <1>2. port \in Nat \ {0} /\ grpcPort \in Nat \ {0}
    BY DEF AnyServer, DefaultPort, RpcPortOffset
  <1>3. grpcPort \in {s.grpcPort, port + RpcPortOffset}
    OBVIOUS
  <1> HIDE DEF port, grpcPort
  <1> QED BY <1>1, <1>2, <1>3 DEF AnyServer

(* A server that has its ports keeps them. *)
LEMMA PortsStay ==
    ASSUME NEW texts, NEW s \in AnyServer(texts), s.port # 0, s.grpcPort # 0
    PROVE  WithPorts(s) = s
  <1>1. WithPorts(s) = [[s EXCEPT !.port = s.port] EXCEPT !.grpcPort = s.grpcPort]
    BY DEF WithPorts, AnyServer
  <1>2. [s EXCEPT !.port = s.port] = s
    BY DEF AnyServer
  <1>3. [s EXCEPT !.grpcPort = s.grpcPort] = s
    BY DEF AnyServer
  <1> QED BY <1>1, <1>2, <1>3

(* A server with the default path. *)
LEMMA PathIsGiven ==
    ASSUME NEW texts, "/nacos" \in texts, NEW s \in AnyServer(texts),
           NEW t, t = [s EXCEPT !.path = "/nacos"]
    PROVE  /\ t \in AnyServer(texts) /\ t.path # "none"
           /\ t.port = s.port /\ t.grpcPort = s.grpcPort /\ t.ip = s.ip
  <1>1. s = [ip |-> s.ip, port |-> s.port, grpcPort |-> s.grpcPort, path |-> s.path]
    BY DEF AnyServer
  <1>2. t = [ip |-> s.ip, port |-> s.port, grpcPort |-> s.grpcPort, path |-> "/nacos"]
    BY <1>1
  <1>3. "/nacos" # "none"
    OBVIOUS
  <1>4. t.path # "none" /\ t.port = s.port /\ t.grpcPort = s.grpcPort /\ t.ip = s.ip
    BY <1>2, <1>3
  <1>5. s.ip \in texts /\ s.port \in Nat /\ s.grpcPort \in Nat
    BY DEF AnyServer
  <1>6. t \in AnyServer(texts)
    BY <1>2, <1>3, <1>5 DEF AnyServer
  <1> QED BY <1>4, <1>6

(* SetServerConfig leaves addresses and ports alone, gives a path to every  *)
(* server before the first bad one, and does nothing to what it gave.       *)
LEMMA ServersAreSet ==
    ASSUME NEW texts, "/nacos" \in texts, NEW servers \in Seq(AnyServer(texts)),
           NEW set, set = SetServerConfig(servers)
    PROVE  /\ set.servers \in Seq(AnyServer(texts)) /\ DOMAIN set.servers = DOMAIN servers
           /\ \A i \in DOMAIN servers : /\ set.servers[i].port = servers[i].port
                                        /\ set.servers[i].grpcPort = servers[i].grpcPort
                                        /\ set.servers[i].ip = servers[i].ip
           /\ SetServerConfig(set.servers) = set
           /\ set.ok => \A i \in DOMAIN servers : /\ servers[i].ip # "none"
                                                  /\ servers[i].port \in 1..MaxPort
                                                  /\ set.servers[i].path # "none"
  <1> DEFINE bad == Bad(servers)
             until == Until(bad, servers)
             New(i) == IF i <= until /\ servers[i].path = "none"
                       THEN [servers[i] EXCEPT !.path = "/nacos"] ELSE servers[i]
             given == [i \in DOMAIN servers |-> New(i)]
  <1>1. set = [ok |-> bad = {}, servers |-> given]
    BY DEF SetServerConfig, Bad, Until
  <1>2. set.servers = given /\ set.ok = (bad = {})
    BY <1>1
  <1>3. ASSUME NEW i \in DOMAIN servers
        PROVE  /\ given[i] = New(i) /\ New(i) \in AnyServer(texts)
               /\ New(i).port = servers[i].port /\ New(i).grpcPort = servers[i].grpcPort
               /\ New(i).ip = servers[i].ip
               /\ i <= until => New(i).path # "none"
    <2>1. servers[i] \in AnyServer(texts)
      OBVIOUS
    <2>2. given[i] = New(i)
      OBVIOUS
    <2>3. CASE i <= until /\ servers[i].path = "none"
      <3>1. New(i) = [servers[i] EXCEPT !.path = "/nacos"]
        BY <2>3
      <3> HIDE DEF until, New, given
      <3> QED BY <2>1, <2>2, <3>1, PathIsGiven
    <2>4. CASE ~(i <= until /\ servers[i].path = "none")
      <3>1. New(i) = servers[i]
        BY <2>4
      <3> HIDE DEF until, New, given
      <3> QED BY <2>1, <2>2, <2>4, <3>1
    <2> QED BY <2>3, <2>4
  <1>4. given \in Seq(AnyServer(texts)) /\ DOMAIN given = DOMAIN servers /\ Len(given) = Len(servers)
    <2>1. DOMAIN given = 1..Len(servers) /\ \A i \in 1..Len(servers) : given[i] \in AnyServer(texts)
      BY <1>3
    <2> HIDE DEF given
    <2>2. given \in [1..Len(servers) -> AnyServer(texts)]
      <3>1. given = [i \in 1..Len(servers) |-> given[i]]
        BY DEF given
      <3> QED BY <2>1, <3>1
    <2> QED BY <2>1, <2>2
  <1>5. Bad(given) = bad
    <2> HIDE DEF given, New
    <2> QED BY <1>3, <1>4 DEF Bad
  <1>6. Until(Bad(given), given) = until
    <2> HIDE DEF given, bad
    <2> QED BY <1>4, <1>5 DEF Until
  <1>7. SetServerConfig(given) = [ok |-> bad = {}, servers |-> given]
    <2>1. SetServerConfig(given) = [ok |-> Bad(given) = {},
                                    servers |-> [i \in DOMAIN given |->
                                        IF i <= Until(Bad(given), given) /\ given[i].path = "none"
                                        THEN [given[i] EXCEPT !.path = "/nacos"] ELSE given[i]]]
      BY DEF SetServerConfig, Bad, Until
    <2> HIDE DEF given, New, until, bad
    <2>2. [i \in DOMAIN given |-> IF i <= until /\ given[i].path = "none"
                                  THEN [given[i] EXCEPT !.path = "/nacos"] ELSE given[i]]
             = [i \in DOMAIN given |-> given[i]]
      BY <1>3, <1>4
    <2>3. [i \in DOMAIN given |-> given[i]] = given
      BY <1>4
    <2> QED BY <1>5, <1>6, <2>1, <2>2, <2>3
  <1>8. bad = {} => \A i \in DOMAIN servers : i <= until
    BY DEF Until
  <1>9. bad = {} => \A i \in DOMAIN servers : servers[i].ip # "none" /\ servers[i].port \in 1..MaxPort
    BY DEF Bad
  <1> HIDE DEF given, New, until, bad
  <1> QED BY <1>1, <1>2, <1>3, <1>4, <1>7, <1>8, <1>9

(* Two clients made from one parameter get the same settings, for every     *)
(* list of servers; and what is accepted has its addresses and ports.       *)
THEOREM SettingsAgree ==
    ASSUME NEW texts, "/nacos" \in texts, NEW config, NEW servers \in Seq(AnyServer(texts)),
           NEW param, param = [config |-> config, servers |-> servers],
           NEW first, first = setConfig(param)
    PROVE  /\ setConfig([param EXCEPT !.servers = first.servers]) = first
           /\ first.ok =>
                  \/ servers = <<>> /\ SetClientConfig(config).endpoint
                  \/ \A i \in DOMAIN first.servers :
                         LET s == first.servers[i] IN
                         /\ s.ip # "none" /\ s.path # "none" /\ s.port \in 1..MaxPort
                         /\ s.grpcPort \in {servers[i].grpcPort, s.port + RpcPortOffset} \ {0}
  <1> DEFINE ported == [i \in DOMAIN servers |-> WithPorts(servers[i])]
             set == SetServerConfig(ported)
  <1>1. param.config = config /\ param.servers = servers
    OBVIOUS
  <1>2. CASE servers = <<>>
    <2>1. first = [ok |-> SetClientConfig(config).endpoint, config |-> SetClientConfig(config),
                   servers |-> <<>>]
      BY <1>1, <1>2 DEF setConfig
    <2>2. [param EXCEPT !.servers = first.servers] = param
      BY <1>2, <2>1
    <2>3. first.ok = SetClientConfig(config).endpoint
      BY <2>1
    <2> QED BY <1>2, <2>2, <2>3
  <1>3. CASE servers # <<>>
    <2>1. first = [ok |-> set.ok, config |-> SetClientConfig(config), servers |-> set.servers]
      BY <1>1, <1>3 DEF setConfig
    <2>2. first.ok = set.ok /\ first.servers = set.servers
      BY <2>1
    <2>3. \A i \in DOMAIN servers : servers[i] \in AnyServer(texts)
      OBVIOUS
    <2>4. ported \in Seq(AnyServer(texts)) /\ DOMAIN ported = DOMAIN servers
      <3>1. \A i \in 1..Len(servers) : WithPorts(servers[i]) \in AnyServer(texts)
        BY <2>3, PortsAreGiven
      <3>2. ported \in [1..Len(servers) -> AnyServer(texts)]
        BY <3>1
      <3> HIDE DEF ported
      <3>3. DOMAIN ported = 1..Len(servers)
        BY <3>2
      <3> QED BY <3>2, <3>3
    <2>5. \A i \in DOMAIN servers : ported[i] = WithPorts(servers[i])
      OBVIOUS
    <2> HIDE DEF ported
    <2>6. /\ set.servers \in Seq(AnyServer(texts)) /\ DOMAIN set.servers = DOMAIN servers
          /\ \A i \in DOMAIN servers : /\ set.servers[i].port = ported[i].port
                                       /\ set.servers[i].grpcPort = ported[i].grpcPort
                                       /\ set.servers[i].ip = ported[i].ip
          /\ SetServerConfig(set.servers) = set
          /\ set.ok => \A i \in DOMAIN servers : /\ ported[i].ip # "none"
                                                 /\ ported[i].port \in 1..MaxPort
                                                 /\ set.servers[i].path # "none"
      BY <2>4, ServersAreSet
    <2> HIDE DEF set
    <2>7. \A i \in DOMAIN servers : WithPorts(set.servers[i]) = set.servers[i]
      <3> TAKE i \in DOMAIN servers
      <3>1. ported[i].port # 0 /\ ported[i].grpcPort # 0
        BY <2>3, <2>5, PortsAreGiven
      <3>2. set.servers[i] \in AnyServer(texts)
        BY <2>6
      <3> QED BY <2>6, <3>1, <3>2, PortsStay
    <2>8. [i \in DOMAIN set.servers |-> WithPorts(set.servers[i])] = set.servers
      <3>1. [i \in DOMAIN set.servers |-> WithPorts(set.servers[i])]
               = [i \in DOMAIN set.servers |-> set.servers[i]]
        BY <2>6, <2>7
      <3> QED BY <2>6, <3>1
    <2>9. set.servers # <<>>
      <3>1. DOMAIN servers # {}
        <4>1. Len(servers) # 0 /\ Len(servers) \in Nat
          BY <1>3, EmptySeq
        <4>2. 1 \in DOMAIN servers
          BY <4>1
        <4> QED BY <4>2
      <3> QED BY <2>6, <3>1
    <2>10. setConfig([param EXCEPT !.servers = first.servers]) = first
      <3>1. /\ [param EXCEPT !.servers = first.servers].servers = set.servers
            /\ [param EXCEPT !.servers = first.servers].config = config
        BY <2>2
      <3>2. setConfig([param EXCEPT !.servers = first.servers])
               = [ok |-> set.ok, config |-> SetClientConfig(config), servers |-> set.servers]
        BY <2>6, <2>8, <2>9, <3>1 DEF setConfig
      <3> QED BY <2>1, <3>2
    <2>11. ASSUME first.ok, NEW i \in DOMAIN first.servers
           PROVE  /\ first.servers[i].ip # "none" /\ first.servers[i].path # "none"
                  /\ first.servers[i].port \in 1..MaxPort
                  /\ first.servers[i].grpcPort
                        \in {servers[i].grpcPort, first.servers[i].port + RpcPortOffset} \ {0}
      <3>1. i \in DOMAIN servers /\ servers[i] \in AnyServer(texts) /\ ported[i] = WithPorts(servers[i])
        BY <2>2, <2>3, <2>5, <2>6, <2>11
      <3>2. /\ WithPorts(servers[i]).grpcPort # 0
            /\ WithPorts(servers[i]).grpcPort \in {servers[i].grpcPort,
                                                   WithPorts(servers[i]).port + RpcPortOffset}
        BY <3>1, PortsAreGiven
      <3> QED BY <2>2, <2>6, <2>11, <3>1, <3>2
    <2> QED BY <2>10, <2>11
  <1> QED BY <1>2, <1>3

(* The settings of Spec's task, as the theorem above wants them. *)
SettingsInput ==
    task = "settings" =>
        /\ input = [config |-> input.config, servers |-> input.servers]
        /\ input.servers \in Seq(AnyServer({"none", "x", "/p", "/nacos"}))
        /\ SetClientConfig(input.config).endpoint = input.config.endpoint

(* CreateTwice is the step of its task. *)
LEMMA SettingsStep == ASSUME Next, task = "settings" PROVE CreateTwice
  BY DEF Next, Select, CompareSelectors, Request, RamLogin, SignRequest, EncryptConfig, Label, BuildChain,
         Computes

(* The inputs are what they are said to be. *)
LEMMA SettingsOfInit == Init => SettingsInput
  <1> DEFINE AnyOfThem == AnyServer({"none", "x", "/p", "/nacos"})
  <1> SUFFICES ASSUME Init, task = "settings"
               PROVE  /\ input = [config |-> input.config, servers |-> input.servers]
                      /\ input.servers \in Seq(AnyOfThem)
                      /\ SetClientConfig(input.config).endpoint = input.config.endpoint
    BY DEF SettingsInput
  <1>1. input \in [config : [timeoutMs : {0, 7}, beatInterval : {-1}, updateThreadNum : {1},
                             endpoint : BOOLEAN],
                   servers : SeqOf(Servers, 2)]
    BY DEF Init
  <1>2. Servers \subseteq AnyOfThem
    BY DEF Servers, AnyServer, DefaultPort, MaxPort
  <1>3. SeqOf(Servers, 2) \subseteq Seq(Servers)
    BY BoundedIsSequence
  <1>4. Seq(Servers) \subseteq Seq(AnyOfThem)
    <2> HIDE DEF AnyOfThem
    <2> QED BY <1>2
  <1>5. input.servers \in Seq(AnyOfThem)
    BY <1>1, <1>3, <1>4
  <1>6. ASSUME NEW config \in [timeoutMs : {0, 7}, beatInterval : {-1}, updateThreadNum : {1},
                               endpoint : BOOLEAN]
        PROVE  SetClientConfig(config).endpoint = config.endpoint
    BY DEF SetClientConfig
  <1> QED BY <1>1, <1>5, <1>6

(* Of two clients that client_factory.go makes from one parameter, the      *)
(* second gets what the first got, although setConfig writes its defaults   *)
(* into the caller's servers.                                               *)
THEOREM SharedParamsAgree == Spec => []SharedParamAgrees
  <1>1. Init => SettingsInput /\ SharedParamAgrees
    BY SettingsOfInit DEF Init, SharedParamAgrees, Done
  <1>2. SettingsInput /\ SharedParamAgrees /\ [Next]_vars => (SettingsInput /\ SharedParamAgrees)'
    <2> SUFFICES ASSUME SettingsInput, SharedParamAgrees, [Next]_vars
                 PROVE  (SettingsInput /\ SharedParamAgrees)'
      OBVIOUS
    <2>1. CASE UNCHANGED vars
      BY <2>1 DEF vars, SettingsInput, SharedParamAgrees, Done, Result
    <2>2. CASE Next /\ task # "settings"
      BY <2>2, OneOutput DEF SettingsInput, SharedParamAgrees, Done
    <2>3. CASE Next /\ task = "settings"
      <3>1. CreateTwice /\ task' = task /\ input' = input
        BY <2>3, OneOutput, SettingsStep
      <3>2. PICK first, second : /\ first = setConfig(input)
                                 /\ second = setConfig([input EXCEPT !.servers = first.servers])
                                 /\ output' = <<[first |-> first, second |-> second]>>
        BY <3>1 DEF CreateTwice, Computes
      <3>3. Result'.first = first /\ Result'.second = second
        BY <3>2 DEF Result
      <3>4. /\ input = [config |-> input.config, servers |-> input.servers]
            /\ input.servers \in Seq(AnyServer({"none", "x", "/p", "/nacos"}))
            /\ SetClientConfig(input.config).endpoint = input.config.endpoint
        BY <2>3 DEF SettingsInput
      <3>5. "/nacos" \in {"none", "x", "/p", "/nacos"}
        OBVIOUS
      <3>6. /\ second = first
            /\ first.ok =>
                  \/ input.servers = <<>> /\ input.config.endpoint
                  \/ \A i \in DOMAIN first.servers :
                         LET s == first.servers[i] IN
                         /\ s.ip # "none" /\ s.path # "none" /\ s.port \in 1..MaxPort
                         /\ s.grpcPort \in {input.servers[i].grpcPort, s.port + RpcPortOffset} \ {0}
        BY <3>2, <3>4, <3>5, SettingsAgree
      <3> QED BY <3>1, <3>3, <3>6 DEF SettingsInput, SharedParamAgrees
    <2> QED BY <2>1, <2>2, <2>3
  <1> QED BY <1>1, <1>2, PTL DEF Spec

-----------------------------------------------------------------------------
(* Credentials. *)

(* The user's own provider. *)
Custom == [match |-> TRUE, context |-> RamContext("custom", "custom", "none", "none", FALSE), init |-> TRUE]

(* The providers, by their place in the list. *)
LEMMA Providers ==
    ASSUME NEW c, NEW cloud, c.custom \in BOOLEAN,
           NEW P, P = NewRamAuthClientWithProvider(c, cloud)
    PROVE  /\ DOMAIN P = 1..(IF c.custom THEN 8 ELSE 7)
           /\ P[1] = RamRoleArnCredentialProvider(c, cloud)
           /\ P[2] = EcsRamRoleCredentialProvider(c, cloud)
           /\ P[3] = OIDCRoleArnCredentialProvider(c, cloud)
           /\ P[4] = CredentialsURICredentialProvider(c, cloud)
           /\ P[5] = AutoRotateCredentialProvider(c, cloud)
           /\ P[6] = StsTokenCredentialProvider(c, cloud)
           /\ P[7] = AccessKeyCredentialProvider(c, cloud)
           /\ c.custom => P[8] = Custom
  <1>1. CASE c.custom
    <2>1. P = NewRamAuthClient(c, cloud) \o <<Custom>>
      BY <1>1 DEF NewRamAuthClientWithProvider, Custom
    <2>2. DOMAIN P = 1..8
      BY <2>1 DEF NewRamAuthClient
    <2>3. P[8] = Custom
      BY <2>1 DEF NewRamAuthClient
    <2>4. /\ P[1] = RamRoleArnCredentialProvider(c, cloud)
          /\ P[2] = EcsRamRoleCredentialProvider(c, cloud)
          /\ P[3] = OIDCRoleArnCredentialProvider(c, cloud)
          /\ P[4] = CredentialsURICredentialProvider(c, cloud)
          /\ P[5] = AutoRotateCredentialProvider(c, cloud)
          /\ P[6] = StsTokenCredentialProvider(c, cloud)
          /\ P[7] = AccessKeyCredentialProvider(c, cloud)
      BY <2>1 DEF NewRamAuthClient
    <2> QED BY <1>1, <2>2, <2>3, <2>4
  <1>2. CASE ~c.custom
    <2>1. P = NewRamAuthClient(c, cloud) \o <<>>
      BY <1>2 DEF NewRamAuthClientWithProvider
    <2> QED BY <1>2, <2>1 DEF NewRamAuthClient
  <1> QED BY <1>1, <1>2

(* Login takes the first provider that matches. *)
LEMMA LoginTakesFirst ==
    ASSUME NEW c, NEW cloud, c.custom \in BOOLEAN,
           NEW P, P = NewRamAuthClientWithProvider(c, cloud), Login(c, cloud).matched
    PROVE  \E i \in DOMAIN P : /\ P[i].match /\ Login(c, cloud).context = P[i].context
                               /\ \A j \in DOMAIN P : P[j].match => i <= j
  <1> DEFINE matching == {i \in DOMAIN P : P[i].match}
             first == CHOOSE i \in matching : \A j \in matching : i <= j
  <1>1. Login(c, cloud) = IF matching = {} THEN [matched |-> FALSE, ok |-> FALSE, context |-> NoContext]
                          ELSE [matched |-> TRUE, ok |-> P[first].init, context |-> P[first].context]
    BY DEF Login
  <1>2. matching \in SUBSET Nat
    <2>1. DOMAIN P \subseteq Nat
      <3>1. DOMAIN P = 1..(IF c.custom THEN 8 ELSE 7)
        BY Providers
      <3> QED BY <3>1
    <2> QED BY <2>1
  <1> HIDE DEF matching
  <1>3. matching # {} /\ Login(c, cloud).context = P[first].context
    BY <1>1
  <1>4. first \in matching /\ \A j \in matching : first <= j
    BY <1>2, <1>3, Least
  <1> HIDE DEF first
  <1> QED BY <1>3, <1>4 DEF matching

(* Where a value can come from. *)
LEMMA Sources ==
    ASSUME NEW c, NEW p
    PROVE  GetNacosProperties(c, p) \in {"own", "env", "none"}
  BY DEF GetNacosProperties

(* The secret and the token of a context are those of its access key.       *)
Matches(c, context) ==
    /\ context.secretKey = context.accessKey
    /\ (IF context.ephemeralAccessKeyId THEN context.securityToken ELSE "none") = TokenDue(c, context.accessKey)

(* That they are is decided by what is set where, if the key is configured. *)
Decided(c, context) ==
    /\ context.signatureRegionId \in {GetNacosProperties(c, "region"), "none"}
    /\ Matches(c, context) <=> SetTogether(c) \/ context.accessKey \notin {"own", "env"}

(* What is signed with a context is accepted just when they are.            *)
LEMMA AcceptedIfMatching ==
    ASSUME NEW c, NEW context, context.signatureRegionId \in {GetNacosProperties(c, "region"), "none"},
           NEW resource, resource.requestType = "naming",
           NEW info, info = doInject(resource, context)
    PROVE  info.accessKey = context.accessKey /\ (Accepts(c, info) <=> Matches(c, context))
  <1>1. /\ info.accessKey = context.accessKey
        /\ info.token = IF context.ephemeralAccessKeyId THEN context.securityToken ELSE "none"
        /\ info.version = IF context.signatureRegionId = "none" THEN "none" ELSE "v4"
        /\ info.signature.key = trySignatureWithV4(context)
    BY DEF doInject, Sign
  <1>2. (info.signature.key = IF info.version = "v4"
                              THEN finalSigningKey(info.accessKey, GetNacosProperties(c, "region"))
                              ELSE <<info.accessKey>>)
            <=> context.secretKey = context.accessKey
    <2>1. CASE context.signatureRegionId = "none"
      BY <1>1, <2>1 DEF trySignatureWithV4
    <2>2. CASE context.signatureRegionId # "none"
      <3>1. \A a, b, region : <<a, region>> = <<b, region>> <=> a = b
        OBVIOUS
      <3> QED BY <1>1, <2>2, <3>1 DEF trySignatureWithV4, finalSigningKey
    <2> QED BY <2>1, <2>2
  <1> QED BY <1>1, <1>2 DEF Accepts, Matches

(* What a service gives belongs together. *)
LEMMA CloudDecided ==
    ASSUME NEW c, NEW place \in {"cloud", "secretManager"}
    PROVE  Decided(c, FromCloud(c, "ok", place))
  <1> DEFINE context == FromCloud(c, "ok", place)
  <1>1. context = RamContext(place, place, IF place = "cloud" THEN place ELSE "none",
                             GetNacosProperties(c, "region"), place = "cloud")
    BY DEF FromCloud
  <1>2. /\ context.accessKey = place /\ context.secretKey = place
        /\ context.securityToken = (IF place = "cloud" THEN place ELSE "none")
        /\ context.ephemeralAccessKeyId = (place = "cloud")
        /\ context.signatureRegionId = GetNacosProperties(c, "region")
    BY <1>1 DEF RamContext
  <1> HIDE DEF context
  <1>3. TokenDue(c, place) = IF place = "cloud" THEN place ELSE "none"
    BY DEF TokenDue, Temporary
  <1>4. Decided(c, context)
    BY <1>2, <1>3 DEF Decided, Matches
  <1> QED BY <1>4 DEF context

(* A key that is configured with a token. *)
LEMMA StsDecided ==
    ASSUME NEW c, StsTokenCredentialProvider(c, "ok").match
    PROVE  Decided(c, StsTokenCredentialProvider(c, "ok").context)
  <1> DEFINE context == StsTokenCredentialProvider(c, "ok").context
  <1>1. /\ context.accessKey = GetNacosProperties(c, "ak")
        /\ context.secretKey = GetNacosProperties(c, "sk")
        /\ context.securityToken = GetNacosProperties(c, "token")
        /\ context.signatureRegionId = GetNacosProperties(c, "region")
        /\ context.ephemeralAccessKeyId
    BY DEF StsTokenCredentialProvider, RamContext
  <1>2. c.ram /\ IsSet(c, {"ak", "sk", "token"})
    BY DEF StsTokenCredentialProvider
  <1>3. GetNacosProperties(c, "ak") \in {"own", "env"}
    BY <1>2, Sources DEF IsSet
  <1> HIDE DEF context
  <1>4. Decided(c, context)
    BY <1>1, <1>2, <1>3 DEF Decided, Matches, SetTogether
  <1> QED BY <1>4 DEF context

(* One alone, if the provider with a token did not match. *)
LEMMA AccessKeyDecided ==
    ASSUME NEW c, c.ram \in BOOLEAN,
           AccessKeyCredentialProvider(c, "ok").match, ~StsTokenCredentialProvider(c, "ok").match
    PROVE  Decided(c, AccessKeyCredentialProvider(c, "ok").context)
  <1> DEFINE context == AccessKeyCredentialProvider(c, "ok").context
  <1>1. /\ context.accessKey = GetNacosProperties(c, "ak")
        /\ context.secretKey = GetNacosProperties(c, "sk")
        /\ context.signatureRegionId \in {GetNacosProperties(c, "region"), "none"}
        /\ ~context.ephemeralAccessKeyId
    BY DEF AccessKeyCredentialProvider, RamContext
  <1>2. \A p \in {"ak", "sk"} : GetNacosProperties(c, p) # "none"
    BY DEF AccessKeyCredentialProvider, IsSet
  <1>3. GetNacosProperties(c, "ak") \in {"own", "env"}
    BY <1>2, Sources
  <1>4. (IF c.ram THEN GetNacosProperties(c, "token") ELSE "none") = "none"
    <2>1. ~(c.ram /\ \A p \in {"ak", "sk", "token"} : GetNacosProperties(c, p) # "none")
      BY DEF StsTokenCredentialProvider, IsSet
    <2> QED BY <1>2, <2>1
  <1> HIDE DEF context
  <1>5. SetTogether(c) <=> Matches(c, context)
    BY <1>1, <1>4 DEF Matches, SetTogether
  <1>6. Decided(c, context)
    BY <1>1, <1>3, <1>5 DEF Decided
  <1> QED BY <1>6 DEF context

(* What the user's own provider gives. *)
LEMMA CustomDecided ==
    ASSUME NEW c
    PROVE  Decided(c, Custom.context)
  <1>1. TokenDue(c, "custom") = "none"
    BY DEF TokenDue, Temporary
  <1>2. Custom.context = RamContext("custom", "custom", "none", "none", FALSE)
    BY DEF Custom, RamContext
  <1> QED BY <1>1, <1>2 DEF Decided, Matches, RamContext

(* So for what Login leaves, whatever the configuration and the environment *)
(* set: a key is only used alone when there is no token to send with it.    *)
LEMMA LoginDecided ==
    ASSUME NEW c, c.custom \in BOOLEAN, c.ram \in BOOLEAN, Login(c, "ok").matched
    PROVE  Decided(c, Login(c, "ok").context)
  <1> DEFINE P == NewRamAuthClientWithProvider(c, "ok")
             source(p) == GetNacosProperties(c, p)
  <1>1. /\ DOMAIN P = 1..(IF c.custom THEN 8 ELSE 7)
        /\ P[1] = RamRoleArnCredentialProvider(c, "ok")
        /\ P[2] = EcsRamRoleCredentialProvider(c, "ok")
        /\ P[3] = OIDCRoleArnCredentialProvider(c, "ok")
        /\ P[4] = CredentialsURICredentialProvider(c, "ok")
        /\ P[5] = AutoRotateCredentialProvider(c, "ok")
        /\ P[6] = StsTokenCredentialProvider(c, "ok")
        /\ P[7] = AccessKeyCredentialProvider(c, "ok")
        /\ c.custom => P[8] = Custom
    BY Providers
  <1>2. PICK i \in DOMAIN P : /\ P[i].match /\ Login(c, "ok").context = P[i].context
                              /\ \A j \in DOMAIN P : P[j].match => i <= j
    BY LoginTakesFirst
  <1> HIDE DEF P
  <1>3. i \in 1..8 /\ (i = 8 => c.custom) /\ 6 \in DOMAIN P
    BY <1>1
  <1>4. CASE i \in 1..5
    <2>1. \E place \in {"cloud", "secretManager"} : P[i].context = FromCloud(c, "ok", place)
      BY <1>1, <1>4 DEF RamRoleArnCredentialProvider, EcsRamRoleCredentialProvider,
             OIDCRoleArnCredentialProvider, CredentialsURICredentialProvider, AutoRotateCredentialProvider
    <2> QED BY <1>2, <2>1, CloudDecided
  <1>5. CASE i = 6
    BY <1>1, <1>2, <1>5, StsDecided
  <1>6. CASE i = 7
    <2>1. AccessKeyCredentialProvider(c, "ok").match
      BY <1>1, <1>2, <1>6
    <2>2. ~StsTokenCredentialProvider(c, "ok").match
      BY <1>1, <1>2, <1>3, <1>6
    <2> QED BY <1>1, <1>2, <1>6, <2>1, <2>2, AccessKeyDecided
  <1>7. CASE i = 8
    BY <1>1, <1>2, <1>3, <1>7, CustomDecided
  <1> QED BY <1>3, <1>4, <1>5, <1>6, <1>7

(* Whatever configuration and environment set: the server accepts a naming  *)
(* request of a client just when its access key, secret and token are those *)
(* of one key, or when the key comes from a service or the user's provider. *)
(* The order of the providers never separates what was set together.        *)
THEOREM SignatureVerifies ==
    ASSUME NEW c, c.custom \in BOOLEAN, c.ram \in BOOLEAN,
           NEW resource, resource.requestType = "naming",
           NEW r, r = GetSecurityInfo(Login(c, "ok"), resource), r.present
    PROVE  Accepts(c, r.info) <=> SetTogether(c) \/ r.info.accessKey \notin {"own", "env"}
  <1> DEFINE context == Login(c, "ok").context
  <1>1. Login(c, "ok").matched /\ r.info = doInject(resource, context)
    BY DEF GetSecurityInfo
  <1>2. Decided(c, context)
    BY <1>1, LoginDecided
  <1> HIDE DEF context
  <1>3. context.signatureRegionId \in {GetNacosProperties(c, "region"), "none"}
    BY <1>2 DEF Decided
  <1>4. r.info.accessKey = context.accessKey /\ (Accepts(c, r.info) <=> Matches(c, context))
    BY <1>1, <1>3, AcceptedIfMatching
  <1> QED BY <1>2, <1>4 DEF Decided

(* The configurations of Spec's task are records with their flags. *)
LoginInput == task = "login" => input.config.ram \in BOOLEAN /\ input.config.custom \in BOOLEAN

(* RamLogin is the step of its task. *)
LEMMA LoginStep == ASSUME Next, task = "login" PROVE RamLogin
  BY DEF Next, Select, CompareSelectors, Request, SignRequest, EncryptConfig, CreateTwice, Label,
         BuildChain, Computes

(* The inputs are what they are said to be. *)
LEMMA LoginOfInit == Init => LoginInput
  <1> SUFFICES ASSUME Init, task = "login"
               PROVE  input.config.ram \in BOOLEAN /\ input.config.custom \in BOOLEAN
    BY DEF LoginInput
  <1>1. input \in [config : ClientConfigs, cloud : {"ok", "initFails", "getFails"}]
    BY DEF Init
  <1>2. input.config \in ClientConfigs
    BY <1>1
  <1>3. \A c \in ClientConfigs : c.ram \in BOOLEAN /\ c.custom \in BOOLEAN
    BY DEF ClientConfigs
  <1> QED BY <1>2, <1>3

(* The same of the headers that GetSecurityInfo gives after Login for the   *)
(* configurations of Spec, whichever provider NewRamAuthClient's order led  *)
(* to.                                                                      *)
THEOREM SignaturesVerify == Spec => []SignedVerifiably
  <1>1. Init => LoginInput /\ SignedVerifiably
    BY LoginOfInit DEF Init, SignedVerifiably, Done
  <1>2. LoginInput /\ SignedVerifiably /\ [Next]_vars => (LoginInput /\ SignedVerifiably)'
    <2> SUFFICES ASSUME LoginInput, SignedVerifiably, [Next]_vars
                 PROVE  (LoginInput /\ SignedVerifiably)'
      OBVIOUS
    <2>1. CASE UNCHANGED vars
      BY <2>1 DEF vars, LoginInput, SignedVerifiably, Done, Result
    <2>2. CASE Next /\ task # "login"
      BY <2>2, OneOutput DEF LoginInput, SignedVerifiably, Done
    <2>3. CASE Next /\ task = "login"
      <3> DEFINE c == input.config
                 resource == BuildNamingResource(<<"n">>, <<"g">>, <<"s">>)
      <3>1. RamLogin /\ task' = task /\ input' = input
        BY <2>3, OneOutput, LoginStep
      <3>2. PICK r : r = GetSecurityInfo(Login(c, input.cloud), resource) /\ output' = <<r>>
        BY <3>1 DEF RamLogin, Computes
      <3>3. Result' = r
        BY <3>2 DEF Result
      <3>4. resource.requestType = "naming"
        BY DEF BuildNamingResource
      <3>5. c.custom \in BOOLEAN /\ c.ram \in BOOLEAN
        BY <2>3 DEF LoginInput
      <3> HIDE DEF c, resource
      <3>6. ASSUME r.present, input.cloud = "ok"
            PROVE  Accepts(c, r.info) <=> SetTogether(c) \/ r.info.accessKey \notin {"own", "env"}
        <4>1. r = GetSecurityInfo(Login(c, "ok"), resource)
          BY <3>2, <3>6
        <4> QED BY <3>4, <3>5, <3>6, <4>1, SignatureVerifies
      <3> QED BY <3>1, <3>3, <3>6 DEF LoginInput, SignedVerifiably, c
    <2> QED BY <2>1, <2>2, <2>3
  <1> QED BY <1>1, <1>2, PTL DEF Spec

-----------------------------------------------------------------------------
(* Signing. *)

(* SignRequest is the step of its task. *)
LEMMA SignStep == ASSUME Next, task = "sign" PROVE SignRequest
  BY DEF Next, Select, CompareSelectors, Request, RamLogin, EncryptConfig, CreateTwice, Label,
         BuildChain, Computes

(* A request is signed for what it is about, whatever its namespace, group  *)
(* and service: the name gets its group once.                               *)
THEOREM SignedForItsService ==
    ASSUME NEW r, NEW g, NEW s, r.group = <<g>>,
           r.name = <<s>> \/ r.name = <<g, s>>,
           NEW context, context.secretKey # "none", context.signatureRegionId # "none",
           NEW resource, resource = IF r.type \in NamingRequests THEN BuildNamingResourceByRequest(r)
                                    ELSE BuildConfigResourceByRequest(r)
    PROVE  doInject(resource, context).signature.data
              = IF r.type \in NamingRequests THEN <<g, s>>
                ELSE IF r.type \in ConfigRequests THEN r.namespace \o <<g>> ELSE <<>>
  <1> DEFINE key == trySignatureWithV4(context)
             data == IF resource.requestType = "naming" THEN getGroupedServiceName(resource)
                     ELSE getResourceName(resource)
  <1>1. key # <<"none">>
    BY DEF trySignatureWithV4, finalSigningKey
  <1>2. doInject(resource, context).signature.data = data
    BY <1>1 DEF doInject, Sign
  <1> HIDE DEF data
  <1>3. CASE r.type \in NamingRequests
    <2>1. resource = BuildNamingResource(r.namespace, r.group, r.name)
      BY <1>3 DEF BuildNamingResourceByRequest
    <2>2. resource.requestType = "naming" /\ resource.group = <<g>> /\ resource.resource = r.name
      BY <2>1 DEF BuildNamingResource
    <2>3. data = getGroupedServiceName(resource)
      BY <2>2 DEF data
    <2>4. ASSUME r.name = <<s>> PROVE data = <<g, s>>
      <3>1. <<g>> \o <<s>> = <<g, s>> /\ Len(<<s>>) = 1 /\ <<g>> # <<>>
        BY TwoParts
      <3> QED BY <2>2, <2>3, <2>4, <3>1 DEF getGroupedServiceName
    <2>5. ASSUME r.name = <<g, s>> PROVE data = <<g, s>>
      BY <2>2, <2>3, <2>5 DEF getGroupedServiceName
    <2> QED BY <1>2, <1>3, <2>4, <2>5
  <1>4. CASE r.type \notin NamingRequests /\ r.type \in ConfigRequests
    <2>1. resource = BuildConfigResource(r.namespace, r.group, r.name)
      BY <1>4 DEF BuildConfigResourceByRequest
    <2>2. resource.requestType = "config" /\ resource.group = <<g>> /\ resource.namespace = r.namespace
      BY <2>1 DEF BuildConfigResource
    <2> QED BY <1>2, <1>4, <2>2 DEF data, getResourceName
  <1>5. CASE r.type \notin NamingRequests /\ r.type \notin ConfigRequests
    <2>1. resource = BuildConfigResource(<<>>, <<>>, <<>>)
      BY <1>5 DEF BuildConfigResourceByRequest
    <2>2. resource.requestType = "config" /\ resource.group = <<>> /\ resource.namespace = <<>>
      BY <2>1 DEF BuildConfigResource
    <2>3. <<>> \o <<>> = <<>>
      OBVIOUS
    <2> QED BY <1>2, <1>5, <2>2, <2>3 DEF data, getResourceName
  <1> QED BY <1>3, <1>4, <1>5

(* The inputs of Spec's task. *)
SignInput ==
    task = "sign" => /\ input.group = <<"g">> /\ input.name \in {<<"s">>, <<"g", "s">>}

(* doInject signs a gRPC request for the grouped name of its service or for *)
(* the namespace and group of its config.                                   *)
THEOREM SignsForItsService == Spec => []SignsItsService
  <1>1. Init => SignInput /\ SignsItsService
    BY DEF Init, SignInput, Requests, SignsItsService, Done
  <1>2. SignInput /\ SignsItsService /\ [Next]_vars => (SignInput /\ SignsItsService)'
    <2> SUFFICES ASSUME SignInput, SignsItsService, [Next]_vars
                 PROVE  (SignInput /\ SignsItsService)'
      OBVIOUS
    <2>1. CASE UNCHANGED vars
      BY <2>1 DEF vars, SignInput, SignsItsService, Done, Result
    <2>2. CASE Next /\ task # "sign"
      BY <2>2, OneOutput DEF SignInput, SignsItsService, Done
    <2>3. CASE Next /\ task = "sign"
      <3> DEFINE resource == IF input.type \in NamingRequests THEN BuildNamingResourceByRequest(input)
                             ELSE BuildConfigResourceByRequest(input)
                 context == RamContext("own", "own", "none", "own", FALSE)
      <3>1. SignRequest /\ task' = task /\ input' = input
        BY <2>3, OneOutput, SignStep
      <3>2. output' = <<doInject(resource, context)>>
        BY <3>1 DEF SignRequest, Computes
      <3>3. Result' = doInject(resource, context)
        BY <3>2 DEF Result
      <3>4. context.secretKey # "none" /\ context.signatureRegionId # "none"
        BY DEF RamContext
      <3>5. input.group = <<"g">> /\ (input.name = <<"s">> \/ input.name = <<"g", "s">>)
        BY <2>3 DEF SignInput
      <3> HIDE DEF context
      <3>6. doInject(resource, context).signature.data
               = IF input.type \in NamingRequests THEN <<"g", "s">>
                 ELSE IF input.type \in ConfigRequests THEN input.namespace \o <<"g">> ELSE <<>>
        BY <3>4, <3>5, SignedForItsService
      <3> HIDE DEF resource
      <3> QED BY <3>1, <3>3, <3>6 DEF SignInput, SignsItsService
    <2> QED BY <2>1, <2>2, <2>3
  <1> QED BY <1>1, <1>2, PTL DEF Spec

-----------------------------------------------------------------------------
(* Labels. *)

(* The values that the environment's labels give to a key. *)
Given(labels, k) ==
    {labels[i].value : i \in {j \in DOMAIN labels : labels[j].key = k /\ labels[j].parts = 2}}

(* parseLabels has the keys that are given, each with a value it was given. *)
LEMMA ParsedIsGiven ==
    ASSUME NEW L, NEW labels \in Seq(L), NEW k
    PROVE  /\ k \in DOMAIN parseLabels(labels) <=> Given(labels, k) # {}
           /\ k \in DOMAIN parseLabels(labels) => parseLabels(labels)[k] \in Given(labels, k)
  <1> DEFINE good == {i \in DOMAIN labels : labels[i].parts = 2}
             keys == {labels[i].key : i \in good}
             last(q) == CHOOSE i \in good : /\ labels[i].key = q
                                            /\ \A j \in good : labels[j].key = q => j <= i
             mine == {i \in good : labels[i].key = k}
  <1>1. parseLabels(labels) = [q \in keys |-> labels[last(q)].value]
    BY DEF parseLabels
  <1>2. Given(labels, k) = {labels[i].value : i \in mine}
    BY DEF Given
  <1>3. DOMAIN parseLabels(labels) = keys /\ (k \in keys <=> mine # {})
    BY <1>1
  <1>4. ASSUME mine # {}
        PROVE  last(k) \in mine
    <2>1. Len(labels) \in Nat /\ mine \in SUBSET (0..Len(labels))
      OBVIOUS
    <2> HIDE DEF mine
    <2>2. \E i \in mine : \A j \in mine : j <= i
      BY <1>4, <2>1, Greatest
    <2>3. \E i \in good : /\ labels[i].key = k
                          /\ \A j \in good : labels[j].key = k => j <= i
      BY <2>2 DEF mine
    <2> HIDE DEF good
    <2>4. last(k) \in good /\ labels[last(k)].key = k
      BY <2>3
    <2> HIDE DEF last
    <2> QED BY <2>4 DEF mine
  <1>5. ASSUME k \in keys
        PROVE  parseLabels(labels)[k] = labels[last(k)].value
    BY <1>1, <1>5
  <1> HIDE DEF last, mine, keys
  <1> QED BY <1>2, <1>3, <1>4, <1>5

(* Of two maps, the first has precedence. *)
LEMMA FirstHasPrecedence ==
    ASSUME NEW f, NEW g, NEW k
    PROVE  /\ k \in DOMAIN Overlay(f, g) <=> k \in DOMAIN f \/ k \in DOMAIN g
           /\ k \in DOMAIN f => Overlay(f, g)[k] = f[k]
           /\ k \notin DOMAIN f /\ k \in DOMAIN g => Overlay(f, g)[k] = g[k]
  BY DEF Overlay

(* The key of the gray label. *)
GrayKey == "nacos_config_gray_label"

(* The values that the environment has for a key. *)
EnvOf(gray, env, k) ==
    Given(env, k) \cup IF Given(env, k) = {} /\ k = GrayKey THEN {gray} \ {"none"} ELSE {}

(* getAppLabelsFromEnv has one of them, if there is one. *)
LEMMA EnvHasLabel ==
    ASSUME NEW L, NEW env \in Seq(L), NEW gray, NEW k
    PROVE  LET m == getAppLabelsFromEnv(gray, env) IN
           /\ k \in DOMAIN m <=> EnvOf(gray, env, k) # {}
           /\ k \in DOMAIN m => m[k] \in EnvOf(gray, env, k)
  <1> DEFINE parsed == parseLabels(env)
             rest == IF gray = "none" THEN NoLabels ELSE [q \in {GrayKey} |-> gray]
  <1>1. getAppLabelsFromEnv(gray, env) = Overlay(parsed, rest)
    BY DEF getAppLabelsFromEnv, GrayKey
  <1>2. /\ k \in DOMAIN parsed <=> Given(env, k) # {}
        /\ k \in DOMAIN parsed => parsed[k] \in Given(env, k)
    BY ParsedIsGiven
  <1>3. /\ k \in DOMAIN rest <=> k = GrayKey /\ gray # "none"
        /\ k \in DOMAIN rest => rest[k] = gray
    <2>1. DOMAIN NoLabels = {}
      BY DEF NoLabels
    <2> QED BY <2>1
  <1> HIDE DEF parsed, rest
  <1> QED BY <1>1, <1>2, <1>3, FirstHasPrecedence DEF EnvOf

(* addPrefixForEachKey keeps what a key that is not blank has. *)
LEMMA PrefixKeeps ==
    ASSUME NEW m, NEW k, k # "none"
    PROVE  /\ <<"app_", k>> \in DOMAIN addPrefixForEachKey(m) <=> k \in DOMAIN m
           /\ k \in DOMAIN m => addPrefixForEachKey(m)[<<"app_", k>>] = m[k]
  BY DEF addPrefixForEachKey

(* The label of a key is the configuration's where it has the key and is    *)
(* preferred or alone, and otherwise one that the environment has, if any.  *)
HasPrecedence(appointed, gray, env, preferred, k, result) ==
    LET key == <<"app_", k>>
        has == EnvOf(gray, env, k)
    IN IF k \in DOMAIN appointed /\ (has = {} \/ preferred # "env")
       THEN key \in DOMAIN result /\ result[key] = appointed[k]
       ELSE /\ key \in DOMAIN result <=> has # {}
            /\ key \in DOMAIN result => result[key] \in has

(* The labels of a connection have that precedence, whatever the labels,    *)
(* for every key that is not blank and that the labels of the SDK itself do *)
(* not have with its prefix.                                                *)
THEOREM LabelsHavePrecedence ==
    ASSUME NEW L, NEW env \in Seq(L), NEW appointed, NEW gray, NEW preferred, NEW sdk,
           NEW k, k # "none", <<"app_", k>> \notin DOMAIN sdk,
           NEW result, result = CreateClient(appointed, gray, env, preferred, sdk)
    PROVE  HasPrecedence(appointed, gray, env, preferred, k, result)
  <1> DEFINE e == getAppLabelsFromEnv(gray, env)
             has == EnvOf(gray, env, k)
             m == mergerAppLabels(appointed, e, preferred)
             key == <<"app_", k>>
  <1>1. (k \in DOMAIN e <=> has # {}) /\ (k \in DOMAIN e => e[k] \in has)
    BY EnvHasLabel
  <1>2. result = Overlay(sdk, addPrefixForEachKey(m))
    BY DEF CreateClient
  <1>3. m = IF preferred # "env" THEN Overlay(appointed, e) ELSE Overlay(e, appointed)
    BY DEF mergerAppLabels, mergeMaps
  <1> HIDE DEF e, has, m
  <1>4. (key \in DOMAIN result <=> k \in DOMAIN m) /\ (key \in DOMAIN result => result[key] = m[k])
    <2> HIDE DEF key
    <2>1. /\ key \in DOMAIN addPrefixForEachKey(m) <=> k \in DOMAIN m
          /\ k \in DOMAIN m => addPrefixForEachKey(m)[key] = m[k]
      BY PrefixKeeps DEF key
    <2>2. key \notin DOMAIN sdk
      BY DEF key
    <2> QED BY <1>2, <2>1, <2>2, FirstHasPrecedence
  <1> HIDE DEF key
  <1>5. /\ k \in DOMAIN m <=> k \in DOMAIN appointed \/ k \in DOMAIN e
        /\ k \in DOMAIN appointed /\ (preferred # "env" \/ k \notin DOMAIN e) => m[k] = appointed[k]
        /\ k \in DOMAIN e /\ (preferred = "env" \/ k \notin DOMAIN appointed) => m[k] = e[k]
    BY <1>3, FirstHasPrecedence
  <1>6. IF k \in DOMAIN appointed /\ (has = {} \/ preferred # "env")
        THEN key \in DOMAIN result /\ result[key] = appointed[k]
        ELSE /\ key \in DOMAIN result <=> has # {}
             /\ key \in DOMAIN result => result[key] \in has
    BY <1>1, <1>4, <1>5
  <1> QED BY <1>6 DEF key, has, HasPrecedence

(* Label is the step of its task. *)
LEMMA LabelStep == ASSUME Next, task = "labels" PROVE Label
  BY DEF Next, Select, CompareSelectors, Request, RamLogin, SignRequest, EncryptConfig, CreateTwice,
         BuildChain, Computes

(* The inputs of Spec's task. *)
LabelInput ==
    task = "labels" => input.env \in Seq([key : {"none", "k"}, value : {"e1", "e2"}, parts : {2, 3}])

(* What LabelPrecedence says of a result. *)
Precedes(in, result) ==
    \A k \in {"k", "nacos_config_gray_label"} :
        LET given == {in.env[i].value : i \in {j \in DOMAIN in.env :
                                                  in.env[j].key = k /\ in.env[j].parts = 2}}
            env == given \cup IF given = {} /\ k # "k" THEN {in.gray} \ {"none"} ELSE {}
            own == IF k \in DOMAIN in.appointed THEN {in.appointed[k]} ELSE {}
            label == IF <<"app_", k>> \in DOMAIN result THEN {result[<<"app_", k>>]} ELSE {}
        IN IF own # {} /\ (env = {} \/ in.preferred # "env") THEN label = own
           ELSE label \subseteq env /\ (label = {} <=> env = {})

(* CreateClient gives a result of which it is true. *)
LEMMA LabelsPrecede ==
    ASSUME NEW in, NEW L, in.env \in Seq(L), NEW sdk, \A k : <<"app_", k>> \notin DOMAIN sdk,
           NEW result, result = CreateClient(in.appointed, in.gray, in.env, in.preferred, sdk)
    PROVE  Precedes(in, result)
  <1>1. ASSUME NEW k \in {"k", "nacos_config_gray_label"}
        PROVE  LET has == EnvOf(in.gray, in.env, k)
                   own == IF k \in DOMAIN in.appointed THEN {in.appointed[k]} ELSE {}
                   label == IF <<"app_", k>> \in DOMAIN result THEN {result[<<"app_", k>>]} ELSE {}
               IN IF own # {} /\ (has = {} \/ in.preferred # "env") THEN label = own
                  ELSE label \subseteq has /\ (label = {} <=> has = {})
    <2> DEFINE key == <<"app_", k>>
               has == EnvOf(in.gray, in.env, k)
    <2>1. k # "none" /\ key \notin DOMAIN sdk
      OBVIOUS
    <2>2. IF k \in DOMAIN in.appointed /\ (has = {} \/ in.preferred # "env")
          THEN key \in DOMAIN result /\ result[key] = in.appointed[k]
          ELSE /\ key \in DOMAIN result <=> has # {}
               /\ key \in DOMAIN result => result[key] \in has
      <3>1. HasPrecedence(in.appointed, in.gray, in.env, in.preferred, k, result)
        BY <2>1, LabelsHavePrecedence
      <3> QED BY <3>1 DEF HasPrecedence
    <2> HIDE DEF has, key
    <2>3. LET own == IF k \in DOMAIN in.appointed THEN {in.appointed[k]} ELSE {}
              label == IF key \in DOMAIN result THEN {result[key]} ELSE {}
          IN IF own # {} /\ (has = {} \/ in.preferred # "env") THEN label = own
             ELSE label \subseteq has /\ (label = {} <=> has = {})
      BY <2>2
    <2> QED BY <2>3 DEF has, key
  <1>2. \A k \in {"k", "nacos_config_gray_label"} :
           LET given == {in.env[i].value : i \in {j \in DOMAIN in.env :
                                                  in.env[j].key = k /\ in.env[j].parts = 2}}
           IN EnvOf(in.gray, in.env, k)
                 = given \cup IF given = {} /\ k # "k" THEN {in.gray} \ {"none"} ELSE {}
    BY DEF EnvOf, Given, GrayKey
  <1> QED BY <1>1, <1>2 DEF Precedes

(* The labels that CreateClient gives a connection have the precedence that *)
(* mergerAppLabels is asked for.                                            *)
THEOREM LabelsKeepPrecedence == Spec => []LabelPrecedence
  <1> DEFINE L == [key : {"none", "k"}, value : {"e1", "e2"}, parts : {2, 3}]
             Right == Done("labels") => Precedes(input, Result)
  <1>1. Init => LabelInput /\ Right
    <2>1. Labels \subseteq Seq(L)
      BY BoundedIsSequence DEF Labels
    <2>2. ASSUME Init, task = "labels" PROVE input.env \in Labels
      BY <2>2 DEF Init
    <2> QED BY <2>1, <2>2 DEF Init, LabelInput, Done
  <1>2. LabelInput /\ Right /\ [Next]_vars => (LabelInput /\ Right)'
    <2> SUFFICES ASSUME LabelInput, Right, [Next]_vars
                 PROVE  (LabelInput /\ Right)'
      OBVIOUS
    <2>1. CASE UNCHANGED vars
      BY <2>1 DEF vars, LabelInput, Done, Result
    <2>2. CASE Next /\ task # "labels"
      BY <2>2, OneOutput DEF LabelInput, Done
    <2>3. CASE Next /\ task = "labels"
      <3> DEFINE sdk == [k \in {<<"source">>} |-> "sdk"]
      <3>1. Label /\ task' = task /\ input' = input
        BY <2>3, OneOutput, LabelStep
      <3>2. PICK result :
               /\ result = CreateClient(input.appointed, input.gray, input.env, input.preferred, sdk)
               /\ output' = <<result>>
        BY <3>1 DEF Label, Computes
      <3>3. Result' = result
        BY <3>2 DEF Result
      <3>4. input.env \in Seq(L)
        BY <2>3 DEF LabelInput
      <3>5. \A k : <<"app_", k>> \notin DOMAIN sdk
        OBVIOUS
      <3> HIDE DEF sdk, L
      <3>6. Precedes(input, result)
        BY <3>2, <3>4, <3>5, LabelsPrecede
      <3> QED BY <3>1, <3>3, <3>6 DEF LabelInput
    <2> QED BY <2>1, <2>2, <2>3
  <1>3. Right => LabelPrecedence
    BY DEF LabelPrecedence, Precedes
  <1> QED BY <1>1, <1>2, <1>3, PTL DEF Spec

-----------------------------------------------------------------------------
(* Selection. *)

(* The instance h is of the clusters c, all clusters when it names none. *)
InCluster(c, h) == joinCluster(c) = {} \/ h.cluster \in ToSet(c)

(* What a selector selects: the instances of its clusters, or all of them   *)
(* when it names none.                                                      *)
LEMMA Selected ==
    ASSUME NEW H, NEW hosts \in Seq(H), NEW c
    PROVE  /\ SelectInstance(c, hosts) \in Seq(H)
           /\ ToSet(SelectInstance(c, hosts)) = {h \in ToSet(hosts) : InCluster(c, h)}
           /\ Distinct(hosts) => Distinct(SelectInstance(c, hosts))
  <1> DEFINE S == {h \in ToSet(hosts) : h.cluster \in ToSet(c)}
  <1>1. CASE joinCluster(c) = {}
    BY <1>1 DEF SelectInstance, InCluster
  <1>2. CASE joinCluster(c) # {}
    <2>1. SelectInstance(c, hosts) = Keep(hosts, S)
      BY <1>2 DEF SelectInstance
    <2>2. /\ Keep(hosts, S) \in Seq(H) /\ ToSet(Keep(hosts, S)) = ToSet(hosts) \cap S
          /\ Distinct(hosts) => Distinct(Keep(hosts, S))
      BY KeepKeeps
    <2> QED BY <1>2, <2>1, <2>2 DEF InCluster
  <1> QED BY <1>1, <1>2

(* Selectors that Equals takes for the same select the same of every list   *)
(* of instances whose clusters have names, and for two that it tells apart  *)
(* there is a list of one instance, of a cluster that one of them names or  *)
(* of one that neither does, that shows the difference.                     *)
THEOREM EqualsTellsSelectorsApart ==
    ASSUME NEW Names, "none" \notin Names, NEW a, NEW b,
           ToSet(a) \subseteq Names \cup {"none"}, ToSet(b) \subseteq Names \cup {"none"},
           NEW other \in Names, other \notin ToSet(a) \cup ToSet(b)
    PROVE  /\ \A H : \A hosts \in Seq(H) :
                  Equals(a, b) /\ (\A h \in H : h.cluster \in Names)
                      => SelectInstance(a, hosts) = SelectInstance(b, hosts)
           /\ (\A cluster \in Names : SelectInstance(a, <<[cluster |-> cluster]>>)
                                        = SelectInstance(b, <<[cluster |-> cluster]>>)) => Equals(a, b)
  <1>1. ASSUME NEW H, NEW hosts \in Seq(H), Equals(a, b), \A h \in H : h.cluster \in Names
        PROVE  SelectInstance(a, hosts) = SelectInstance(b, hosts)
    <2>1. ToSet(hosts) \subseteq H
      BY DEF ToSet
    <2>2. joinCluster(a) = joinCluster(b)
      BY <1>1 DEF Equals
    <2>3. \A x \in Names : x \in ToSet(a) <=> x \in ToSet(b)
      BY <2>2 DEF joinCluster
    <2>4. {h \in ToSet(hosts) : h.cluster \in ToSet(a)} = {h \in ToSet(hosts) : h.cluster \in ToSet(b)}
      BY <1>1, <2>1, <2>3
    <2> QED BY <2>2, <2>4 DEF SelectInstance
  <1>2. ASSUME \A cluster \in Names : SelectInstance(a, <<[cluster |-> cluster]>>)
                                        = SelectInstance(b, <<[cluster |-> cluster]>>)
        PROVE  Equals(a, b)
    <2>1. ASSUME NEW x \in Names
          PROVE  (joinCluster(a) = {} \/ x \in ToSet(a)) <=> (joinCluster(b) = {} \/ x \in ToSet(b))
      <3> DEFINE host == [cluster |-> x]
                 hosts == <<host>>
      <3>1. hosts \in Seq({host}) /\ ToSet(hosts) = {host} /\ host.cluster = x
        BY DEF ToSet
      <3>2. SelectInstance(a, hosts) = SelectInstance(b, hosts)
        BY <1>2
      <3> HIDE DEF hosts
      <3>3. /\ ToSet(SelectInstance(a, hosts)) = {h \in ToSet(hosts) : InCluster(a, h)}
            /\ ToSet(SelectInstance(b, hosts)) = {h \in ToSet(hosts) : InCluster(b, h)}
        BY <3>1, Selected
      <3>4. InCluster(a, host) <=> InCluster(b, host)
        <4> HIDE DEF host
        <4> QED BY <3>1, <3>2, <3>3
      <3> QED BY <3>1, <3>4 DEF InCluster
    <2>2. joinCluster(a) = {} <=> joinCluster(b) = {}
      BY <2>1
    <2>3. joinCluster(a) \subseteq Names /\ joinCluster(b) \subseteq Names
      BY DEF joinCluster
    <2>4. \A x \in Names : (x \in joinCluster(a) <=> x \in ToSet(a)) /\ (x \in joinCluster(b) <=> x \in ToSet(b))
      BY DEF joinCluster
    <2> QED BY <2>1, <2>2, <2>3, <2>4 DEF Equals
  <1> QED BY <1>1, <1>2

(* The selectors that the run compares. *)
ComparedInput == task = "equals" => input.a \in Seq({"none", "a", "b"}) /\ input.b \in Seq({"none", "a", "b"})

(* CompareSelectors is the step of its task. *)
LEMMA CompareStep == ASSUME Next, task = "equals" PROVE CompareSelectors
  BY DEF Next, Select, Request, RamLogin, SignRequest, EncryptConfig, CreateTwice, Label, BuildChain,
         Computes

(* Two subscriptions whose selectors Equals takes for the same see the same *)
(* instances, and two that it tells apart can be shown a list on which they *)
(* differ.                                                                  *)
THEOREM EqualsMeansAlike == Spec => []EqualSelectorsSelectAlike
  <1>1. Init => ComparedInput /\ EqualSelectorsSelectAlike
    <2>1. ClusterLists \subseteq Seq({"none", "a", "b"})
      BY BoundedIsSequence DEF ClusterLists
    <2> QED BY <2>1 DEF Init, ComparedInput, EqualSelectorsSelectAlike, Done
  <1>2. ComparedInput /\ EqualSelectorsSelectAlike /\ [Next]_vars => (ComparedInput /\ EqualSelectorsSelectAlike)'
    <2> SUFFICES ASSUME ComparedInput, EqualSelectorsSelectAlike, [Next]_vars
                 PROVE  (ComparedInput /\ EqualSelectorsSelectAlike)'
      OBVIOUS
    <2>1. CASE UNCHANGED vars
      BY <2>1 DEF vars, ComparedInput, EqualSelectorsSelectAlike, Done, Result
    <2>2. CASE Next /\ task # "equals"
      BY <2>2, OneOutput DEF ComparedInput, EqualSelectorsSelectAlike, Done
    <2>3. CASE Next /\ task = "equals"
      <3>1. /\ output' = <<Equals(input.a, input.b)>> /\ task' = task /\ input' = input
        BY <2>3, OneOutput, CompareStep DEF CompareSelectors, Computes
      <3>2. Result' = Equals(input.a, input.b)
        BY <3>1 DEF Result
      <3>3. /\ ToSet(input.a) \subseteq {"none", "a", "b"}
            /\ ToSet(input.b) \subseteq {"none", "a", "b"}
        BY <2>3 DEF ComparedInput, ToSet
      <3> DEFINE Names == {"a", "b", "c"}
                 Alike(a, b, c) == SelectInstance(a, <<[cluster |-> c]>>) = SelectInstance(b, <<[cluster |-> c]>>)
                 a == input.a
                 b == input.b
      <3>4. /\ "none" \notin Names /\ ToSet(a) \subseteq Names \cup {"none"} /\ ToSet(b) \subseteq Names \cup {"none"}
            /\ "c" \in Names /\ "c" \notin ToSet(a) \cup ToSet(b)
        BY <3>3
      <3>5. /\ \A H : \A hosts \in Seq(H) :
                   Equals(a, b) /\ (\A h \in H : h.cluster \in Names)
                       => SelectInstance(a, hosts) = SelectInstance(b, hosts)
            /\ (\A cluster \in Names : SelectInstance(a, <<[cluster |-> cluster]>>)
                                         = SelectInstance(b, <<[cluster |-> cluster]>>)) => Equals(a, b)
        <4> HIDE DEF a, b, Names
        <4> QED BY <3>4, EqualsTellsSelectorsApart
      <3>6. ASSUME Equals(a, b), NEW c \in Names PROVE Alike(a, b, c)
        <4> DEFINE host == [cluster |-> c]
                   hosts == <<host>>
        <4>1. hosts \in Seq({host}) /\ \A h \in {host} : h.cluster \in Names
          OBVIOUS
        <4>2. SelectInstance(a, hosts) = SelectInstance(b, hosts)
          <5> HIDE DEF a, b, Names, host, hosts
          <5> QED BY <3>5, <3>6, <4>1
        <4> QED BY <4>2
      <3>7. Equals(a, b) <=> \A c \in Names : Alike(a, b, c)
        BY <3>5, <3>6
      <3> QED BY <2>3, <3>1, <3>2, <3>7 DEF ComparedInput, EqualSelectorsSelectAlike
    <2> QED BY <2>1, <2>2, <2>3
  <1> QED BY <1>1, <1>2, PTL DEF Spec

-----------------------------------------------------------------------------
(* The weighted choice. *)

(* The permutation p of 1..n puts the weights w in order. *)
Orders(p, n, w) ==
    /\ p \in [1..n -> 1..n]
    /\ \A i, j \in 1..n : p[i] = p[j] => i = j
    /\ \A k \in 1..n : \E i \in 1..n : p[i] = k
    /\ \A i, j \in 1..n : i < j => w[p[i]] <= w[p[j]]

(* One more can be put in its place among those that are in order. *)
LEMMA InsertOne ==
    ASSUME NEW m \in Nat \ {0}, NEW w, \A i \in 1..m : w[i] \in Int, NEW p, Orders(p, m - 1, w)
    PROVE  \E q : Orders(q, m, w)
  <1> DEFINE above == {i \in 1..m - 1 : w[p[i]] > w[m]} \cup {m}
  <1>0. /\ p \in [1..m - 1 -> 1..m - 1]
        /\ \A i, j \in 1..m - 1 : p[i] = p[j] => i = j
        /\ \A k \in 1..m - 1 : \E i \in 1..m - 1 : p[i] = k
        /\ \A i, j \in 1..m - 1 : i < j => w[p[i]] <= w[p[j]]
    BY DEF Orders
  <1>1. \A i \in 1..m - 1 : p[i] \in 1..m - 1 /\ p[i] # m /\ p[i] \in 1..m
    <2>1. \A i \in 1..m - 1 : p[i] \in 1..m - 1
      BY <1>0
    <2> QED BY <2>1
  <1>1a. ASSUME NEW a \in 1..m - 1, NEW b \in 1..m - 1, a < b PROVE p[a] # p[b] /\ w[p[a]] <= w[p[b]]
    <2>1. a # b
      BY <1>1a
    <2> QED BY <1>0, <1>1a, <2>1
  <1>2. PICK pos \in above : \A i \in above : pos <= i
    <2>1. above \in SUBSET Nat /\ above # {}
      OBVIOUS
    <2> HIDE DEF above
    <2> QED BY <2>1, Least
  <1>3. pos \in 1..m /\ (\A i \in 1..m - 1 : i < pos => ~(w[p[i]] > w[m]))
        /\ (pos < m => w[p[pos]] > w[m])
    BY <1>2
  <1>4. \A i \in 1..m - 1 : w[p[i]] \in Int
    BY <1>1
  <1>5. \A i \in 1..m - 1 : i >= pos => w[p[i]] >= w[m]
    <2> SUFFICES ASSUME NEW i \in 1..m - 1, i >= pos PROVE w[p[i]] >= w[m]
      OBVIOUS
    <2>1. pos \in 1..m - 1 /\ w[p[pos]] > w[m]
      BY <1>3
    <2>2. w[p[pos]] <= w[p[i]]
      <3>1. CASE i = pos
        BY <1>4, <2>1, <3>1
      <3>2. CASE i > pos
        BY <1>0, <2>1, <3>2
      <3> QED BY <1>3, <3>1, <3>2
    <2>3. w[m] \in Int
      OBVIOUS
    <2> QED BY <1>4, <2>1, <2>2, <2>3
  <1>6. \A i \in 1..m - 1 : i < pos => w[p[i]] <= w[m]
    BY <1>3, <1>4
  <1> DEFINE q == [i \in 1..m |-> IF i < pos THEN p[i] ELSE IF i = pos THEN m ELSE p[i - 1]]
  <1>7. /\ \A i \in 1..m : i < pos => i \in 1..m - 1 /\ q[i] = p[i]
        /\ q[pos] = m
        /\ \A i \in 1..m : i > pos => i - 1 \in 1..m - 1 /\ i - 1 >= pos /\ q[i] = p[i - 1]
    BY <1>3
  <1>8. q \in [1..m -> 1..m]
    BY <1>1, <1>3
  <1> HIDE DEF q, above
  <1>9. ASSUME NEW i \in 1..m, NEW j \in 1..m, i < j PROVE q[i] # q[j] /\ w[q[i]] <= w[q[j]]
    <2>1. CASE j < pos
      <3>1. i < pos
        BY <1>3, <1>9, <2>1
      <3>2. i \in 1..m - 1 /\ j \in 1..m - 1 /\ q[i] = p[i] /\ q[j] = p[j]
        BY <1>7, <2>1, <3>1
      <3> QED BY <1>1a, <1>9, <3>2
    <2>2. CASE j = pos
      BY <1>1, <1>3, <1>6, <1>7, <1>9, <2>2
    <2>3. CASE j > pos
      <3>1. CASE i < pos
        <4>1. i \in 1..m - 1 /\ j - 1 \in 1..m - 1 /\ i < j - 1 /\ q[i] = p[i] /\ q[j] = p[j - 1]
          BY <1>3, <1>7, <2>3, <3>1
        <4> QED BY <1>1a, <4>1
      <3>2. CASE i = pos
        <4>1. j - 1 \in 1..m - 1 /\ j - 1 >= pos /\ q[i] = m /\ q[j] = p[j - 1]
          BY <1>7, <2>3, <3>2
        <4>2. w[m] <= w[p[j - 1]]
          <5>1. w[p[j - 1]] >= w[m] /\ w[p[j - 1]] \in Int /\ w[m] \in Int
            BY <1>4, <1>5, <4>1
          <5> QED BY <5>1
        <4> QED BY <1>1, <4>1, <4>2
      <3>3. CASE i > pos
        <4>1. i - 1 \in 1..m - 1 /\ j - 1 \in 1..m - 1 /\ i - 1 < j - 1 /\ q[i] = p[i - 1] /\ q[j] = p[j - 1]
          BY <1>7, <1>9, <2>3, <3>3
        <4> QED BY <1>1a, <4>1
      <3> QED BY <1>3, <3>1, <3>2, <3>3
    <2> QED BY <1>3, <2>1, <2>2, <2>3
  <1>10. \A i, j \in 1..m : q[i] = q[j] => i = j
    <2> SUFFICES ASSUME NEW i \in 1..m, NEW j \in 1..m, q[i] = q[j] PROVE i = j
      OBVIOUS
    <2>1. i < j \/ i = j \/ j < i
      OBVIOUS
    <2> QED BY <1>9, <2>1
  <1>11. ASSUME NEW k \in 1..m PROVE \E i \in 1..m : q[i] = k
    <2>1. CASE k = m
      BY <1>3, <1>7, <2>1
    <2>2. CASE k # m
      <3>1. PICK i \in 1..m - 1 : p[i] = k
        BY <1>0, <2>2
      <3>2. CASE i < pos
        BY <1>7, <3>1, <3>2
      <3>3. CASE i >= pos
        <4>1. i + 1 \in 1..m /\ i + 1 > pos /\ (i + 1) - 1 = i
          BY <1>3, <3>3
        <4>2. q[i + 1] = p[i]
          BY <1>7, <4>1
        <4> QED BY <3>1, <4>1, <4>2
      <3> QED BY <1>3, <3>2, <3>3
    <2> QED BY <2>1, <2>2
  <1> QED BY <1>8, <1>9, <1>10, <1>11 DEF Orders

(* Numbers can be put in order. *)
LEMMA OrderExists ==
    ASSUME NEW n \in Nat, NEW w, \A i \in 1..n : w[i] \in Int
    PROVE  \E p : Orders(p, n, w)
  <1> DEFINE T == {m \in 0..n : \E p : Orders(p, m, w)}
  <1>1. 0 \in T
    <2> DEFINE p == [i \in 1..0 |-> i]
    <2>1. Orders(p, 0, w)
      BY DEF Orders
    <2> QED BY <2>1
  <1>2. ASSUME NEW m \in 1..n, m - 1 \in T PROVE m \in T
    <2>1. m \in Nat \ {0} /\ \A i \in 1..m : w[i] \in Int
      OBVIOUS
    <2>2. PICK p : Orders(p, m - 1, w)
      BY <1>2
    <2>3. \E q : Orders(q, m, w)
      BY <2>1, <2>2, InsertOne
    <2> QED BY <2>3
  <1>3. n \in T
    <2>1. n \in 0..n
      OBVIOUS
    <2> HIDE DEF T
    <2> QED BY <1>1, <1>2, <2>1, UpTo
  <1> QED BY <1>3

(* Sorting neither loses an instance nor doubles one. *)
LEMMA SortKeeps ==
    ASSUME NEW H, \A h \in H : h.weight \in Nat, NEW instances \in Seq(H)
    PROVE  /\ ByWeight(instances) \in Seq(H)
           /\ Len(ByWeight(instances)) = Len(instances)
           /\ ToSet(ByWeight(instances)) = ToSet(instances)
           /\ Distinct(instances) => Distinct(ByWeight(instances))
           /\ \A i, j \in DOMAIN instances : i < j => ByWeight(instances)[i].weight <= ByWeight(instances)[j].weight
  <1> DEFINE n == Len(instances)
             places == DOMAIN instances
             w == [i \in places |-> instances[i].weight]
             Good(p) == \A i, j \in places : i < j => instances[p[i]].weight <= instances[p[j]].weight
             order == CHOOSE p \in Bijection(places, places) : Good(p)
             data == [i \in places |-> instances[order[i]]]
  <1>0. n \in Nat /\ places = 1..n /\ \A i \in 1..n : instances[i] \in H /\ instances[i].weight \in Int
    OBVIOUS
  <1>1. ByWeight(instances) = data
    BY DEF ByWeight
  <1>2. \E p \in Bijection(places, places) : Good(p)
    <2>1. \A i \in 1..n : w[i] \in Int
      BY <1>0
    <2>2. PICK p : Orders(p, n, w)
      <3> HIDE DEF w, n
      <3> QED BY <1>0, <2>1, OrderExists
    <2>3. p \in Bijection(places, places)
      BY <1>0, <2>2 DEF Orders, Bijection, Injection, Surjection, IsInjective
    <2>4. Good(p)
      <3> SUFFICES ASSUME NEW i \in places, NEW j \in places, i < j
                   PROVE  instances[p[i]].weight <= instances[p[j]].weight
        OBVIOUS
      <3>1. p[i] \in places /\ p[j] \in places /\ w[p[i]] <= w[p[j]]
        BY <1>0, <2>2 DEF Orders
      <3> QED BY <3>1
    <2> QED BY <2>3, <2>4
  <1>3. order \in Bijection(places, places) /\ Good(order)
    <2> HIDE DEF Good
    <2> QED BY <1>2
  <1> HIDE DEF order
  <1>4. /\ \A i \in 1..n : order[i] \in 1..n
        /\ \A i, j \in 1..n : order[i] = order[j] => i = j
        /\ \A k \in 1..n : \E i \in 1..n : order[i] = k
    <2>1. order \in [1..n -> 1..n] /\ DOMAIN order = 1..n
      BY <1>0, <1>3 DEF Bijection, Injection
    <2> QED BY <1>0, <1>3, <2>1 DEF Bijection, Injection, Surjection, IsInjective
  <1>5. DOMAIN data = 1..n /\ \A i \in 1..n : data[i] = instances[order[i]] /\ data[i] \in H
    BY <1>0, <1>4
  <1>6. \A i, j \in DOMAIN instances : i < j => data[i].weight <= data[j].weight
    BY <1>0, <1>3, <1>5
  <1>7. data \in Seq(H) /\ Len(data) = n
    <2>1. data = [i \in 1..n |-> data[i]]
      BY <1>0
    <2> HIDE DEF data
    <2>2. data \in [1..n -> H]
      BY <1>5, <2>1
    <2> QED BY <1>0, <2>2
  <1> HIDE DEF data
  <1>8. ToSet(data) = ToSet(instances)
    <2>1. ToSet(data) = {instances[order[i]] : i \in 1..n}
      BY <1>5 DEF ToSet
    <2>2. ToSet(instances) = {instances[k] : k \in 1..n}
      BY <1>0 DEF ToSet
    <2> HIDE DEF n
    <2>3. ASSUME NEW x \in ToSet(data) PROVE x \in ToSet(instances)
      <3>1. PICK i \in 1..n : x = instances[order[i]]
        BY <2>1
      <3> QED BY <1>4, <2>2, <3>1
    <2>4. ASSUME NEW x \in ToSet(instances) PROVE x \in ToSet(data)
      <3>1. PICK k \in 1..n : x = instances[k]
        BY <2>2
      <3>2. PICK i \in 1..n : order[i] = k
        BY <1>4
      <3> QED BY <2>1, <3>1, <3>2
    <2> QED BY <2>3, <2>4
  <1>9. Distinct(instances) => Distinct(data)
    <2> SUFFICES ASSUME Distinct(instances), NEW i \in 1..n, NEW j \in 1..n, data[i] = data[j] PROVE i = j
      BY <1>5 DEF Distinct
    <2>1. instances[order[i]] = instances[order[j]]
      BY <1>5
    <2>2. order[i] = order[j]
      <3>1. order[i] \in DOMAIN instances /\ order[j] \in DOMAIN instances
        BY <1>0, <1>4
      <3> QED BY <2>1, <3>1 DEF Distinct
    <2> QED BY <1>4, <2>2
  <1> QED BY <1>1, <1>6, <1>7, <1>8, <1>9

(* Half a weight, cut off. *)
LEMMA HalfWeight ==
    ASSUME NEW h, h.weight \in Nat
    PROVE  IntWeight(h) \in Nat /\ (IntWeight(h) = 0 <=> h.weight < 2) /\ IntWeight(h) = h.weight \div 2
  BY DEF IntWeight

(* The chooser's running totals: they begin at 0, and each adds a weight. *)
Totals(total, chs, n) ==
    /\ total \in [0..n -> Nat]
    /\ total[0] = 0
    /\ \A i \in 1..n : total[i] = total[i - 1] + IntWeight(chs.data[i])
    /\ chs.totals = [i \in 1..n |-> total[i]]
    /\ chs.max = total[n]

(* What newChooser makes. *)
LEMMA ChooserHasTotals ==
    ASSUME NEW H, \A h \in H : h.weight \in Nat, NEW instances \in Seq(H)
    PROVE  /\ newChooser(instances).data = ByWeight(instances)
           /\ \E total : Totals(total, newChooser(instances), Len(instances))
  <1> DEFINE data == ByWeight(instances)
             n == Len(instances)
             E(h, i) == IF i = 0 THEN 0 ELSE h[i - 1] + IntWeight(data[i])
             Q(h) == h = [i \in 0..Len(data) |-> E(h, i)]
             total == CHOOSE h : Q(h)
             chs == newChooser(instances)
             G == [p \in (1..n) \X Nat |-> p[2] + IntWeight(data[p[1]])]
  <1>1. chs = [data |-> data, totals |-> [i \in 1..Len(data) |-> total[i]], max |-> total[Len(data)]]
    BY DEF newChooser
  <1>2. data \in Seq(H) /\ Len(data) = n /\ n \in Nat
    BY SortKeeps
  <1> HIDE DEF data, n
  <1>3. \A i \in 1..n : IntWeight(data[i]) \in Nat
    <2>1. \A i \in 1..n : data[i] \in H
      BY <1>2
    <2> QED BY <2>1, HalfWeight
  <1>4. \E h : Q(h)
    <2>1. G \in [(1..n) \X Nat -> Nat]
      BY <1>3
    <2>2. PICK f : Recurs(f, n, Nat, 0, G)
      <3> HIDE DEF G
      <3> QED BY <1>2, <2>1, Recursion
    <2>3. ASSUME NEW i \in 0..n PROVE f[i] = E(f, i)
      <3>1. CASE i = 0
        BY <2>2, <3>1 DEF Recurs
      <3>2. CASE i \in 1..n
        <4>1. f[i - 1] \in Nat /\ i # 0
          BY <1>2, <2>2, <3>2 DEF Recurs
        <4>2. <<i, f[i - 1]>> \in (1..n) \X Nat
          BY <3>2, <4>1
        <4>3. f[i] = G[<<i, f[i - 1]>>]
          BY <2>2, <3>2 DEF Recurs
        <4> QED BY <4>1, <4>2, <4>3
      <3> QED BY <1>2, <3>1, <3>2
    <2>4. f \in [0..n -> Nat]
      BY <2>2 DEF Recurs
    <2>5. Q(f)
      <3> HIDE DEF E
      <3> QED BY <1>2, <2>3, <2>4
    <2> QED BY <2>5
  <1>5. Q(total)
    <2> HIDE DEF Q
    <2> QED BY <1>4
  <1> HIDE DEF total
  <1>6. total = [i \in 0..n |-> total[i]] /\ \A i \in 0..n : total[i] = E(total, i)
    <2> HIDE DEF E
    <2> QED BY <1>2, <1>5
  <1>7. total[0] = 0 /\ \A i \in 1..n : total[i] = total[i - 1] + IntWeight(data[i])
    <2>1. 0 \in 0..n /\ \A i \in 1..n : i \in 0..n /\ i # 0
      BY <1>2
    <2> QED BY <1>6, <2>1
  <1> HIDE DEF Q, E, G, chs
  <1>8. total \in [0..n -> Nat]
    <2> DEFINE T == {i \in 0..n : total[i] \in Nat}
    <2>1. 0 \in T
      BY <1>2, <1>7
    <2>2. ASSUME NEW i \in 1..n, i - 1 \in T PROVE i \in T
      BY <1>2, <1>3, <1>7, <2>2
    <2>3. \A i \in 0..n : i \in T
      <3> HIDE DEF T
      <3> QED BY <1>2, <2>1, <2>2, UpTo
    <2> QED BY <1>6, <2>3
  <1>9. chs.data = data /\ chs.max = total[n] /\ chs.totals = [i \in 1..n |-> total[i]]
    BY <1>1, <1>2
  <1>10. Totals(total, chs, n)
    BY <1>7, <1>8, <1>9 DEF Totals
  <1> QED BY <1>9, <1>10 DEF chs, data, n

(* Totals do not fall. *)
LEMMA TotalsRise ==
    ASSUME NEW n \in Nat, NEW chs, NEW total, Totals(total, chs, n), \A i \in 1..n : IntWeight(chs.data[i]) \in Nat
    PROVE  \A i, j \in 0..n : i <= j => total[i] <= total[j]
  <1>0. \A i \in 0..n : total[i] \in Nat
    BY DEF Totals
  <1> SUFFICES ASSUME NEW i \in 0..n PROVE \A j \in 0..n : i <= j => total[i] <= total[j]
    OBVIOUS
  <1> DEFINE T == {j \in 0..n : i <= j => total[i] <= total[j]}
  <1>1. 0 \in T
    BY <1>0
  <1>2. ASSUME NEW j \in 1..n, j - 1 \in T PROVE j \in T
    <2>1. CASE i <= j - 1
      <3>1. total[i] <= total[j - 1] /\ total[j - 1] \in Nat /\ total[i] \in Nat /\ total[j] \in Nat
        BY <1>0, <1>2, <2>1
      <3>2. total[j] = total[j - 1] + IntWeight(chs.data[j])
        BY DEF Totals
      <3> QED BY <3>1, <3>2
    <2>2. CASE i = j
      BY <1>0, <2>2
    <2>3. CASE i > j
      BY <2>3
    <2> QED BY <2>1, <2>2, <2>3
  <1>3. \A j \in 0..n : j \in T
    <2> HIDE DEF T
    <2> QED BY <1>1, <1>2, UpTo
  <1> QED BY <1>3

(* A random number leads to the instance between whose totals it lies. *)
LEMMA PickIsBetween ==
    ASSUME NEW n \in Nat, NEW chs, NEW total, Totals(total, chs, n), \A i \in 1..n : IntWeight(chs.data[i]) \in Nat,
           DOMAIN chs.data = 1..n, Distinct(chs.data), NEW r \in 1..chs.max, NEW i \in 1..n
    PROVE  pick(chs, r) = chs.data[i] <=> total[i - 1] < r /\ r <= total[i]
  <1> DEFINE S == {k \in 1..n : total[k] >= r}
  <1>0. \A k \in 0..n : total[k] \in Nat
    BY DEF Totals
  <1>1. r \in Nat /\ r >= 1 /\ r <= total[n]
    BY <1>0 DEF Totals
  <1>2. pick(chs, r) = chs.data[Min(S)]
    <2>1. DOMAIN chs.totals = 1..n /\ \A k \in 1..n : chs.totals[k] = total[k]
      BY DEF Totals
    <2>2. {k \in DOMAIN chs.totals : chs.totals[k] >= r} = S
      BY <2>1
    <2> QED BY <2>2 DEF pick
  <1>3. n \in S
    <2>1. n # 0
      BY <1>1 DEF Totals
    <2> QED BY <1>0, <1>1, <2>1
  <1>4. Min(S) \in S /\ \A k \in S : Min(S) <= k
    <2>1. S \in SUBSET Nat /\ S # {}
      BY <1>3
    <2> HIDE DEF S
    <2>2. \E k \in S : \A j \in S : k <= j
      BY <2>1, Least
    <2> QED BY <2>2 DEF Min
  <1> DEFINE k == Min(S)
  <1> HIDE DEF k
  <1>5. k \in 1..n /\ total[k] >= r /\ \A j \in 1..n : j < k => ~(total[j] >= r)
    <2>1. k \in S /\ \A j \in S : k <= j
      BY <1>4 DEF k
    <2>2. k \in 1..n /\ total[k] >= r
      BY <2>1
    <2>3. ASSUME NEW j \in 1..n, j < k, total[j] >= r PROVE FALSE
      <3>1. j \in S
        BY <2>3
      <3> HIDE DEF S
      <3>2. k <= j
        BY <2>1, <3>1
      <3> QED BY <2>2, <2>3, <3>2
    <2> QED BY <2>2, <2>3
  <1>6. total[k - 1] < r
    <2>1. CASE k = 1
      BY <1>1, <2>1 DEF Totals
    <2>2. CASE k > 1
      <3>1. k - 1 \in 1..n /\ k - 1 < k /\ total[k - 1] \in Nat
        BY <1>0, <1>5, <2>2
      <3> QED BY <1>1, <1>5, <3>1
    <2> QED BY <1>5, <2>1, <2>2
  <1>7. ASSUME pick(chs, r) = chs.data[i] PROVE total[i - 1] < r /\ r <= total[i]
    <2>1. k = i
      BY <1>2, <1>5, <1>7 DEF Distinct, k
    <2>2. total[k] \in Nat
      BY <1>0, <1>5
    <2> QED BY <1>1, <1>5, <1>6, <2>1, <2>2
  <1>8. ASSUME total[i - 1] < r, r <= total[i] PROVE pick(chs, r) = chs.data[i]
    <2>1. total[i] >= r /\ total[i - 1] \in Nat
      BY <1>0, <1>1, <1>8
    <2>2. k <= i
      BY <1>4, <2>1 DEF k
    <2>3. ASSUME k < i PROVE FALSE
      <3>1. k <= i - 1 /\ k \in 0..n /\ i - 1 \in 0..n
        BY <1>5, <2>3
      <3>2. total[k] <= total[i - 1] /\ total[k] \in Nat
        BY <1>0, <3>1, TotalsRise
      <3> QED BY <1>1, <1>5, <1>8, <2>1, <3>2
    <2>4. k = i
      BY <1>5, <2>2, <2>3
    <2> QED BY <1>2, <2>4 DEF k
  <1> QED BY <1>7, <1>8

(* As many random numbers lead to an instance as its weight says. *)
LEMMA PicksOf ==
    ASSUME NEW n \in Nat, NEW chs, NEW total, Totals(total, chs, n), \A i \in 1..n : IntWeight(chs.data[i]) \in Nat,
           DOMAIN chs.data = 1..n, Distinct(chs.data), NEW i \in 1..n
    PROVE  Cardinality({r \in 1..chs.max : pick(chs, r) = chs.data[i]}) = IntWeight(chs.data[i])
  <1> DEFINE low == total[i - 1]
             high == total[i]
             R == {r \in 1..chs.max : pick(chs, r) = chs.data[i]}
  <1>1. low \in Nat /\ high \in Nat /\ high = low + IntWeight(chs.data[i]) /\ IntWeight(chs.data[i]) \in Nat
    <2>1. i \in 0..n /\ i - 1 \in 0..n
      OBVIOUS
    <2> QED BY <2>1 DEF Totals
  <1>2. chs.max \in Nat /\ high <= chs.max
    <2>1. i \in 0..n /\ n \in 0..n /\ i <= n
      OBVIOUS
    <2>2. total[i] <= total[n]
      BY <2>1, TotalsRise
    <2> QED BY <2>1, <2>2 DEF Totals
  <1>3. \A r \in 1..chs.max : pick(chs, r) = chs.data[i] <=> low < r /\ r <= high
    BY PickIsBetween
  <1> HIDE DEF low, high
  <1>4. R = (low + 1)..high
    <2>1. ASSUME NEW r \in R PROVE r \in (low + 1)..high
      <3>1. r \in 1..chs.max /\ low < r /\ r <= high
        BY <1>3
      <3> HIDE DEF R
      <3> QED BY <1>1, <1>2, <3>1
    <2>2. ASSUME NEW r \in (low + 1)..high PROVE r \in R
      <3>1. r \in 1..chs.max /\ low < r /\ r <= high
        BY <1>1, <1>2
      <3> QED BY <1>3, <3>1
    <2> HIDE DEF R
    <2> QED BY <2>1, <2>2
  <1> HIDE DEF R
  <1>5. Cardinality((low + 1)..high) = IF low + 1 > high THEN 0 ELSE high - (low + 1) + 1
    <2>1. low + 1 \in Int /\ high \in Int
      BY <1>1
    <2> QED BY <2>1, FS_Interval
  <1>6. Cardinality(R) = IntWeight(chs.data[i])
    BY <1>1, <1>4, <1>5
  <1> QED BY <1>6 DEF R

(* There is nothing to choose from when no weight reaches one. *)
LEMMA NothingToPick ==
    ASSUME NEW n \in Nat, NEW chs, NEW total, Totals(total, chs, n), \A i \in 1..n : IntWeight(chs.data[i]) \in Nat
    PROVE  chs.max = 0 <=> \A i \in 1..n : IntWeight(chs.data[i]) = 0
  <1>0. /\ \A i \in 0..n : total[i] \in Nat
        /\ \A i \in 1..n : i \in 0..n /\ i - 1 \in 0..n /\ total[i] = total[i - 1] + IntWeight(chs.data[i])
    BY DEF Totals
  <1>1. ASSUME chs.max = 0, NEW i \in 1..n PROVE IntWeight(chs.data[i]) = 0
    <2>1. i \in 0..n /\ n \in 0..n /\ i <= n
      OBVIOUS
    <2>2. total[i] <= total[n] /\ total[n] = 0
      BY <1>1, <2>1, TotalsRise DEF Totals
    <2>3. total[i] \in Nat /\ total[i - 1] \in Nat /\ IntWeight(chs.data[i]) \in Nat
      BY <1>0
    <2>4. total[i] = total[i - 1] + IntWeight(chs.data[i])
      BY <1>0
    <2> QED BY <2>2, <2>3, <2>4
  <1>2. ASSUME \A i \in 1..n : IntWeight(chs.data[i]) = 0 PROVE chs.max = 0
    <2> DEFINE T == {i \in 0..n : total[i] = 0}
    <2>1. 0 \in T
      BY DEF Totals
    <2>2. ASSUME NEW i \in 1..n, i - 1 \in T PROVE i \in T
      BY <1>0, <1>2, <2>2
    <2>3. n \in T
      <3>1. n \in 0..n
        OBVIOUS
      <3> HIDE DEF T
      <3> QED BY <2>1, <2>2, <3>1, UpTo
    <2> QED BY <2>3 DEF Totals
  <1> QED BY <1>1, <1>2

(* The instances that may be chosen. *)
Eligible(clusters, hosts) ==
    {h \in ToSet(hosts) : h.healthy /\ h.enable /\ h.weight > 0 /\ InCluster(clusters, h)}

(* Whatever the list, as long as no instance is in it twice, and whatever   *)
(* the clusters asked for: of the random numbers that the chooser may draw, *)
(* as many lead to a healthy, enabled instance of the clusters as its       *)
(* truncated weight says, none to another instance, and                     *)
(* SelectOneHealthyInstance fails exactly where no such weight reaches one. *)
THEOREM PickIsProportional ==
    ASSUME NEW H, \A h \in H : h.weight \in Nat, NEW hosts \in Seq(H), Distinct(hosts), NEW clusters
    PROVE  SelectOneHealthyInstance(clusters, hosts) =
               IF \A h \in Eligible(clusters, hosts) : h.weight < 2
               THEN IF Eligible(clusters, hosts) = {} THEN "error" ELSE "panic"
               ELSE [h \in Eligible(clusters, hosts) |-> h.weight \div 2]
  <1> DEFINE selected == SelectInstance(clusters, hosts)
             S == {h \in ToSet(selected) : h.healthy /\ Usable(h)}
             result == Keep(selected, S)
             chs == newChooser(result)
             n == Len(result)
             eligible == Eligible(clusters, hosts)
             Share(h) == Cardinality({r \in 1..chs.max : pick(chs, r) = h})
  <1>1. /\ selected \in Seq(H) /\ Distinct(selected)
        /\ ToSet(selected) = {h \in ToSet(hosts) : InCluster(clusters, h)}
    BY Selected
  <1>2. /\ result \in Seq(H) /\ Distinct(result) /\ ToSet(result) = ToSet(selected) \cap S
    <2> HIDE DEF S, selected
    <2> QED BY <1>1, KeepKeeps
  <1>3. ToSet(result) = eligible
    <2> HIDE DEF selected, result
    <2> QED BY <1>1, <1>2 DEF Eligible, Usable
  <1>4. SelectOneHealthyInstance(clusters, hosts) =
            IF selected = <<>> \/ result = <<>> THEN "error"
            ELSE IF chs.max = 0 THEN "panic"
            ELSE [h \in ToSet(result) |-> Share(h)]
    BY Zenon DEF SelectOneHealthyInstance, selectOneHealthyInstances
  <1> HIDE DEF result, S
  <1>5. /\ chs.data = ByWeight(result)
        /\ \E total : Totals(total, chs, n)
    BY <1>2, ChooserHasTotals
  <1>6. PICK total : Totals(total, chs, n)
    BY <1>5
  <1>7. /\ chs.data \in Seq(H) /\ Len(chs.data) = n /\ n \in Nat /\ Distinct(chs.data)
        /\ ToSet(chs.data) = eligible
    BY <1>2, <1>3, <1>5, SortKeeps
  <1> HIDE DEF chs, n, selected, eligible
  <1>8. DOMAIN chs.data = 1..n /\ \A i \in 1..n : chs.data[i] \in H /\ chs.data[i] \in eligible
    BY <1>7 DEF ToSet
  <1>9. \A h \in eligible : h.weight \in Nat /\ \E i \in 1..n : h = chs.data[i]
    <2>1. \A h \in eligible : \E i \in 1..n : h = chs.data[i]
      BY <1>7, <1>8 DEF ToSet
    <2> QED BY <1>8, <2>1
  <1>10. /\ \A h \in eligible : IntWeight(h) \in Nat /\ (IntWeight(h) = 0 <=> h.weight < 2)
                                /\ IntWeight(h) = h.weight \div 2
    BY <1>9, HalfWeight
  <1>11. \A i \in 1..n : IntWeight(chs.data[i]) \in Nat
    BY <1>8, <1>10
  <1>12. chs.max = 0 <=> \A h \in eligible : h.weight < 2
    <2>1. chs.max = 0 <=> \A i \in 1..n : IntWeight(chs.data[i]) = 0
      BY <1>6, <1>7, <1>11, NothingToPick
    <2> QED BY <1>8, <1>9, <1>10, <2>1
  <1>13. (selected = <<>> \/ result = <<>>) <=> eligible = {}
    <2>1. result = <<>> <=> ToSet(result) = {}
      <3>1. ToSet(result) = {result[i] : i \in DOMAIN result} /\ DOMAIN result = 1..Len(result) /\ Len(result) \in Nat
        BY <1>2 DEF ToSet
      <3>2. ASSUME result # <<>> PROVE result[1] \in ToSet(result)
        <4>1. Len(result) # 0
          BY <1>2, <3>2
        <4> QED BY <3>1, <4>1
      <3> QED BY <3>1, <3>2
    <2>2. selected = <<>> => eligible = {}
      <3>1. selected = <<>> => ToSet(selected) = {}
        BY DEF ToSet
      <3> QED BY <1>2, <1>3, <3>1
    <2> QED BY <1>3, <2>1, <2>2
  <1>14. \A h \in eligible : Share(h) = h.weight \div 2
    <2> SUFFICES ASSUME NEW h \in eligible PROVE Share(h) = h.weight \div 2
      OBVIOUS
    <2>1. PICK i \in 1..n : h = chs.data[i]
      BY <1>9
    <2>2. Share(chs.data[i]) = IntWeight(chs.data[i])
      BY <1>6, <1>7, <1>8, <1>11, PicksOf
    <2> HIDE DEF Share
    <2> QED BY <1>10, <2>1, <2>2
  <1>15. [h \in ToSet(result) |-> Share(h)] = [h \in eligible |-> h.weight \div 2]
    <2> HIDE DEF Share
    <2> QED BY <1>3, <1>14
  <1> HIDE DEF Share
  <1> DEFINE light == \A h \in eligible : h.weight < 2
  <1>16. eligible = {} => light
    OBVIOUS
  <1> HIDE DEF light
  <1>17. SelectOneHealthyInstance(clusters, hosts) =
             IF light THEN IF eligible = {} THEN "error" ELSE "panic"
             ELSE [h \in eligible |-> h.weight \div 2]
    BY <1>4, <1>12, <1>13, <1>15, <1>16 DEF light
  <1> QED BY <1>17 DEF light, eligible

(* A list of weighted instances, none of them twice. *)
Weighted(hosts) ==
    /\ hosts \in Seq(ToSet(hosts)) /\ Distinct(hosts)
    /\ \A h \in ToSet(hosts) : h.weight \in Nat

(* The lists that the run selects from. *)
SelectInput == task = "select" => Weighted(input.hosts)

(* A list of instances, each with its place for an id, has none twice. *)
LEMMA ListedOnce ==
    ASSUME NEW hosts \in Hosts
    PROVE  Weighted(hosts)
  <1> DEFINE Listed(s) == [i \in DOMAIN s |-> [id |-> i, cluster |-> s[i].cluster, healthy |-> s[i].healthy,
                                               enable |-> s[i].enable, weight |-> s[i].weight]]
             Heavy == [cluster : {"a"}, healthy : {TRUE}, enable : {TRUE}, weight : {0, 1, 2, 6}]
             Kind == Instances \cup Heavy
  <1>1. PICK s : s \in SeqOf(Instances, 2) \cup [1..3 -> Heavy] /\ hosts = Listed(s)
    BY DEF Hosts
  <1>2. ASSUME NEW x \in Kind PROVE x.weight \in Nat
    <2>1. CASE x \in Heavy
      BY <2>1
    <2>2. CASE x \in [cluster : {"a", "b"}, healthy : BOOLEAN, enable : {TRUE}, weight : {1, 2, 6}]
      <3>1. x.weight \in {1, 2, 6}
        BY Zenon, <2>2
      <3> QED BY <3>1
    <2>3. CASE x \in [cluster : {"a"}, healthy : {TRUE}, enable : {FALSE}, weight : {2}]
      BY <2>3
    <2>4. CASE x \in [cluster : {"a"}, healthy : {TRUE}, enable : {TRUE}, weight : {0}]
      BY <2>4
    <2> QED BY Zenon, <2>1, <2>2, <2>3, <2>4 DEF Instances
  <1>3. PICK m \in Nat : s \in [1..m -> Kind]
    <2>1. CASE s \in SeqOf(Instances, 2)
      <3>1. PICK m \in 0..2 : s \in [1..m -> Instances]
        BY <2>1 DEF SeqOf
      <3> HIDE DEF Heavy
      <3> QED BY <3>1
    <2>2. CASE s \in [1..3 -> Heavy]
      <3> HIDE DEF Heavy
      <3> QED BY <2>2
    <2> QED BY <1>1, <2>1, <2>2
  <1>4. /\ hosts = [i \in 1..m |-> hosts[i]]
        /\ \A i \in 1..m : hosts[i].id = i /\ hosts[i].weight = s[i].weight
    <2>1. DOMAIN s = 1..m
      BY <1>3
    <2> QED BY <1>1, <2>1
  <1>5. \A i \in 1..m : hosts[i].weight \in Nat
    <2>1. \A i \in 1..m : s[i] \in Kind
      <3> HIDE DEF Kind
      <3> QED BY <1>3
    <2> HIDE DEF Kind, Heavy, Listed
    <2> QED BY <1>2, <1>4, <2>1
  <1> HIDE DEF Listed, Kind
  <1>6. DOMAIN hosts = 1..m /\ ToSet(hosts) = {hosts[i] : i \in 1..m}
    <2>1. DOMAIN hosts = 1..m
      BY <1>4
    <2> QED BY <2>1 DEF ToSet
  <1>7. hosts \in Seq(ToSet(hosts))
    <2> DEFINE H == ToSet(hosts)
    <2>1. \A i \in 1..m : hosts[i] \in H
      BY <1>6
    <2> HIDE DEF H
    <2>2. hosts \in [1..m -> H]
      BY <1>4, <2>1
    <2>3. hosts \in Seq(H)
      BY <2>2
    <2> QED BY <2>3 DEF H
  <1>8. Distinct(hosts)
    BY <1>4, <1>6 DEF Distinct
  <1>9. \A h \in ToSet(hosts) : h.weight \in Nat
    BY <1>5, <1>6
  <1> QED BY <1>7, <1>8, <1>9 DEF Weighted

(* Select is the step of its task. *)
LEMMA SelectStep == ASSUME Next, task = "select" PROVE Select
  BY DEF Next, CompareSelectors, Request, RamLogin, SignRequest, EncryptConfig, CreateTwice, Label, BuildChain,
         Computes

(* The instance that SelectOneHealthyInstance returns is drawn in           *)
(* proportion to the truncated weights among the healthy, enabled instances *)
(* of the clusters asked for, and the call fails where there is none of     *)
(* weight one: every list that the run selects from.                        *)
THEOREM PicksFollowWeights == Spec => []PickFollowsWeights
  <1>1. Init => SelectInput /\ PickFollowsWeights
    BY ListedOnce DEF Init, SelectInput, PickFollowsWeights, Done
  <1>2. SelectInput /\ PickFollowsWeights /\ [Next]_vars => (SelectInput /\ PickFollowsWeights)'
    <2> SUFFICES ASSUME SelectInput, PickFollowsWeights, [Next]_vars
                 PROVE  (SelectInput /\ PickFollowsWeights)'
      OBVIOUS
    <2>1. CASE UNCHANGED vars
      <3>1. task' = task /\ input' = input /\ output' = output
        BY <2>1 DEF vars
      <3>2. SelectInput'
        BY <3>1 DEF SelectInput
      <3>3. PickFollowsWeights'
        BY <3>1 DEF PickFollowsWeights, Done, Result
      <3> QED BY <3>2, <3>3
    <2>2. CASE Next /\ task # "select"
      BY <2>2, OneOutput DEF SelectInput, PickFollowsWeights, Done
    <2>3. CASE Next /\ task = "select"
      <3> DEFINE hosts == input.hosts
                 clusters == input.clusters
                 eligible == Eligible(clusters, hosts)
                 one == SelectOneHealthyInstance(clusters, hosts)
                 In(h) == /\ h.healthy /\ h.enable /\ h.weight > 0
                          /\ \/ ToSet(clusters) \subseteq {"none"}
                             \/ h.cluster \in ToSet(clusters)
                 named == {h \in ToSet(hosts) : In(h)}
      <3>1. /\ output' = <<[one |-> one, healthy |-> SelectInstances(clusters, hosts, TRUE),
                            all |-> SelectAllInstances(clusters, hosts)]>>
            /\ task' = task /\ input' = input
        BY <2>3, OneOutput, SelectStep DEF Select, Computes
      <3>2. Result'.one = one
        BY <3>1 DEF Result
      <3>3. SelectInput'
        BY <3>1 DEF SelectInput
      <3>4. named = eligible
        BY DEF Eligible, InCluster, joinCluster
      <3>5. one = IF \A h \in eligible : h.weight < 2 THEN IF eligible = {} THEN "error" ELSE "panic"
                  ELSE [h \in eligible |-> h.weight \div 2]
        <4> DEFINE H == ToSet(hosts)
        <4>1. hosts \in Seq(H) /\ Distinct(hosts) /\ \A h \in H : h.weight \in Nat
          BY <2>3 DEF SelectInput, Weighted
        <4> HIDE DEF H, hosts, clusters
        <4> QED BY <4>1, PickIsProportional
      <3> DEFINE P == IF \A h \in named : h.weight < 2 THEN one = (IF named = {} THEN "error" ELSE "panic")
                      ELSE DOMAIN one = named /\ \A h \in named : one[h] = h.weight \div 2
      <3>6. P
        <4> HIDE DEF named, eligible, one
        <4> QED BY <3>4, <3>5
      <3>7. PickFollowsWeights'
        <4>1. input'.hosts = hosts /\ input'.clusters = clusters
          BY <3>1
        <4> HIDE DEF one, hosts, clusters
        <4> QED BY <3>2, <3>6, <4>1 DEF PickFollowsWeights
      <3> QED BY <3>3, <3>7
    <2> QED BY <2>1, <2>2, <2>3
  <1> QED BY <1>1, <1>2, PTL DEF Spec

-----------------------------------------------------------------------------
(* Failover. *)

(* The servers that are tried, in terms of the one before. *)
LEMMA TriesAre ==
    ASSUME NEW n \in Nat, n >= 2, NEW start \in 0..n - 1
    PROVE  /\ Tries(n, start) \in [1..n -> 0..n - 1]
           /\ Tries(n, start)[1] = start
           /\ \A i \in 2..n : Tries(n, start)[i] = (Tries(n, start)[i - 1] + i - 1) % n
  <1> DEFINE E(h, i) == IF i = 1 THEN start ELSE (h[i - 1] + i - 1) % n
             Q(h) == h = [i \in 1..n |-> E(h, i)]
             S == 0..n - 1
             m == n - 1
             G == [p \in (1..m) \X S |-> (p[2] + p[1]) % n]
             index == CHOOSE h : Q(h)
  <1>0. m \in Nat /\ start \in S
    OBVIOUS
  <1>1. Tries(n, start) = index
    BY DEF Tries
  <1>2. \E h : Q(h)
    <2>1. \A x \in S, i \in 1..m : (x + i) % n \in S
      OBVIOUS
    <2>2. G \in [(1..m) \X S -> S]
      <3> HIDE DEF S, m
      <3> QED BY <2>1
    <2>3. PICK f : Recurs(f, m, S, start, G)
      <3> HIDE DEF G, S, m
      <3> QED BY <1>0, <2>2, Recursion
    <2> DEFINE h == [i \in 1..n |-> f[i - 1]]
    <2>4. ASSUME NEW i \in 1..n PROVE h[i] = E(h, i)
      <3>1. CASE i = 1
        BY <2>3, <3>1 DEF Recurs
      <3>2. CASE i \in 2..n
        <4>1. i - 1 \in 1..m /\ i - 1 \in 1..n /\ (i - 1) - 1 \in 0..m
          BY <3>2
        <4>2. f[(i - 1) - 1] \in S
          BY <2>3, <4>1 DEF Recurs
        <4>3. <<i - 1, f[(i - 1) - 1]>> \in (1..m) \X S
          BY <4>1, <4>2
        <4>4. f[i - 1] = G[<<i - 1, f[(i - 1) - 1]>>]
          BY <2>3, <4>1 DEF Recurs
        <4>5. f[i - 1] = (f[(i - 1) - 1] + (i - 1)) % n
          BY <4>3, <4>4
        <4>6. h[i] = f[i - 1] /\ h[i - 1] = f[(i - 1) - 1]
          BY <4>1
        <4>7. f[(i - 1) - 1] + (i - 1) = h[i - 1] + i - 1
          BY <3>2, <4>2, <4>6
        <4> QED BY <3>2, <4>5, <4>6, <4>7
      <3> QED BY <3>1, <3>2
    <2>5. Q(h)
      <3> HIDE DEF E
      <3> QED BY <2>4
    <2> QED BY <2>5
  <1>3. Q(index)
    <2> HIDE DEF Q
    <2> QED BY <1>2
  <1> HIDE DEF index
  <1>4. DOMAIN index = 1..n /\ \A i \in 1..n : index[i] = E(index, i)
    <2> HIDE DEF E
    <2> QED BY <1>3
  <1>5. index[1] = start /\ \A i \in 2..n : index[i] = (index[i - 1] + i - 1) % n
    BY <1>4
  <1>6. \A i \in 1..n : index[i] \in S
    <2> DEFINE T == {i \in 0..m : index[i + 1] \in S}
    <2>1. 0 \in T
      BY <1>5
    <2>2. ASSUME NEW i \in 1..m, i - 1 \in T PROVE i \in T
      <3>1. index[i] \in S
        BY <2>2
      <3>2. index[i + 1] = (index[i] + i) % n
        BY <1>5, <3>1
      <3>3. index[i] + i \in Nat
        BY <3>1
      <3> QED BY <3>2, <3>3
    <2>3. \A i \in 0..m : i \in T
      <3> HIDE DEF T, m
      <3> QED BY <1>0, <2>1, <2>2, UpTo
    <2>4. \A i \in 1..n : i - 1 \in 0..m /\ (i - 1) + 1 = i
      OBVIOUS
    <2> QED BY <2>3, <2>4
  <1>7. index \in [1..n -> S]
    <2>1. index = [i \in 1..n |-> index[i]]
      BY <1>3
    <2> HIDE DEF S
    <2> QED BY <1>6, <2>1
  <1> QED BY <1>1, <1>5, <1>7

(* How often a server was asked before. *)
Before(t, i) == Cardinality({j \in 1..i - 1 : t[j] = t[i]})

(* A server that is asked for the first time was not asked before. *)
LEMMA FirstTime ==
    ASSUME NEW t, NEW i, \A j \in 1..i - 1 : t[j] # t[i]
    PROVE  Before(t, i) = 0
  <1>1. {j \in 1..i - 1 : t[j] = t[i]} = {}
    OBVIOUS
  <1> QED BY <1>1, FS_EmptySet DEF Before

(* Tries that ask each of n servers once. *)
GoesRound(t, n) ==
    /\ \A i, j \in 1..n : t[i] = t[j] => i = j
    /\ \A s \in 0..n - 1 : \E i \in 1..n : t[i] = s

(* Tries that go round all servers once find one that works. *)
LEMMA RoundFindsWorking ==
    ASSUME NEW n \in Nat, n >= 2, NEW start \in 0..n - 1, NEW fails \in [0..n - 1 -> Nat],
           GoesRound(Tries(n, start), n)
    PROVE  ReqApi(n, start, fails) <=> \E s \in 0..n - 1 : fails[s] = 0
  <1> DEFINE t == Tries(n, start)
  <1>1. t \in [1..n -> 0..n - 1]
    BY TriesAre
  <1>2. ReqApi(n, start, fails) <=> \E i \in 1..n : Before(t, i) >= fails[t[i]]
    <2>1. DOMAIN t = 1..n
      BY <1>1
    <2> HIDE DEF t
    <2> QED BY <2>1 DEF ReqApi, Before, t
  <1> HIDE DEF t
  <1>3. \A i \in 1..n : Before(t, i) = 0
    <2>1. \A i \in 1..n : \A j \in 1..i - 1 : t[j] # t[i]
      BY DEF GoesRound, t
    <2> QED BY <2>1, FirstTime
  <1>4. \A i \in 1..n : t[i] \in 0..n - 1 /\ fails[t[i]] \in Nat
    <2>1. \A i \in 1..n : t[i] \in 0..n - 1
      BY <1>1
    <2> QED BY <2>1
  <1>5. ReqApi(n, start, fails) <=> \E i \in 1..n : fails[t[i]] = 0
    BY <1>2, <1>3, <1>4
  <1> QED BY <1>4, <1>5 DEF GoesRound, t

(* With at least two servers, one that fails is got over: the next to be    *)
(* asked is another.                                                        *)
THEOREM OneFailureIsSurvived ==
    ASSUME NEW n \in Nat, n >= 2, NEW start \in 0..n - 1, NEW fails \in [0..n - 1 -> Nat],
           NEW bad, \A s \in 0..n - 1 : s # bad => fails[s] = 0
    PROVE  ReqApi(n, start, fails)
  <1> DEFINE t == Tries(n, start)
  <1>1. t \in [1..n -> 0..n - 1] /\ t[1] = start /\ t[2] = (start + 1) % n
    <2>1. t \in [1..n -> 0..n - 1] /\ t[1] = start /\ \A i \in 2..n : t[i] = (t[i - 1] + i - 1) % n
      BY TriesAre
    <2> HIDE DEF t
    <2>2. t[2] = (t[2 - 1] + 2 - 1) % n
      BY <2>1
    <2>3. 2 - 1 = 1 /\ start + 2 - 1 = start + 1
      OBVIOUS
    <2> QED BY <2>1, <2>2, <2>3
  <1>2. ReqApi(n, start, fails) <=> \E i \in 1..n : Before(t, i) >= fails[t[i]]
    <2>1. DOMAIN t = 1..n
      BY <1>1
    <2> HIDE DEF t
    <2> QED BY <2>1 DEF ReqApi, Before, t
  <1> HIDE DEF t
  <1>3. t[1] # t[2]
    <2>1. CASE start < n - 1
      <3>1. (start + 1) % n = start + 1
        BY <2>1
      <3> QED BY <1>1, <3>1
    <2>2. CASE start = n - 1
      <3>1. (start + 1) % n = 0
        BY <2>2
      <3> QED BY <1>1, <2>2, <3>1
    <2> QED BY <2>1, <2>2
  <1>4. Before(t, 1) = 0 /\ Before(t, 2) = 0
    <2>1. \A j \in 1..1 - 1 : t[j] # t[1]
      OBVIOUS
    <2>2. \A j \in 1..2 - 1 : t[j] # t[2]
      BY <1>3
    <2> QED BY <2>1, <2>2, FirstTime
  <1>5. t[1] \in 0..n - 1 /\ t[2] \in 0..n - 1 /\ 1 \in 1..n /\ 2 \in 1..n
    BY <1>1
  <1>6. fails[t[1]] = 0 \/ fails[t[2]] = 0
    BY <1>3, <1>5
  <1> QED BY <1>2, <1>4, <1>5, <1>6

(* Whether a request that begins at start succeeds, for up to four servers. *)
Reaches(n, start, fails) ==
    LET reached == IF n = 3 THEN {start, (start + 1) % 3} ELSE 0..n - 1 IN
    \/ \E s \in reached : fails[s] = 0
    \/ n = 1 /\ fails[0] < 3
    \/ n = 3 /\ fails[start] = 1

(* A single server is asked three times. *)
LEMMA SingleServer ==
    ASSUME NEW fails \in [0..0 -> Nat]
    PROVE  ReqApi(1, 0, fails) <=> Reaches(1, 0, fails)
  <1> DEFINE t == Tries(1, 0)
  <1>1. t = [i \in 1..3 |-> 0]
    BY DEF Tries, RequestDomainRetryTime
  <1>2. ReqApi(1, 0, fails) <=> \E i \in 1..3 : Before(t, i) >= fails[t[i]]
    <2>1. DOMAIN t = 1..3
      BY <1>1
    <2> HIDE DEF t
    <2> QED BY <2>1 DEF ReqApi, Before, t
  <1> HIDE DEF t
  <1>3. \A i \in 1..3 : Before(t, i) = i - 1 /\ t[i] = 0
    <2>1. ASSUME NEW i \in 1..3 PROVE Before(t, i) = i - 1
      <3>1. {j \in 1..i - 1 : t[j] = t[i]} = 1..i - 1
        BY <1>1
      <3>2. Cardinality(1..i - 1) = i - 1
        BY FS_Interval
      <3> QED BY <3>1, <3>2 DEF Before
    <2> QED BY <1>1, <2>1
  <1>4. fails[0] \in Nat
    OBVIOUS
  <1>5. ReqApi(1, 0, fails) <=> \E i \in 1..3 : i - 1 >= fails[0]
    BY <1>2, <1>3
  <1>6. (\E i \in 1..3 : i - 1 >= fails[0]) <=> fails[0] < 3
    BY <1>4
  <1>7. Reaches(1, 0, fails) <=> fails[0] < 3
    BY <1>4 DEF Reaches
  <1> QED BY <1>5, <1>6, <1>7

(* Of two servers, and of four, each is asked once. *)
LEMMA TwoOrFourServers ==
    ASSUME NEW n \in {2, 4}, NEW start \in 0..n - 1, NEW fails \in [0..n - 1 -> Nat]
    PROVE  ReqApi(n, start, fails) <=> Reaches(n, start, fails)
  <1> DEFINE t == Tries(n, start)
  <1>0. n \in Nat /\ n >= 2
    OBVIOUS
  <1>1. t \in [1..n -> 0..n - 1] /\ t[1] = start /\ \A i \in 2..n : t[i] = (t[i - 1] + i - 1) % n
    BY <1>0, TriesAre
  <1> HIDE DEF t
  <1>2. CASE n = 2
    <2>1. t[2] = (start + 1) % 2
      BY <1>1, <1>2
    <2>2. start \in {0, 1} /\ \A i \in 1..n : i \in {1, 2}
      BY <1>2
    <2>3. t[2] = 1 - start
      BY <2>1, <2>2
    <2>4. GoesRound(t, n)
      BY <1>1, <1>2, <2>2, <2>3 DEF GoesRound
    <2>5. ReqApi(n, start, fails) <=> \E s \in 0..n - 1 : fails[s] = 0
      BY <1>0, <2>4, RoundFindsWorking DEF t
    <2>6. Reaches(n, start, fails) <=> \E s \in 0..n - 1 : fails[s] = 0
      BY <1>2 DEF Reaches
    <2> QED BY <2>5, <2>6
  <1>3. CASE n = 4
    <2>1. t[2] = (start + 1) % 4 /\ t[3] = (t[2] + 2) % 4 /\ t[4] = (t[3] + 3) % 4
      <3>1. 2 \in 2..n /\ 3 \in 2..n /\ 4 \in 2..n /\ 1 \in 1..n
        BY <1>3
      <3>2. t[1] \in Int /\ t[2] \in Int /\ t[3] \in Int
        <4>1. \A i \in 1..n : t[i] \in 0..n - 1
          BY <1>1
        <4>2. t[1] \in 0..n - 1 /\ t[2] \in 0..n - 1 /\ t[3] \in 0..n - 1
          BY <1>3, <4>1
        <4> QED BY <1>0, <4>2
      <3>3. t[2] = (t[2 - 1] + 2 - 1) % 4 /\ t[3] = (t[3 - 1] + 3 - 1) % 4 /\ t[4] = (t[4 - 1] + 4 - 1) % 4
        BY <1>1, <1>3, <3>1
      <3> QED BY <1>1, <3>2, <3>3
    <2>2. start \in {0, 1, 2, 3} /\ \A i \in 1..n : i \in {1, 2, 3, 4}
      BY <1>3
    <2>3. \/ start = 0 /\ t[1] = 0 /\ t[2] = 1 /\ t[3] = 3 /\ t[4] = 2
          \/ start = 1 /\ t[1] = 1 /\ t[2] = 2 /\ t[3] = 0 /\ t[4] = 3
          \/ start = 2 /\ t[1] = 2 /\ t[2] = 3 /\ t[3] = 1 /\ t[4] = 0
          \/ start = 3 /\ t[1] = 3 /\ t[2] = 0 /\ t[3] = 2 /\ t[4] = 1
      BY <1>1, <2>1, <2>2
    <2>4. GoesRound(t, n)
      <3>1. \A s \in 0..n - 1 : s \in {0, 1, 2, 3}
        BY <1>3
      <3>2. 1 \in 1..n /\ 2 \in 1..n /\ 3 \in 1..n /\ 4 \in 1..n
        BY <1>3
      <3>3. \A i, j \in {1, 2, 3, 4} : t[i] = t[j] => i = j
        BY <2>3
      <3>4. \A s \in {0, 1, 2, 3} : \E i \in {1, 2, 3, 4} : t[i] = s
        BY <2>3
      <3>5. \A i \in {1, 2, 3, 4} : i \in 1..n
        BY <3>2
      <3> QED BY <2>2, <3>1, <3>3, <3>4, <3>5 DEF GoesRound
    <2>5. ReqApi(n, start, fails) <=> \E s \in 0..n - 1 : fails[s] = 0
      BY <1>0, <2>4, RoundFindsWorking DEF t
    <2>6. Reaches(n, start, fails) <=> \E s \in 0..n - 1 : fails[s] = 0
      BY <1>3 DEF Reaches
    <2> QED BY <2>5, <2>6
  <1> QED BY <1>2, <1>3

(* Of three servers the first is asked twice and the last never. *)
LEMMA ThreeServers ==
    ASSUME NEW start \in 0..2, NEW fails \in [0..2 -> Nat]
    PROVE  ReqApi(3, start, fails) <=> Reaches(3, start, fails)
  <1> DEFINE t == Tries(3, start)
             second == (start + 1) % 3
  <1>1. t \in [1..3 -> 0..2] /\ t[1] = start /\ \A i \in 2..3 : t[i] = (t[i - 1] + i - 1) % 3
    <2> DEFINE n == 3
    <2>1. n \in Nat /\ n >= 2 /\ start \in 0..n - 1 /\ n - 1 = 2
      OBVIOUS
    <2>2. /\ Tries(n, start) \in [1..n -> 0..n - 1] /\ Tries(n, start)[1] = start
          /\ \A i \in 2..n : Tries(n, start)[i] = (Tries(n, start)[i - 1] + i - 1) % n
      <3> HIDE DEF n
      <3> QED BY <2>1, TriesAre
    <2>3. Tries(n, start) \in [1..n -> 0..2]
      <3> HIDE DEF n
      <3> QED BY <2>1, <2>2
    <2> QED BY <2>2, <2>3
  <1>2. ReqApi(3, start, fails) <=> \E i \in 1..3 : Before(t, i) >= fails[t[i]]
    <2>1. DOMAIN t = 1..3
      BY <1>1
    <2> HIDE DEF t
    <2> QED BY <2>1 DEF ReqApi, Before, t
  <1> HIDE DEF t
  <1>3. t[2] = second /\ t[3] = (t[2] + 2) % 3
    <2>1. t[2] = (t[2 - 1] + 2 - 1) % 3 /\ t[3] = (t[3 - 1] + 3 - 1) % 3 /\ t[2] \in Int
      BY <1>1
    <2> QED BY <1>1, <2>1
  <1>4. t[3] = start /\ second # start /\ second \in 0..2
    <2>1. start \in {0, 1, 2}
      OBVIOUS
    <2> QED BY <1>3, <2>1
  <1>5. Before(t, 1) = 0 /\ Before(t, 2) = 0
    <2>1. \A j \in 1..1 - 1 : t[j] # t[1]
      OBVIOUS
    <2>2. \A j \in 1..2 - 1 : t[j] # t[2]
      BY <1>1, <1>3, <1>4
    <2> QED BY <2>1, <2>2, FirstTime
  <1>6. Before(t, 3) = 1
    <2>1. {j \in 1..3 - 1 : t[j] = t[3]} = {1}
      BY <1>1, <1>3, <1>4
    <2> QED BY <2>1, FS_Singleton DEF Before
  <1>7. fails[start] \in Nat /\ fails[second] \in Nat
    BY <1>4
  <1>8. ReqApi(3, start, fails) <=> 0 >= fails[start] \/ 0 >= fails[second] \/ 1 >= fails[start]
    <2>1. \A i \in 1..3 : i \in {1, 2, 3}
      OBVIOUS
    <2> HIDE DEF second
    <2> QED BY <1>1, <1>2, <1>3, <1>4, <1>5, <1>6, <2>1
  <1>9. Reaches(3, start, fails) <=> fails[start] = 0 \/ fails[second] = 0 \/ fails[start] = 1
    BY DEF Reaches
  <1> QED BY <1>7, <1>8, <1>9

(* The requests that the run makes. *)
RequestInput ==
    task = "request" => \E n \in 1..4 : /\ input.n = n /\ input.start \in 0..n - 1
                                        /\ input.fails \in [0..n - 1 -> Nat]

(* Request is the step of its task. *)
LEMMA RequestStep == ASSUME Next, task = "request" PROVE Request
  BY DEF Next, Select, CompareSelectors, RamLogin, SignRequest, EncryptConfig, CreateTwice, Label, BuildChain,
         Computes

(* A request over HTTP succeeds while there is a server that answers, as    *)
(* long as the tries reach it.                                              *)
THEOREM TriesReach == Spec => []FailoverReaches
  <1>1. Init => RequestInput /\ FailoverReaches
    <2>1. \A n \in 1..4 : [0..n - 1 -> {0, 1, 3}] \subseteq [0..n - 1 -> Nat]
      OBVIOUS
    <2> QED BY <2>1 DEF Init, RequestInput, FailoverReaches, Done
  <1>2. RequestInput /\ FailoverReaches /\ [Next]_vars => (RequestInput /\ FailoverReaches)'
    <2> SUFFICES ASSUME RequestInput, FailoverReaches, [Next]_vars
                 PROVE  (RequestInput /\ FailoverReaches)'
      OBVIOUS
    <2>1. CASE UNCHANGED vars
      BY <2>1 DEF vars, RequestInput, FailoverReaches, Done, Result
    <2>2. CASE Next /\ task # "request"
      BY <2>2, OneOutput DEF RequestInput, FailoverReaches, Done
    <2>3. CASE Next /\ task = "request"
      <3>1. /\ output' = <<ReqApi(input.n, input.start, input.fails)>> /\ task' = task /\ input' = input
        BY <2>3, OneOutput, RequestStep DEF Request, Computes
      <3>2. Result' = ReqApi(input.n, input.start, input.fails)
        BY <3>1 DEF Result
      <3>3. PICK n \in 1..4 : input.n = n /\ input.start \in 0..n - 1 /\ input.fails \in [0..n - 1 -> Nat]
        BY <2>3 DEF RequestInput
      <3>4. ReqApi(n, input.start, input.fails) <=> Reaches(n, input.start, input.fails)
        <4>1. CASE n = 1
          <5>1. input.start = 0 /\ input.fails \in [0..0 -> Nat]
            BY <3>3, <4>1
          <5> QED BY <4>1, <5>1, SingleServer
        <4>2. CASE n \in {2, 4}
          BY <3>3, <4>2, TwoOrFourServers
        <4>3. CASE n = 3
          <5>1. input.start \in 0..2 /\ input.fails \in [0..2 -> Nat]
            BY <3>3, <4>3
          <5> QED BY <4>3, <5>1, ThreeServers
        <4> QED BY <4>1, <4>2, <4>3
      <3>5. Result' <=> Reaches(input'.n, input'.start, input'.fails)
        BY <3>1, <3>2, <3>3, <3>4
      <3>6. RequestInput'
        BY <2>3, <3>1 DEF RequestInput
      <3>7. FailoverReaches'
        BY <3>5 DEF FailoverReaches, Reaches
      <3> QED BY <3>6, <3>7
    <2> QED BY <2>1, <2>2, <2>3
  <1> QED BY <1>1, <1>2, PTL DEF Spec

-----------------------------------------------------------------------------
(* Filters. *)

(* Filters with names out of N, and the names of a chain. *)
Filter(N) == [name : N, order : Int]
NamesOf(chain) == {chain[i].name : i \in DOMAIN chain}

(* A chain in order, with no name twice. *)
Tidy(chain) ==
    \A i, j \in DOMAIN chain : i < j => chain[i].name # chain[j].name /\ chain[i].order <= chain[j].order

(* The position at which addFilter stops. *)
LEMMA PositionIsFirst ==
    ASSUME NEW N, NEW chain \in Seq(Filter(N)), NEW f
    PROVE  LET stops == {i \in DOMAIN chain : chain[i].name = f.name \/ f.order < chain[i].order} IN
           IF stops = {} THEN addPosition(chain, f) = Len(chain) + 1
           ELSE addPosition(chain, f) \in stops /\ \A j \in stops : addPosition(chain, f) <= j
  <1> DEFINE stops == {i \in DOMAIN chain : chain[i].name = f.name \/ f.order < chain[i].order}
  <1>1. CASE stops = {}
    BY <1>1 DEF addPosition
  <1>2. CASE stops # {}
    <2>1. stops \in SUBSET Nat
      OBVIOUS
    <2>2. addPosition(chain, f) = CHOOSE i \in stops : \A j \in stops : i <= j
      BY <1>2 DEF addPosition
    <2> HIDE DEF stops
    <2>3. \E i \in stops : \A j \in stops : i <= j
      BY <1>2, <2>1, Least
    <2>4. addPosition(chain, f) \in stops /\ \A j \in stops : addPosition(chain, f) <= j
      BY <2>2, <2>3
    <2> QED BY <1>2, <2>4 DEF stops
  <1> QED BY <1>1, <1>2

(* What addFilter does with the position. *)
LEMMA Added ==
    ASSUME NEW chain, NEW f
    PROVE  LET pos == addPosition(chain, f) IN
           /\ pos > Len(chain) => addFilter(chain, f) = Append(chain, f)
           /\ ~(pos > Len(chain)) /\ chain[pos].name = f.name => addFilter(chain, f) = chain
           /\ ~(pos > Len(chain)) /\ chain[pos].name # f.name =>
                  addFilter(chain, f) = SubSeq(chain, 1, pos - 1) \o <<f, f>> \o SubSeq(chain, pos + 1, Len(chain))
  BY Zenon DEF addFilter

(* addFilter makes a chain, whatever the order of the filters. *)
LEMMA AddedIsChain ==
    ASSUME NEW N, NEW chain \in Seq(Filter(N)), NEW f \in Filter(N)
    PROVE  addFilter(chain, f) \in Seq(Filter(N))
  <1> DEFINE pos == addPosition(chain, f)
             F == Filter(N)
  <1>1. pos \in 1..Len(chain) + 1
    BY PositionIsFirst
  <1> HIDE DEF pos, F
  <1>2. chain \in Seq(F) /\ f \in F /\ Len(chain) \in Nat
    BY DEF F
  <1>3. CASE pos > Len(chain)
    <2>1. addFilter(chain, f) = Append(chain, f)
      BY <1>3, Added DEF pos
    <2> QED BY <1>2, <2>1 DEF F
  <1>4. CASE pos <= Len(chain) /\ chain[pos].name = f.name
    <2>1. ~(pos > Len(chain))
      BY <1>1, <1>2, <1>4
    <2>2. addFilter(chain, f) = chain
      BY <1>4, <2>1, Added DEF pos
    <2> QED BY <2>2
  <1>5. CASE pos <= Len(chain) /\ chain[pos].name # f.name
    <2>1. addFilter(chain, f) = SubSeq(chain, 1, pos - 1) \o <<f, f>> \o SubSeq(chain, pos + 1, Len(chain))
      <3>1. ~(pos > Len(chain))
        BY <1>1, <1>2, <1>5
      <3> QED BY <1>5, <3>1, Added, Zenon DEF pos
    <2>2. SubSeq(chain, 1, pos - 1) \in Seq(F) /\ SubSeq(chain, pos + 1, Len(chain)) \in Seq(F)
      BY <1>1, <1>2, <1>5
    <2>3. <<f, f>> \in Seq(F)
      BY <1>2
    <2>4. SubSeq(chain, 1, pos - 1) \o <<f, f>> \in Seq(F)
      BY <2>2, <2>3
    <2>5. SubSeq(chain, 1, pos - 1) \o <<f, f>> \o SubSeq(chain, pos + 1, Len(chain)) \in Seq(F)
      BY <2>2, <2>4
    <2> QED BY <2>1, <2>5 DEF F
  <1> QED BY <1>1, <1>2, <1>3, <1>4, <1>5

(* A filter of the highest order so far goes to the end, unless there is    *)
(* one of its name.                                                         *)
LEMMA HighestIsAppended ==
    ASSUME NEW N, NEW chain \in Seq(Filter(N)), NEW f \in Filter(N),
           \A i \in DOMAIN chain : chain[i].order <= f.order
    PROVE  addFilter(chain, f) = IF f.name \in NamesOf(chain) THEN chain ELSE Append(chain, f)
  <1>0. \A i \in DOMAIN chain : chain[i].order \in Int
    <2>1. \A i \in DOMAIN chain : chain[i] \in Filter(N)
      OBVIOUS
    <2> QED BY <2>1 DEF Filter
  <1>1. \A i \in DOMAIN chain : ~(f.order < chain[i].order)
    BY <1>0 DEF Filter
  <1>2. CASE f.name \in NamesOf(chain)
    <2>1. addPosition(chain, f) \in DOMAIN chain /\ chain[addPosition(chain, f)].name = f.name
      BY <1>1, <1>2, PositionIsFirst DEF NamesOf
    <2>2. DOMAIN chain = 1..Len(chain) /\ Len(chain) \in Nat
      OBVIOUS
    <2>3. ~(addPosition(chain, f) > Len(chain))
      BY <2>1, <2>2
    <2> QED BY <1>2, <2>1, <2>3, Added
  <1>3. CASE f.name \notin NamesOf(chain)
    <2>1. addPosition(chain, f) = Len(chain) + 1
      BY <1>1, <1>3, PositionIsFirst DEF NamesOf
    <2>2. Len(chain) \in Nat
      OBVIOUS
    <2>3. addPosition(chain, f) > Len(chain)
      BY <2>1, <2>2
    <2> QED BY <1>3, <2>3, Added
  <1> QED BY <1>2, <1>3

(* Filters in a non-decreasing order. *)
Ordered(filters) == \A i, j \in DOMAIN filters : i < j => filters[i].order <= filters[j].order

(* Filters that are added in a non-decreasing order make a tidy chain with  *)
(* all of their names.                                                      *)
LEMMA ChainOfOrdered ==
    ASSUME NEW N, NEW filters \in Seq(Filter(N)), Ordered(filters)
    PROVE  /\ AddFilters(filters) \in Seq(Filter(N))
           /\ Tidy(AddFilters(filters))
           /\ NamesOf(AddFilters(filters)) = NamesOf(filters)
  <1> DEFINE n == Len(filters)
             E(h, i) == IF i = 0 THEN <<>> ELSE addFilter(h[i - 1], filters[i])
             Q(h) == h = [i \in 0..n |-> E(h, i)]
             lists == Seq(Filter(N))
             empty == <<>>
             G == [p \in (1..n) \X lists |-> addFilter(p[2], filters[p[1]])]
             chain == CHOOSE h : Q(h)
             first(i) == {filters[j].name : j \in 1..i}
             T == {i \in 0..n : /\ chain[i] \in lists
                                /\ Tidy(chain[i])
                                /\ NamesOf(chain[i]) = first(i)
                                /\ \A k \in DOMAIN chain[i] : \E j \in 1..i : chain[i][k] = filters[j]}
  <1>0. n \in Nat /\ DOMAIN filters = 1..n /\ \A i \in 1..n : filters[i] \in Filter(N)
    OBVIOUS
  <1>1. AddFilters(filters) = chain[n]
    BY DEF AddFilters
  <1> HIDE DEF n
  <1>2. \E h : Q(h)
    <2>1. empty \in lists
      OBVIOUS
    <2>2. \A p \in (1..n) \X lists : p[1] \in 1..n /\ p[2] \in lists /\ addFilter(p[2], filters[p[1]]) \in lists
      BY <1>0, AddedIsChain
    <2>3. G \in [(1..n) \X lists -> lists]
      <3> HIDE DEF lists
      <3> QED BY <2>2
    <2>4. PICK f : Recurs(f, n, lists, empty, G)
      <3> HIDE DEF G, lists, empty
      <3> QED BY <1>0, <2>1, <2>3, Recursion
    <2> HIDE DEF lists
    <2>5. ASSUME NEW i \in 0..n PROVE f[i] = E(f, i)
      <3>1. CASE i = 0
        BY <2>4, <3>1 DEF Recurs
      <3>2. CASE i \in 1..n
        <4>1. f[i - 1] \in lists /\ i # 0
          BY <1>0, <2>4, <3>2 DEF Recurs
        <4>2. <<i, f[i - 1]>> \in (1..n) \X lists
          BY <3>2, <4>1
        <4>3. f[i] = G[<<i, f[i - 1]>>]
          BY <2>4, <3>2 DEF Recurs
        <4> QED BY <4>1, <4>2, <4>3
      <3> QED BY <1>0, <3>1, <3>2
    <2>6. f \in [0..n -> lists]
      BY <2>4 DEF Recurs
    <2>7. Q(f)
      <3> HIDE DEF E
      <3> QED BY <2>5, <2>6
    <2> QED BY <2>7
  <1>3. Q(chain)
    <2> HIDE DEF Q
    <2> QED BY <1>2
  <1> HIDE DEF chain
  <1>4. chain[0] = <<>> /\ \A i \in 1..n : chain[i] = addFilter(chain[i - 1], filters[i])
    <2>1. \A i \in 0..n : chain[i] = E(chain, i)
      <3> HIDE DEF E
      <3> QED BY <1>3
    <2>2. 0 \in 0..n /\ \A i \in 1..n : i \in 0..n /\ i # 0
      BY <1>0
    <2> QED BY <2>1, <2>2
  <1> HIDE DEF Q, E, G
  <1>5. 0 \in T
    <2>1. DOMAIN chain[0] = {} /\ chain[0] \in lists /\ first(0) = {} /\ 0 \in 0..n
      BY <1>0, <1>4
    <2>2. Tidy(chain[0]) /\ NamesOf(chain[0]) = {}
      BY <2>1 DEF Tidy, NamesOf
    <2> QED BY <2>1, <2>2
  <1>6. ASSUME NEW i \in 1..n, i - 1 \in T PROVE i \in T
    <2> DEFINE c == chain[i - 1]
               f == filters[i]
    <2>1. /\ c \in lists /\ Tidy(c) /\ NamesOf(c) = first(i - 1)
          /\ \A k \in DOMAIN c : \E j \in 1..i - 1 : c[k] = filters[j]
      BY <1>6
    <2>2. f \in Filter(N) /\ i \in 0..n
      BY <1>0
    <2>3. ASSUME NEW k \in DOMAIN c PROVE c[k].order <= f.order
      <3>1. PICK j \in 1..i - 1 : c[k] = filters[j]
        BY <2>1
      <3>2. j \in DOMAIN filters /\ i \in DOMAIN filters /\ j < i
        BY <1>0
      <3>3. filters[j].order <= filters[i].order
        BY <3>2 DEF Ordered
      <3> QED BY <3>1, <3>3
    <2>4. chain[i] = IF f.name \in NamesOf(c) THEN c ELSE Append(c, f)
      BY <1>4, <2>1, <2>2, <2>3, HighestIsAppended
    <2>5. first(i) = first(i - 1) \cup {f.name}
      BY <1>0
    <2> HIDE DEF f
    <2>6. CASE f.name \in NamesOf(c)
      <3>1. chain[i] = c
        BY <2>4, <2>6
      <3>2. \A j \in 1..i - 1 : j \in 1..i
        BY <1>0
      <3> QED BY <2>1, <2>2, <2>5, <2>6, <3>1, <3>2
    <2>7. CASE f.name \notin NamesOf(c)
      <3>1. chain[i] = Append(c, f)
        BY <2>4, <2>7
      <3>2. /\ chain[i] \in lists /\ DOMAIN c = 1..Len(c) /\ Len(c) \in Nat
            /\ DOMAIN chain[i] = 1..Len(c) + 1
            /\ \A k \in 1..Len(c) : chain[i][k] = c[k]
            /\ chain[i][Len(c) + 1] = f
        <4>1. chain[i] \in lists /\ Len(chain[i]) = Len(c) + 1
          BY <2>1, <2>2, <3>1
        <4> QED BY <2>1, <2>2, <3>1, <4>1
      <3> HIDE DEF c
      <3>3. Tidy(chain[i])
        <4>1. \A k \in 1..Len(c) : c[k].name # f.name
          BY <2>7, <3>2 DEF NamesOf
        <4>2. \A k \in 1..Len(c) : c[k].order <= f.order
          BY <2>3, <3>2
        <4> QED BY <2>1, <3>2, <4>1, <4>2 DEF Tidy
      <3>4. NamesOf(chain[i]) = NamesOf(c) \cup {f.name}
        BY <3>2 DEF NamesOf
      <3>5. ASSUME NEW k \in DOMAIN chain[i] PROVE \E j \in 1..i : chain[i][k] = filters[j]
        <4>1. CASE k \in 1..Len(c)
          BY <1>0, <2>1, <3>2, <4>1
        <4>2. CASE k = Len(c) + 1
          BY <1>0, <3>2, <4>2 DEF f
        <4> QED BY <3>2, <4>1, <4>2
      <3> QED BY <2>1, <2>2, <2>5, <3>2, <3>3, <3>4, <3>5
    <2> QED BY <2>6, <2>7
  <1>7. n \in T
    <2>1. n \in 0..n
      BY <1>0
    <2> HIDE DEF T
    <2> QED BY <1>0, <1>5, <1>6, <2>1, UpTo
  <1>8. first(n) = NamesOf(filters)
    BY <1>0 DEF NamesOf
  <1> QED BY <1>1, <1>7, <1>8

(* Filters that are added in a non-decreasing order all run, once each and  *)
(* in that order, until one fails, which is then the last that ran.         *)
THEOREM OrderedFiltersRun ==
    ASSUME NEW N, NEW filters \in Seq(Filter(N)), Ordered(filters), NEW failing
    PROVE  LET run == DoFilters(AddFilters(filters), failing) IN
           /\ Tidy(run)
           /\ IF NamesOf(filters) \cap failing # {} THEN Last(run).name \in failing
              ELSE NamesOf(run) = NamesOf(filters)
  <1> DEFINE chain == AddFilters(filters)
             run == DoFilters(chain, failing)
             fails == {i \in DOMAIN chain : chain[i].name \in failing}
  <1> SUFFICES /\ Tidy(run)
               /\ IF NamesOf(filters) \cap failing # {} THEN Last(run).name \in failing
                  ELSE NamesOf(run) = NamesOf(filters)
    OBVIOUS
  <1>1. chain \in Seq(Filter(N)) /\ Tidy(chain) /\ NamesOf(chain) = NamesOf(filters)
    BY ChainOfOrdered
  <1> HIDE DEF chain
  <1>2. fails = {} <=> NamesOf(filters) \cap failing = {}
    BY <1>1 DEF NamesOf
  <1>3. CASE fails = {}
    <2>1. run = chain
      BY <1>3 DEF DoFilters
    <2> QED BY <1>1, <1>2, <1>3, <2>1
  <1>4. CASE fails # {}
    <2> DEFINE m == CHOOSE i \in fails : \A j \in fails : i <= j
    <2>1. run = SubSeq(chain, 1, m)
      BY <1>4 DEF DoFilters
    <2>2. m \in fails
      <3>1. fails \in SUBSET Nat
        BY <1>1
      <3> HIDE DEF fails
      <3>2. \E i \in fails : \A j \in fails : i <= j
        BY <1>4, <3>1, Least
      <3> QED BY <3>2
    <2> HIDE DEF m
    <2>3. m \in 1..Len(chain) /\ chain[m].name \in failing /\ Len(chain) \in Nat /\ DOMAIN chain = 1..Len(chain)
      BY <1>1, <2>2
    <2>4. Len(run) = m /\ DOMAIN run = 1..m /\ \A i \in 1..m : run[i] = chain[i]
      BY <1>1, <2>1, <2>3
    <2> HIDE DEF run
    <2>5. Tidy(run)
      BY <1>1, <2>3, <2>4 DEF Tidy
    <2>6. Last(run).name \in failing
      BY <2>3, <2>4 DEF Last
    <2> QED BY <1>2, <1>4, <2>5, <2>6
  <1> QED BY <1>3, <1>4

(* The filters that the run adds. *)
FiltersInput == task = "filters" => input.filters \in Seq(Filter({"f", "g", "h"}))

(* BuildChain is the step of its task. *)
LEMMA FiltersStep == ASSUME Next, task = "filters" PROVE BuildChain
  BY DEF Next, Select, CompareSelectors, Request, RamLogin, SignRequest, EncryptConfig, CreateTwice, Label,
         Computes

(* Filters that are added in a non-decreasing order all run, once each,     *)
(* until one fails.                                                         *)
THEOREM ChainsKeepFilters == Spec => []ChainKeepsFilters
  <1>1. Init => FiltersInput /\ ChainKeepsFilters
    <2>1. Filters \subseteq Seq(Filter({"f", "g", "h"}))
      <3> DEFINE S == [name : {"f", "g", "h"}, order : {0, 1}]
      <3>1. S \subseteq Filter({"f", "g", "h"})
        BY DEF Filter
      <3>2. Filters \subseteq Seq(S)
        BY BoundedIsSequence DEF Filters
      <3> HIDE DEF S
      <3> QED BY <3>1, <3>2
    <2> QED BY <2>1 DEF Init, FiltersInput, ChainKeepsFilters, Done
  <1>2. FiltersInput /\ ChainKeepsFilters /\ [Next]_vars => (FiltersInput /\ ChainKeepsFilters)'
    <2> SUFFICES ASSUME FiltersInput, ChainKeepsFilters, [Next]_vars
                 PROVE  (FiltersInput /\ ChainKeepsFilters)'
      OBVIOUS
    <2>1. CASE UNCHANGED vars
      BY <2>1 DEF vars, FiltersInput, ChainKeepsFilters, Done, Result
    <2>2. CASE Next /\ task # "filters"
      BY <2>2, OneOutput DEF FiltersInput, ChainKeepsFilters, Done
    <2>3. CASE Next /\ task = "filters"
      <3> DEFINE run == DoFilters(AddFilters(input.filters), input.failing)
      <3>1. output' = <<run>> /\ task' = task /\ input' = input
        BY <2>3, OneOutput, FiltersStep DEF BuildChain, Computes
      <3>2. Result' = run
        BY <3>1 DEF Result
      <3>3. Ordered(input.filters) =>
               /\ Tidy(run)
               /\ IF NamesOf(input.filters) \cap input.failing # {} THEN Last(run).name \in input.failing
                  ELSE NamesOf(run) = NamesOf(input.filters)
        BY <2>3, OrderedFiltersRun DEF FiltersInput
      <3> HIDE DEF run
      <3>4. FiltersInput'
        BY <2>3, <3>1 DEF FiltersInput
      <3>5. /\ {input'.filters[i].name : i \in DOMAIN input'.filters} = NamesOf(input.filters)
            /\ {Result'[i].name : i \in DOMAIN Result'} = NamesOf(run)
        BY <3>1, <3>2 DEF NamesOf
      <3>6. ChainKeepsFilters'
        BY <3>1, <3>2, <3>3, <3>5 DEF ChainKeepsFilters, Ordered, Tidy
      <3> QED BY <3>4, <3>6
    <2> QED BY <2>1, <2>2, <2>3
  <1> QED BY <1>1, <1>2, PTL DEF Spec
=============================================================================
