---------------------------- MODULE MultisigProofs ----------------------------
(***************************************************************************)
(* What is proved of the keys, for any number of parties and any width of  *)
(* a child index: a keystore gives its own key or an error, the iterator   *)
(* over a phrase gives the keys that build() gives, a signature from KMS   *)
(* is the remembered key's, whatever the alias names by then, every        *)
(* signature on a transaction is by the address that was asked for it,     *)
(* permissions allow what was granted, however they were read, and the     *)
(* client's weighing of the signatures forecasts the node's verdict.       *)
(***************************************************************************)
EXTENDS Multisig, FiniteSetTheorems, TLAPS

-------------------------------------------------------------------------------
(* Signatures.                                                             *)

(***************************************************************************)
(* A signature that a credential hands out recovers, over the hash that    *)
(* was to be signed, to the credential's own address: trial recovery turns *)
(* away what KMS made with another key or over another hash                *)
(* (sign_hash, sig_from_digest_bytes_trial_recovery).                      *)
(***************************************************************************)
THEOREM SignatureIsTheSigners ==
    ASSUME NEW key, NEW hash, NEW kms, NEW s \in {LocalSigner(key), AwsSigner(key)},
           SignHash(s, hash, kms).ok
    PROVE  Recover(SignHash(s, hash, kms).v, hash) = s.address
<1>1. CASE s = LocalSigner(key)
    BY <1>1 DEF LocalSigner, SignHash, SignHashSync, Ok, Signature, Recover
<1>2. CASE s = AwsSigner(key) /\ s # LocalSigner(key)
    <2>1. s.backend = "kms" /\ s.key = key /\ s.address = AddressOf(key)
        BY <1>2 DEF AwsSigner
    <2> DEFINE raw == DecodeSignature(kms.v)
    <2>2. kms.ok /\ SignHash(s, hash, kms) = TrialRecovery(raw, hash, key)
        BY <2>1 DEF SignHash
    <2> HIDE DEF raw
    <2>3. CheckCandidate(TrialRecovery(raw, hash, key).v, hash, key)
        BY <2>2 DEF TrialRecovery, Ok, Err
    <2> QED BY <2>1, <2>2, <2>3 DEF CheckCandidate
<1> QED BY <1>1, <1>2

-------------------------------------------------------------------------------
(* The keystore.                                                           *)

Ivs == {"good", "nothex", "short", "other"}
\* What damage does not reach: how the file was sealed.
Sealed(f) ==
    /\ f.sealed = [kdf |-> f.kdfparams, cost |-> "good", salt |-> "good", password |-> "right"]
    /\ f.iv \in Ivs

LEMMA EncryptSeals ==
    ASSUME NEW key, NEW kdf
    PROVE  Sealed(Encrypt(key, "right", kdf))
BY DEF Sealed, Encrypt, DerivedKey, Ivs

LEMMA DamageKeepsTheSeal ==
    ASSUME NEW key, NEW kdf, NEW field \in DOMAIN Damages, NEW v \in Damages[field]
    PROVE  Sealed([Encrypt(key, "right", kdf) EXCEPT ![field] = v])
<1> DEFINE f == Encrypt(key, "right", kdf)
           g == [f EXCEPT ![field] = v]
<1>1. field # "sealed" /\ field # "kdfparams" /\ (field = "iv" => v \in Ivs)
    BY DEF Damages, Ivs
<1>2. g.sealed = f.sealed /\ g.kdfparams = f.kdfparams /\ g.iv = IF field = "iv" THEN v ELSE f.iv
    BY <1>1 DEF Encrypt
<1> QED BY <1>1, <1>2, EncryptSeals DEF Sealed

LEMMA DecryptOfSealed ==
    ASSUME NEW f, NEW password, Sealed(f), DecryptFromFile(f, password).ok
    PROVE  password = "right" /\ (DecryptFromFile(f, password).v = f.key \/ f.iv = "other")
<1> DEFINE derived == DeriveKey(f, password)
<1>1. /\ DecryptFromFile(f, password) = Ok(AesCtr(f, derived.v))
      /\ f.iv # "nothex" /\ f.iv # "short"
      /\ derived.ok /\ MacMatches(f, derived.v)
    BY DEF DecryptFromFile, Decrypt, Err
<1>2. derived.v = f.sealed /\ f.ciphertext = "good"
    BY <1>1 DEF MacMatches
<1>3. derived = Ok(DerivedKey(f, password))
    BY <1>1 DEF DeriveKey, Err
<1>4. password = "right"
    BY <1>2, <1>3 DEF Sealed, DerivedKey, Ok
<1>5. f.iv = "good" => AesCtr(f, derived.v) = f.key
    BY <1>2 DEF AesCtr
<1> QED BY <1>1, <1>4, <1>5 DEF Sealed, Ivs, Ok

LEMMA DecryptOfPristine ==
    ASSUME NEW key, NEW kdf
    PROVE  DecryptFromFile(Encrypt(key, "right", kdf), "right").ok
<1> DEFINE f == Encrypt(key, "right", kdf)
<1>1. DeriveKey(f, "right") = Ok(f.sealed)
    BY DEF DeriveKey, Encrypt, DerivedKey
<1>2. MacMatches(f, f.sealed)
    BY DEF MacMatches, Encrypt
<1>3. /\ f.json = "good" /\ f.cipher = "good" /\ f.iv = "good" /\ f.ciphertext = "good"
      /\ f.mac = "good"
    BY DEF Encrypt
<1> HIDE DEF f
<1>4. DecryptFromFile(f, "right").ok
    BY <1>1, <1>2, <1>3 DEF DecryptFromFile, Decrypt, Ok
<1> QED BY <1>4 DEF f

\* The file on disk was sealed by encrypt_keystore, whatever became of it.
FileSealed == file # <<>> => Sealed(file[1])
KeystoreInv == FileSealed /\ KeystoreGivesItsKey

LEMMA KeystoreInit == Init => KeystoreInv
<1> SUFFICES ASSUME Init PROVE KeystoreInv
    OBVIOUS
<1>1. FileSealed
    BY EncryptSeals DEF Init, FileSealed
<1>2. KeystoreGivesItsKey
    BY DEF Init, KeystoreGivesItsKey, NoAnswer
<1> QED BY <1>1, <1>2 DEF KeystoreInv

\* What every operation but load leaves of the property: it answers something else.
OtherAnswer(a) == a.what # "keystore"

LEMMA OtherAnswersPass ==
    ASSUME OtherAnswer(answer')
    PROVE  KeystoreGivesItsKey'
BY DEF OtherAnswer, KeystoreGivesItsKey

LEMMA LoadKeystoreStep ==
    ASSUME FileSealed, NEW p \in Parties, LoadKeystore(p)
    PROVE  KeystoreInv'
<1>1. PICK password \in Passwords :
        answer' = [what |-> "keystore", result |-> DecryptFromFile(file[1], password),
                   file |-> file[1], password |-> password]
    BY DEF LoadKeystore
<1>2. Sealed(file[1]) /\ file' = <<>>
    BY DEF LoadKeystore, FileSealed
<1> DEFINE f == file[1]
           result == DecryptFromFile(f, password)
<1>3. result.ok => password = "right" /\ (result.v = f.key \/ f.iv = "other")
    BY <1>2, DecryptOfSealed
<1>4. password = "right" /\ f = Encrypt(f.key, "right", f.kdf) => result.ok
    BY DecryptOfPristine
<1> HIDE DEF f, result
<1>5. answer'.result = result /\ answer'.file = f /\ answer'.password = password
    BY <1>1 DEF f, result
<1>6. KeystoreGivesItsKey'
    BY <1>3, <1>4, <1>5 DEF KeystoreGivesItsKey
<1> QED BY <1>2, <1>6 DEF KeystoreInv, FileSealed

\* Handing over answers nothing, or an error.
LEMMA HandOverAnswers ==
    ASSUME NEW q, HandOver(q)
    PROVE  /\ answer' = NoAnswer \/ answer' = Failed
           /\ UNCHANGED <<wallet, loads, file, iter, alias, chain, known>>
BY Zenon DEF HandOver

LEMMA KeystoreStep == KeystoreInv /\ [Next]_vars => KeystoreInv'
<1> SUFFICES ASSUME KeystoreInv, [Next]_vars PROVE KeystoreInv'
    OBVIOUS
<1>a. FileSealed /\ KeystoreGivesItsKey
    BY DEF KeystoreInv
<1>b. ASSUME UNCHANGED file, OtherAnswer(answer') PROVE KeystoreInv'
    BY <1>a, <1>b, OtherAnswersPass DEF KeystoreInv, FileSealed
<1>1. ASSUME NEW p \in Parties, SaveKeystore(p) PROVE KeystoreInv'
    <2>1. PICK json \in {"good", "torn"} :
            file' = <<[Encrypt(Derived, "right", "scrypt") EXCEPT !.json = json]>>
        BY <1>1 DEF SaveKeystore
    <2>2. Sealed([Encrypt(Derived, "right", "scrypt") EXCEPT !.json = json])
        BY EncryptSeals DEF Sealed, Encrypt
    <2>3. OtherAnswer(answer')
        BY <1>1 DEF SaveKeystore, OtherAnswer, NoAnswer
    <2> QED BY <2>1, <2>2, <2>3, OtherAnswersPass DEF KeystoreInv, FileSealed
<1>2. ASSUME NEW p \in Parties, LoadKeystore(p) PROVE KeystoreInv'
    BY <1>a, <1>2, LoadKeystoreStep
<1>3. ASSUME NEW p \in Parties, NextSigner(p) PROVE KeystoreInv'
    BY <1>3, <1>b DEF NextSigner, OtherAnswer
<1>4. ASSUME NEW p \in Parties, LoadKms(p) PROVE KeystoreInv'
    BY <1>4, <1>b DEF LoadKms, OtherAnswer, NoAnswer, Failed
<1>5. ASSUME NEW p \in Parties, SetDefault(p) PROVE KeystoreInv'
    BY <1>5, <1>b DEF SetDefault, OtherAnswer, NoAnswer, Failed
<1>6. ASSUME NEW p \in Parties, BuildTransaction(p) PROVE KeystoreInv'
    <2>1. file' = <<>> /\ OtherAnswer(answer')
        BY <1>6 DEF BuildTransaction, OtherAnswer, NoAnswer
    <2> QED BY <2>1, OtherAnswersPass DEF KeystoreInv, FileSealed
<1>7. ASSUME NEW p \in Parties, HandOver(p) PROVE KeystoreInv'
    BY <1>7, <1>b, HandOverAnswers DEF OtherAnswer, NoAnswer, Failed
<1>8. ASSUME NEW p \in Parties, SignMessage(p) PROVE KeystoreInv'
    BY <1>8, <1>b DEF SignMessage, OtherAnswer, Failed
<1>9. CASE Damage
    <2>1. PICK kdf \in {"scrypt", "pbkdf2"} : file[1] = Encrypt(file[1].key, "right", kdf)
        BY <1>9 DEF Damage
    <2>2. PICK field \in DOMAIN Damages : \E v \in Damages[field] : file' = <<[file[1] EXCEPT ![field] = v]>>
        BY <1>9 DEF Damage
    <2>3. Sealed(file'[1])
        BY <2>1, <2>2, DamageKeepsTheSeal
    <2>4. OtherAnswer(answer')
        BY <1>9 DEF Damage, OtherAnswer, NoAnswer
    <2> QED BY <2>3, <2>4, OtherAnswersPass DEF KeystoreInv, FileSealed
<1>10. CASE NewIter
    BY <1>10, <1>b DEF NewIter, OtherAnswer, NoAnswer
<1>11. CASE Repoint
    BY <1>11, <1>b DEF Repoint, OtherAnswer, NoAnswer
<1>12. CASE UpdatePermissions
    BY <1>12, <1>b DEF UpdatePermissions, OtherAnswer, NoAnswer, Failed
<1>13. CASE AmendPermissions
    BY <1>13, <1>b DEF AmendPermissions, OtherAnswer, NoAnswer
<1>14. CASE GetAccount
    BY <1>14, <1>b DEF GetAccount, OtherAnswer, NoAnswer
<1>15. CASE Sign
    BY <1>15, <1>b DEF Sign, OtherAnswer, NoAnswer, Failed
<1>16. CASE AskWeight
    BY <1>16, <1>b DEF AskWeight, OtherAnswer
<1>17. CASE Broadcast
    BY <1>17, <1>b DEF Broadcast, OtherAnswer
<1>18. CASE UNCHANGED vars
    BY <1>a, <1>18 DEF vars, KeystoreInv, FileSealed, KeystoreGivesItsKey
<1> QED
    BY <1>1, <1>2, <1>3, <1>4, <1>5, <1>6, <1>7, <1>8, <1>9, <1>10, <1>11, <1>12, <1>13, <1>14, <1>15,
       <1>16, <1>17, <1>18 DEF Next

(***************************************************************************)
(* A keystore file gives the key that was put into it or an error, for a   *)
(* wrong password, a file cut short and a file with a damaged field alike; *)
(* and an untouched file opens (encrypt_keystore, decrypt_keystore).       *)
(***************************************************************************)
THEOREM KeystoreGivesItsKeyHolds == Spec => []KeystoreGivesItsKey
<1>1. KeystoreInv => KeystoreGivesItsKey
    BY DEF KeystoreInv
<1> QED BY <1>1, KeystoreInit, KeystoreStep, PTL DEF Spec

-------------------------------------------------------------------------------
(* The iterator over the keys of a phrase.                                 *)

Parent(path) == IF path = <<>> THEN <<>> ELSE SubSeq(path, 1, Len(path) - 1)
Capped(index) == IF index < MaxIndex THEN index ELSE MaxIndex
\* Where the iterator stands after that many calls of next().
Standing(phrase, path, taken) ==
    IF phrase THEN Active(Key("hd", Parent(path)), Capped(StartOf(path) + taken))
    ELSE IF taken = 0 THEN Failing("MissingPhrase") ELSE Ended
Begun(it) ==
    /\ DOMAIN it = {"at", "phrase", "path", "taken"}
    /\ it.phrase \in BOOLEAN /\ it.path \in Paths /\ it.taken \in Nat
    /\ it.at = Standing(it.phrase, it.path, it.taken)
\* What the call of next() that stands at taken gives.
Item(phrase, path, taken) ==
    LET index == StartOf(path) + taken
    IN IF phrase
       THEN IF index < MaxIndex THEN <<Build(TRUE, AtIndex(path, index))>> ELSE <<>>
       ELSE IF taken = 0 THEN <<Build(FALSE, path)>> ELSE <<>>

LEMMA ComponentOf ==
    ASSUME NEW S, NEW seq \in Seq(S), NEW i \in 1..Len(seq)
    PROVE  seq[i] \in S
OBVIOUS

LEMMA PathComponents ==
    ASSUME NEW path \in Paths, path # <<>>
    PROVE  /\ path \in Seq(Nat) /\ Len(path) \in Nat \ {0} /\ DOMAIN path = 1..Len(path)
           /\ path[Len(path)] \in Nat /\ path[Len(path)] <= MaxIndex
<1> DEFINE S == 0..MaxIndex
<1>1. path \in Seq(S)
    BY PathsAssumption
<1>2. \A x \in S : x \in Nat /\ x <= MaxIndex
    BY MaxIndexAssumption
<1> HIDE DEF S
<1>3. Len(path) \in Nat \ {0} /\ DOMAIN path = 1..Len(path)
    BY <1>1
<1>4. \A i \in 1..Len(path) : path[i] \in Nat
    BY <1>1, <1>2, ComponentOf
<1>5. path \in Seq(Nat)
    BY <1>1, <1>3, <1>4
<1>6. path[Len(path)] \in S
    BY <1>1, <1>3, ComponentOf
<1> QED BY <1>2, <1>3, <1>5, <1>6

LEMMA StartIs ==
    ASSUME NEW path \in Paths
    PROVE  StartOf(path) \in Nat /\ StartOf(path) <= MaxIndex
<1>1. CASE path = <<>>
    BY <1>1, MaxIndexAssumption DEF StartOf
<1>2. CASE path # <<>>
    <2>1. path[Len(path)] \in Nat /\ path[Len(path)] <= MaxIndex
        BY <1>2, PathComponents
    <2> QED BY <1>2, <2>1 DEF StartOf
<1> QED BY <1>1, <1>2

\* A parent's child has the path with its last component replaced.
LEMMA ChildOfOne ==
    ASSUME NEW path \in Paths, path # <<>>, NEW index \in Nat
    PROVE  Append(Parent(path), index) = [path EXCEPT ![Len(path)] = index]
<1> DEFINE n == Len(path)
<1>1. path \in Seq(Nat) /\ n \in Nat \ {0} /\ DOMAIN path = 1..n
    BY PathComponents
<1>2. /\ Parent(path) \in Seq(Nat) /\ Len(Parent(path)) = n - 1
      /\ \A i \in 1..n - 1 : Parent(path)[i] = path[i]
    BY <1>1 DEF Parent
<1> DEFINE a == Append(Parent(path), index)
           b == [path EXCEPT ![n] = index]
<1>3. a \in Seq(Nat) /\ Len(a) = n /\ a[n] = index /\ \A i \in 1..n - 1 : a[i] = path[i]
    <2> HIDE DEF n
    <2>1. a \in Seq(Nat) /\ Len(a) = n
        BY <1>1, <1>2
    <2>2. a[n] = index
        BY <1>1, <1>2
    <2>3. \A i \in 1..n - 1 : a[i] = path[i]
        BY <1>1, <1>2
    <2> QED BY <2>1, <2>2, <2>3
<1>4. b \in Seq(Nat) /\ Len(b) = n /\ b[n] = index /\ \A i \in 1..n - 1 : b[i] = path[i]
    <2>1. b \in [1..n -> Nat] /\ b[n] = index /\ \A i \in 1..n - 1 : b[i] = path[i]
        <3> HIDE DEF n
        <3>1. path \in [1..n -> Nat] /\ n \in 1..n
            BY <1>1 DEF n
        <3> QED BY <1>1, <3>1
    <2> HIDE DEF b, n
    <2> QED BY <1>1, <2>1
<1> HIDE DEF a, b
<1>5. \A i \in 1..n : a[i] = b[i]
    BY <1>1, <1>3, <1>4
<1>6. a = b
    BY <1>3, <1>4, <1>5
<1> QED BY <1>6 DEF a, b

LEMMA ChildOfParent ==
    ASSUME NEW path \in Paths, NEW index \in Nat
    PROVE  Append(Parent(path), index) = AtIndex(path, index)
<1>1. CASE path = <<>>
    BY <1>1 DEF Parent, AtIndex
<1>2. CASE path # <<>>
    <2>1. Append(Parent(path), index) = [path EXCEPT ![Len(path)] = index]
        BY <1>2, ChildOfOne
    <2> QED BY <1>2, <2>1 DEF AtIndex
<1> QED BY <1>1, <1>2

LEMMA ParentIsBuilt ==
    ASSUME NEW path \in Paths
    PROVE  BuildParentKey(TRUE, path) = Ok(Key("hd", Parent(path)))
<1>1. CASE path = <<>>
    <2>1. ~(Len(path) > 1) /\ Parent(path) = <<>>
        BY <1>1 DEF Parent
    <2> QED BY <2>1 DEF BuildParentKey, Master
<1>2. CASE path # <<>>
    <2>1. path \in Seq(Nat) /\ Len(path) \in Nat \ {0}
        BY <1>2, PathComponents
    <2>2. CASE Len(path) > 1
        BY <1>2, <2>2 DEF BuildParentKey, Parent
    <2>3. CASE Len(path) = 1
        <3>1. Parent(path) = <<>>
            BY <1>2, <2>1, <2>3 DEF Parent
        <3> QED BY <2>3, <3>1 DEF BuildParentKey, Master
    <2>4. \A n \in Nat \ {0} : n > 1 \/ n = 1
        OBVIOUS
    <2>5. Len(path) > 1 \/ Len(path) = 1
        BY <2>1, <2>4, Zenon
    <2> QED BY <2>2, <2>3, <2>5
<1> QED BY <1>1, <1>2

LEMMA IntoIterStands ==
    ASSUME NEW phrase \in BOOLEAN, NEW path \in Paths
    PROVE  IntoIter(phrase, path) = Standing(phrase, path, 0)
<1>1. CASE ~phrase
    BY <1>1 DEF IntoIter, BuildParentKey, Err, Standing
<1>2. CASE phrase
    <2>1. BuildParentKey(phrase, path) = Ok(Key("hd", Parent(path)))
        BY <1>2, ParentIsBuilt
    <2>2. (IF path = <<>> THEN 0 ELSE Last(path)) = StartOf(path)
        BY DEF Last, StartOf
    <2>3. StartOf(path) = Capped(StartOf(path) + 0)
        BY StartIs, MaxIndexAssumption DEF Capped
    <2>4. IntoIter(phrase, path) = Active(Key("hd", Parent(path)), StartOf(path))
        BY <2>1, <2>2 DEF IntoIter, Ok
    <2> QED BY <1>2, <2>3, <2>4 DEF Standing
<1> QED BY <1>1, <1>2

LEMMA IterNextStands ==
    ASSUME NEW phrase \in BOOLEAN, NEW path \in Paths, NEW taken \in Nat
    PROVE  LET step == IterNext(Standing(phrase, path, taken))
           IN /\ step.item = Item(phrase, path, taken)
              /\ step.rest = Standing(phrase, path, taken + 1)
<1> DEFINE index == StartOf(path) + taken
<1>1. index \in Nat /\ StartOf(path) \in Nat
    BY StartIs
<1>2. CASE ~phrase
    <2>1. taken + 1 # 0
        OBVIOUS
    <2>2. Standing(phrase, path, taken + 1) = Ended
        BY <1>2, <2>1 DEF Standing
    <2>3. CASE taken = 0
        BY <1>2, <2>2, <2>3 DEF Standing, IterNext, Failing, Item, Build
    <2>4. CASE taken # 0
        BY <1>2, <2>2, <2>4 DEF Standing, IterNext, Ended, Item
    <2> QED BY <2>3, <2>4
<1>3. CASE phrase /\ index < MaxIndex
    <2> DEFINE parent == Key("hd", Parent(path))
               at == Active(parent, index)
    <2>1. Standing(phrase, path, taken) = at
        BY <1>3 DEF Standing, Capped
    <2>2. IterNext(at) = [item |-> <<Ok(DeriveChild(parent, index))>>, rest |-> Active(parent, index + 1)]
        <3>1. at.state = "active" /\ at.next = index /\ at.key = parent /\ index # MaxIndex
            BY <1>1, <1>3, MaxIndexAssumption DEF Active
        <3> HIDE DEF at, parent, index
        <3> QED BY <3>1 DEF IterNext
    <2>3. DeriveChild(parent, index) = Key("hd", AtIndex(path, index))
        <3>1. Append(Parent(path), index) = AtIndex(path, index)
            BY <1>1, ChildOfParent
        <3> QED BY <3>1 DEF DeriveChild, Key
    <2>4. Item(phrase, path, taken) = <<Ok(DeriveChild(parent, index))>>
        BY <1>3, <2>3 DEF Item, Build
    <2>5. Standing(phrase, path, taken + 1) = Active(parent, index + 1)
        <3>1. StartOf(path) + (taken + 1) = index + 1
            BY <1>1
        <3>2. Capped(index + 1) = index + 1
            BY <1>1, <1>3, MaxIndexAssumption DEF Capped
        <3> QED BY <1>3, <3>1, <3>2 DEF Standing
    <2> HIDE DEF at, parent, index
    <2> QED BY <2>1, <2>2, <2>4, <2>5
<1>4. CASE phrase /\ ~(index < MaxIndex)
    <2> DEFINE at == Active(Key("hd", Parent(path)), MaxIndex)
    <2>1. Standing(phrase, path, taken) = at
        BY <1>4 DEF Standing, Capped
    <2>2. Standing(phrase, path, taken + 1) = at
        <3>1. StartOf(path) + (taken + 1) = index + 1
            BY <1>1
        <3>2. Capped(index + 1) = MaxIndex
            BY <1>1, <1>4, MaxIndexAssumption DEF Capped
        <3> QED BY <1>4, <3>1, <3>2 DEF Standing
    <2>3. IterNext(at) = [item |-> <<>>, rest |-> at]
        BY DEF IterNext, Active
    <2>4. Item(phrase, path, taken) = <<>>
        BY <1>4 DEF Item
    <2> QED BY <2>1, <2>2, <2>3, <2>4
<1> QED BY <1>2, <1>3, <1>4

IterBegun == iter # <<>> => Begun(iter[1])
IterInv == IterBegun /\ IterationAgreesWithBuild

\* What every operation but next leaves of the property: it answers something else.
NotIterated(a) == a.what # "iterated"

LEMMA NotIteratedPasses ==
    ASSUME NotIterated(answer')
    PROVE  IterationAgreesWithBuild'
BY DEF NotIterated, IterationAgreesWithBuild

LEMMA NewIterStep ==
    ASSUME NewIter
    PROVE  IterInv'
<1>1. PICK phrase \in BOOLEAN, path \in Paths :
        iter' = <<[at |-> IntoIter(phrase, path), phrase |-> phrase, path |-> path, taken |-> 0]>>
    BY DEF NewIter
<1>2. IntoIter(phrase, path) = Standing(phrase, path, 0)
    BY IntoIterStands
<1>3. Begun(iter'[1])
    <2>1. iter'[1] = [at |-> IntoIter(phrase, path), phrase |-> phrase, path |-> path, taken |-> 0]
        BY <1>1
    <2>2. DOMAIN iter'[1] = {"at", "phrase", "path", "taken"}
        BY <2>1
    <2>3. /\ iter'[1].at = IntoIter(phrase, path) /\ iter'[1].phrase = phrase
          /\ iter'[1].path = path /\ iter'[1].taken = 0
        BY <2>1
    <2> QED BY <1>2, <2>2, <2>3 DEF Begun
<1>4. NotIterated(answer')
    BY DEF NewIter, NotIterated, NoAnswer
<1> QED BY <1>3, <1>4, NotIteratedPasses DEF IterInv, IterBegun

LEMMA NextSignerStep ==
    ASSUME IterBegun, NEW p \in Parties, NextSigner(p)
    PROVE  IterInv'
<1> DEFINE it == iter[1]
           step == IterNext(it.at)
<1>1. Begun(it)
    BY DEF IterBegun, NextSigner
<1>2. iter' = <<>> \/ iter' = <<[it EXCEPT !.at = step.rest, !.taken = @ + 1]>>
    BY DEF NextSigner
<1>3. answer' = [what |-> "iterated", item |-> step.item, iter |-> it]
    BY DEF NextSigner
<1>4. /\ step.item = Item(it.phrase, it.path, it.taken)
      /\ step.rest = Standing(it.phrase, it.path, it.taken + 1)
    BY <1>1, IterNextStands DEF Begun
<1> HIDE DEF step, it
<1>5. IterBegun'
    <2>1. CASE iter' = <<>>
        BY <2>1 DEF IterBegun
    <2>2. CASE iter' = <<[it EXCEPT !.at = step.rest, !.taken = @ + 1]>>
        <3>1. DOMAIN iter'[1] = {"at", "phrase", "path", "taken"}
            BY <1>1, <2>2 DEF Begun
        <3>2. /\ iter'[1].at = step.rest /\ iter'[1].phrase = it.phrase
              /\ iter'[1].path = it.path /\ iter'[1].taken = it.taken + 1
            BY <1>1, <2>2 DEF Begun
        <3>3. Begun(iter'[1])
            BY <1>1, <1>4, <3>1, <3>2 DEF Begun
        <3> QED BY <3>3 DEF IterBegun
    <2> QED BY <1>2, <2>1, <2>2
<1>6. IterationAgreesWithBuild'
    <2>1. answer'.iter = it /\ answer'.item = step.item
        BY <1>3
    <2>2. PICK item, built : item = step.item /\ built = Build(TRUE, AtIndex(it.path, StartOf(it.path) + it.taken))
        OBVIOUS
    <2>3. it.phrase => item = IF StartOf(it.path) + it.taken < MaxIndex THEN <<built>> ELSE <<>>
        BY <1>4, <2>2 DEF Item
    <2>4. ~it.phrase => item = IF it.taken = 0 THEN <<Build(FALSE, it.path)>> ELSE <<>>
        BY <1>4, <2>2 DEF Item
    <2>5. <<built>> # <<>>
        OBVIOUS
    <2> QED BY <2>1, <2>2, <2>3, <2>4, <2>5, Zenon DEF IterationAgreesWithBuild
<1> QED BY <1>5, <1>6 DEF IterInv

LEMMA IterStep == IterInv /\ [Next]_vars => IterInv'
<1> SUFFICES ASSUME IterInv, [Next]_vars PROVE IterInv'
    OBVIOUS
<1>a. IterBegun /\ IterationAgreesWithBuild
    BY DEF IterInv
<1>b. ASSUME UNCHANGED iter, NotIterated(answer') PROVE IterInv'
    BY <1>a, <1>b, NotIteratedPasses DEF IterInv, IterBegun
<1>1. ASSUME NEW p \in Parties, SaveKeystore(p) PROVE IterInv'
    BY <1>1, <1>b DEF SaveKeystore, NotIterated, NoAnswer
<1>2. ASSUME NEW p \in Parties, LoadKeystore(p) PROVE IterInv'
    BY <1>2, <1>b DEF LoadKeystore, NotIterated
<1>3. ASSUME NEW p \in Parties, NextSigner(p) PROVE IterInv'
    BY <1>a, <1>3, NextSignerStep
<1>4. ASSUME NEW p \in Parties, LoadKms(p) PROVE IterInv'
    BY <1>4, <1>b DEF LoadKms, NotIterated, NoAnswer, Failed
<1>5. ASSUME NEW p \in Parties, SetDefault(p) PROVE IterInv'
    BY <1>5, <1>b DEF SetDefault, NotIterated, NoAnswer, Failed
<1>6. ASSUME NEW p \in Parties, BuildTransaction(p) PROVE IterInv'
    <2>1. iter' = <<>> /\ NotIterated(answer')
        BY <1>6 DEF BuildTransaction, NotIterated, NoAnswer
    <2> QED BY <2>1, NotIteratedPasses DEF IterInv, IterBegun
<1>7. ASSUME NEW p \in Parties, HandOver(p) PROVE IterInv'
    BY <1>7, <1>b, HandOverAnswers DEF NotIterated, NoAnswer, Failed
<1>8. ASSUME NEW p \in Parties, SignMessage(p) PROVE IterInv'
    BY <1>8, <1>b DEF SignMessage, NotIterated, Failed
<1>9. CASE Damage
    BY <1>9, <1>b DEF Damage, NotIterated, NoAnswer
<1>10. CASE NewIter
    BY <1>10, NewIterStep
<1>11. CASE Repoint
    BY <1>11, <1>b DEF Repoint, NotIterated, NoAnswer
<1>12. CASE UpdatePermissions
    BY <1>12, <1>b DEF UpdatePermissions, NotIterated, NoAnswer, Failed
<1>13. CASE AmendPermissions
    BY <1>13, <1>b DEF AmendPermissions, NotIterated, NoAnswer
<1>14. CASE GetAccount
    BY <1>14, <1>b DEF GetAccount, NotIterated, NoAnswer
<1>15. CASE Sign
    BY <1>15, <1>b DEF Sign, NotIterated, NoAnswer, Failed
<1>16. CASE AskWeight
    BY <1>16, <1>b DEF AskWeight, NotIterated
<1>17. CASE Broadcast
    BY <1>17, <1>b DEF Broadcast, NotIterated
<1>18. CASE UNCHANGED vars
    BY <1>a, <1>18 DEF vars, IterInv, IterBegun, IterationAgreesWithBuild
<1> QED
    BY <1>1, <1>2, <1>3, <1>4, <1>5, <1>6, <1>7, <1>8, <1>9, <1>10, <1>11, <1>12, <1>13, <1>14, <1>15,
       <1>16, <1>17, <1>18 DEF Next

(***************************************************************************)
(* Whatever the path's length and wherever it starts, whatever next()      *)
(* yields is the key that build() gives for the path with its last index   *)
(* counted on, it yields one at every index below the last of all, and     *)
(* without a phrase it says so once.  Nothing is said of the last index,   *)
(* where it yields nothing (into_iter, build_parent_key, next).            *)
(***************************************************************************)
THEOREM IterationAgreesWithBuildHolds == Spec => []IterationAgreesWithBuild
<1>1. Init => IterInv
    BY DEF Init, IterInv, IterBegun, IterationAgreesWithBuild, NoAnswer
<1>2. IterInv => IterationAgreesWithBuild
    BY DEF IterInv
<1> QED BY <1>1, <1>2, IterStep, PTL DEF Spec

-------------------------------------------------------------------------------
(* Sequences as functions: what \o and <<...>> do, whatever they hold.     *)

IsSeq(q) == \E n \in Nat : DOMAIN q = 1..n /\ q = [i \in 1..n |-> q[i]]

LEMMA SeqIsSeq ==
    ASSUME NEW S, NEW q \in Seq(S)
    PROVE  IsSeq(q) /\ Len(q) \in Nat /\ DOMAIN q = 1..Len(q)
BY DEF IsSeq

LEMMA IsSeqInSeq ==
    ASSUME NEW q, IsSeq(q)
    PROVE  q \in Seq({q[i] : i \in DOMAIN q}) /\ Len(q) \in Nat /\ DOMAIN q = 1..Len(q)
<1>1. PICK n \in Nat : DOMAIN q = 1..n /\ q = [i \in 1..n |-> q[i]]
    BY DEF IsSeq
<1> DEFINE S == {q[i] : i \in DOMAIN q}
<1>2. \A i \in 1..n : q[i] \in S
    BY <1>1
<1> HIDE DEF S
<1>3. q \in [1..n -> S]
    BY <1>1, <1>2
<1>4. q \in Seq(S)
    BY <1>3
<1> QED BY <1>4 DEF S

\* z is q and then r, which have lengths a and b.
Joined(z, q, a, r, b) ==
    /\ IsSeq(z) /\ Len(z) = a + b
    /\ \A i \in 1..a : z[i] = q[i]
    /\ \A i \in a + 1..a + b : z[i] = r[i - a]

LEMMA ConcatIsSeq ==
    ASSUME NEW q, IsSeq(q), NEW r, IsSeq(r)
    PROVE  Joined(q \o r, q, Len(q), r, Len(r))
<1> DEFINE S == {q[i] : i \in DOMAIN q}
           T == {r[i] : i \in DOMAIN r}
           U == S \cup T
<1>1. q \in Seq(S) /\ r \in Seq(T)
    BY IsSeqInSeq
<1> HIDE DEF S, T
<1>2. q \in Seq(U) /\ r \in Seq(U)
    BY <1>1
<1> HIDE DEF U
<1>3. q \o r \in Seq(U) /\ Len(q \o r) = Len(q) + Len(r)
    BY <1>2
<1>4. /\ \A i \in 1..Len(q) : (q \o r)[i] = q[i]
      /\ \A i \in Len(q) + 1..Len(q) + Len(r) : (q \o r)[i] = r[i - Len(q)]
    BY <1>2
<1> QED BY <1>3, <1>4, SeqIsSeq DEF Joined

LEMMA FunctionIsSeq ==
    ASSUME NEW n \in Nat, NEW q, DOMAIN q = 1..n, q = [i \in 1..n |-> q[i]]
    PROVE  IsSeq(q) /\ Len(q) = n
<1>1. IsSeq(q)
    BY DEF IsSeq
<1>2. Len(q) = n
    BY <1>1, IsSeqInSeq
<1> QED BY <1>1, <1>2

-------------------------------------------------------------------------------
(* Who signed.                                                             *)

\* The keys that come into wallets, and the ones that KMS may sign with.
Held == {Own, Derived, Kms1, Kms2}
KmsKeys == {Kms1, Kms2}
\* A signature by that key over that hash, as RecoverableSignature holds it.
IsSignature(sig, key, hash) ==
    /\ DOMAIN sig = {"key", "hash", "y", "s", "v"}
    /\ sig.key = key /\ sig.hash = hash /\ sig.v \in {0, 1} /\ sig.y = sig.v /\ sig.s = "low"

LEMMA KeysAreKnown ==
    /\ \A key \in Held : key # Nobody /\ key # Garbled
    /\ Tools # Nobody
BY DEF Held, Own, Derived, Kms1, Kms2, Tools, Nobody, Garbled, Key

LEMMA AddressesDiffer ==
    ASSUME NEW j, NEW k, AddressOf(j) = AddressOf(k)
    PROVE  j = k
<1>1. AddressOf(j).of = j /\ AddressOf(k).of = k
    BY DEF AddressOf
<1> QED BY <1>1

LEMMA SignatureRecovers ==
    ASSUME NEW sig, NEW key, NEW hash, IsSignature(sig, key, hash)
    PROVE  /\ Recover(sig, hash) = AddressOf(key)
           /\ \A other : other # hash => Recover(sig, other) = AddressOf(Nobody)
BY DEF IsSignature, Recover

\* Trial recovery gives the remembered key's signature over the hash or none.
LEMMA TrialRecoveryIs ==
    ASSUME NEW sig, NEW key \in Held, NEW hash,
           DOMAIN sig = {"key", "hash", "y", "s", "v"}, sig.s = "low",
           TrialRecovery(sig, hash, key).ok
    PROVE  IsSignature(TrialRecovery(sig, hash, key).v, key, hash)
<1>1. ASSUME NEW v \in {0, 1}, CheckCandidate([sig EXCEPT !.v = v], hash, key)
      PROVE  IsSignature([sig EXCEPT !.v = v], key, hash)
    <2> DEFINE c == [sig EXCEPT !.v = v]
    <2>1. DOMAIN c = DOMAIN sig /\ c.key = sig.key /\ c.hash = sig.hash /\ c.y = sig.y /\ c.s = sig.s
          /\ c.v = v
        OBVIOUS
    <2> HIDE DEF c
    <2>2. Recover(c, hash) = AddressOf(key)
        BY <1>1 DEF CheckCandidate, c
    <2>3. c.hash = hash /\ c.v = c.y /\ c.key = key
        BY <2>2, AddressesDiffer, KeysAreKnown DEF Recover
    <2>4. IsSignature(c, key, hash)
        BY <2>1, <2>3 DEF IsSignature
    <2> QED BY <2>4 DEF c
<1>2. CASE CheckCandidate([sig EXCEPT !.v = 0], hash, key)
    <2>1. TrialRecovery(sig, hash, key).v = [sig EXCEPT !.v = 0]
        BY <1>2 DEF TrialRecovery, Ok
    <2> QED BY <1>1, <1>2, <2>1
<1>3. CASE ~CheckCandidate([sig EXCEPT !.v = 0], hash, key)
    <2>1. CheckCandidate([sig EXCEPT !.v = 1], hash, key)
        BY <1>3 DEF TrialRecovery, Err
    <2>2. TrialRecovery(sig, hash, key).v = [sig EXCEPT !.v = 1]
        BY <1>3, <2>1 DEF TrialRecovery, Ok
    <2> QED BY <1>1, <2>1, <2>2
<1> QED BY <1>2, <1>3

LEMMA SignHashIs ==
    ASSUME NEW key \in Held, NEW c \in {LocalSigner(key), AwsSigner(key)}, NEW hash,
           NEW aliasKey \in KmsKeys, NEW kms \in KmsAnswers(aliasKey, hash), SignHash(c, hash, kms).ok
    PROVE  IsSignature(SignHash(c, hash, kms).v, key, hash)
<1>1. c.key = key /\ (c.backend = "local" \/ c.backend = "kms")
    BY DEF LocalSigner, AwsSigner
<1>2. CASE c.backend = "local"
    <2>1. SignHash(c, hash, kms).v = Signature(key, hash, Parity(key), "low", Parity(key))
        BY <1>1, <1>2 DEF SignHash, SignHashSync, Ok
    <2>2. Parity(key) \in {0, 1}
        BY DEF Parity
    <2> QED BY <2>1, <2>2 DEF Signature, IsSignature
<1>3. CASE c.backend = "kms"
    <2> DEFINE raw == DecodeSignature(kms.v)
    <2>1. kms.ok /\ SignHash(c, hash, kms) = TrialRecovery(raw, hash, key)
        BY <1>1, <1>3 DEF SignHash
    <2>2. PICK y \in {0, 1}, t \in {"low", "high"} : kms = Ok(Signature(aliasKey, hash, y, t, 0))
        BY <2>1 DEF KmsAnswers, Err
    <2>3. kms.v = Signature(aliasKey, hash, y, t, 0)
        BY <2>2 DEF Ok
    <2>4. DOMAIN raw = {"key", "hash", "y", "s", "v"} /\ raw.s = "low"
        BY <2>3 DEF DecodeSignature, Signature
    <2> HIDE DEF raw
    <2> QED BY <2>1, <2>4, TrialRecoveryIs
<1> QED BY <1>1, <1>2, <1>3

\* A signature comes out of its bytes as it went in, in either form of v.
LEMMA BytesKeepTheSignature ==
    ASSUME NEW sig, NEW key, NEW hash, IsSignature(sig, key, hash),
           NEW bytes \in {ToBytes(sig), ToLegacyBytes(sig)}
    PROVE  FromBytes(bytes).ok /\ IsSignature(FromBytes(bytes).v, key, hash)
<1>1. FromBytes(bytes) = Ok([sig EXCEPT !.v = sig.v])
    <2>1. sig.v = 0 \/ sig.v = 1
        BY DEF IsSignature
    <2>2. bytes.len = 65 /\ bytes.sig = sig /\ (bytes.v = sig.v \/ bytes.v = sig.v + 27)
        BY DEF ToBytes, ToLegacyBytes, Bytes
    <2>3. CASE bytes.v = sig.v
        BY <2>1, <2>2, <2>3 DEF FromBytes
    <2>4. CASE bytes.v = sig.v + 27
        <3>1. bytes.v \in {27, 28} /\ bytes.v \notin {0, 1} /\ bytes.v - 27 = sig.v
            BY <2>1, <2>4
        <3> QED BY <2>2, <3>1 DEF FromBytes
    <2> QED BY <2>2, <2>3, <2>4
<1>2. IsSignature([sig EXCEPT !.v = sig.v], key, hash)
    BY DEF IsSignature
<1> QED BY <1>1, <1>2 DEF Ok

-------------------------------------------------------------------------------
(* Each key once.                                                          *)

\* Sets of places in a list of one or two, in order.
LEMMA AscendingNone == Ascending({}) = <<>>
<1>1. Cardinality({}) = 0
    BY FS_EmptySet
<1>2. \A f \in [1..0 -> {}] : f = <<>>
    OBVIOUS
<1>3. <<>> \in [1..0 -> {}] /\ \A j, k \in DOMAIN <<>> : j < k => <<>>[j] < <<>>[k]
    OBVIOUS
<1> QED BY <1>1, <1>2, <1>3 DEF Ascending

LEMMA AscendingOne == \A x \in Nat : Ascending({x}) = <<x>>
<1> SUFFICES ASSUME NEW x \in Nat PROVE Ascending({x}) = <<x>>
    OBVIOUS
<1>1. Cardinality({x}) = 1
    BY FS_Singleton
<1>2. \A f \in [1..1 -> {x}] : f = <<x>>
    OBVIOUS
<1>3. <<x>> \in [1..1 -> {x}] /\ \A j, k \in DOMAIN <<x>> : j < k => <<x>>[j] < <<x>>[k]
    OBVIOUS
<1> QED BY <1>1, <1>2, <1>3 DEF Ascending

LEMMA AscendingTwo == Ascending({1, 2}) = <<1, 2>>
<1>1. Cardinality({1, 2}) = 2
    <2>1. IsFiniteSet({1}) /\ Cardinality({1}) = 1
        BY FS_Singleton
    <2>2. Cardinality({1} \cup {2}) = IF 2 \in {1} THEN Cardinality({1}) ELSE Cardinality({1}) + 1
        BY <2>1, FS_AddElement, Zenon
    <2>3. {1, 2} = {1} \cup {2} /\ 2 \notin {1}
        OBVIOUS
    <2> QED BY <2>1, <2>2, <2>3
<1> DEFINE Is(f) == \A j, k \in DOMAIN f : j < k => f[j] < f[k]
<1>2. ASSUME NEW f \in [1..2 -> {1, 2}], Is(f) PROVE f = <<1, 2>>
    <2>1. f[1] < f[2] /\ f[1] \in {1, 2} /\ f[2] \in {1, 2}
        BY <1>2
    <2> QED BY <2>1
<1>3. <<1, 2>> \in [1..2 -> {1, 2}] /\ Is(<<1, 2>>)
    <2>1. DOMAIN <<1, 2>> = {1, 2} /\ <<1, 2>>[1] = 1 /\ <<1, 2>>[2] = 2
        OBVIOUS
    <2> QED BY <2>1
<1>4. Ascending({1, 2}) = CHOOSE f \in [1..2 -> {1, 2}] : Is(f)
    BY <1>1 DEF Ascending
<1> HIDE DEF Is
<1> QED BY <1>2, <1>3, <1>4, Zenon

LEMMA FirstsOfOne ==
    ASSUME NEW a
    PROVE  Firsts(<<a>>) = <<1>>
<1> DEFINE keys == <<a>>
           new == {i \in DOMAIN keys : \A j \in 1..i - 1 : keys[j] # keys[i]}
<1>1. new = {1}
    OBVIOUS
<1>2. Firsts(keys) = Ascending(new)
    BY DEF Firsts
<1> QED BY <1>1, <1>2, AscendingOne

LEMMA FirstsOfTwo ==
    ASSUME NEW a, NEW b
    PROVE  Firsts(<<a, b>>) = IF a = b THEN <<1>> ELSE <<1, 2>>
<1> DEFINE keys == <<a, b>>
           new == {i \in DOMAIN keys : \A j \in 1..i - 1 : keys[j] # keys[i]}
<1>0. DOMAIN keys = {1, 2} /\ keys[1] = a /\ keys[2] = b
    OBVIOUS
<1>1. new = IF a = b THEN {1} ELSE {1, 2}
    <2> HIDE DEF keys
    <2>1. \A j \in 1..1 - 1 : FALSE
        OBVIOUS
    <2>2. \A j : j \in 1..2 - 1 <=> j = 1
        OBVIOUS
    <2>3. 1 \in new
        BY <1>0, <2>1
    <2>4. 2 \in new <=> a # b
        BY <1>0, <2>2
    <2>5. \A i \in new : i = 1 \/ i = 2
        BY <1>0
    <2> HIDE DEF new
    <2> QED BY <2>3, <2>4, <2>5
<1>2. Firsts(keys) = Ascending(new)
    BY DEF Firsts
<1> HIDE DEF new
<1> QED BY <1>1, <1>2, AscendingOne, AscendingTwo DEF keys

\* Requests name one key or two.
OneOrTwo(keys) == \E a, b : keys = <<a>> \/ keys = <<a, b>>

LEMMA FirstsAreOnce ==
    ASSUME NEW keys, OneOrTwo(keys)
    PROVE  /\ IsSeq(Once(keys)) /\ Len(Once(keys)) \in Nat
           /\ DOMAIN Firsts(keys) = 1..Len(Once(keys))
           /\ \A k \in 1..Len(Once(keys)) : keys[Firsts(keys)[k]] = Once(keys)[k]
<1>1. PICK a, b : keys = <<a>> \/ keys = <<a, b>>
    BY DEF OneOrTwo
<1> DEFINE S == {a, b}
<1>2. Once(keys) \in Seq(S)
    <2>1. Once(keys) = <<a>> \/ Once(keys) = <<a, b>>
        BY <1>1 DEF Once
    <2>2. a \in S /\ b \in S
        OBVIOUS
    <2> HIDE DEF S
    <2>3. <<a>> \in Seq(S)
        BY <2>2
    <2>4. <<a, b>> \in Seq(S)
        BY <2>2
    <2> QED BY <2>1, <2>3, <2>4
<1> HIDE DEF S
<1>3. IsSeq(Once(keys)) /\ Len(Once(keys)) \in Nat
    BY <1>2, SeqIsSeq
<1>4. CASE keys = <<a>>
    <2>1. Once(keys) = <<a>> /\ Firsts(keys) = <<1>>
        BY <1>4, FirstsOfOne DEF Once
    <2> QED BY <1>3, <1>4, <2>1
<1>5. CASE keys = <<a, b>> /\ a = b
    <2>1. Once(keys) = <<a>> /\ Firsts(keys) = <<1>>
        BY <1>5, FirstsOfTwo DEF Once
    <2> QED BY <1>3, <1>5, <2>1
<1>6. CASE keys = <<a, b>> /\ a # b
    <2>1. Once(keys) = <<a, b>> /\ Firsts(keys) = <<1, 2>>
        BY <1>6, FirstsOfTwo DEF Once
    <2> QED BY <1>3, <1>6, <2>1
<1> QED BY <1>1, <1>4, <1>5, <1>6

\* sign_hash_with_many gives one signature for each of them, or fails.
LEMMA SignManyIs ==
    ASSUME NEW w, NEW hash, NEW kms, NEW keys, OneOrTwo(keys),
           SignHashWithMany(w, keys, hash, kms).ok
    PROVE  LET v == SignHashWithMany(w, keys, hash, kms).v
           IN /\ IsSeq(v) /\ Len(v) = Len(Once(keys))
              /\ \A i \in 1..Len(v) : LET one == SignHashWith(w, Once(keys)[i], hash, kms)
                                      IN one.ok /\ v[i] = one.v
<1> DEFINE firsts == Firsts(keys)
           results == [k \in DOMAIN firsts |-> SignHashWith(w, keys[firsts[k]], hash, kms)]
           n == Len(Once(keys))
           P(k) == ~results[k].ok /\ \A j \in 1..k - 1 : results[j].ok
           result == SignHashWithMany(w, keys, hash, kms)
<1>1. n \in Nat /\ DOMAIN results = 1..n
    BY FirstsAreOnce
<1>2. \A k \in 1..n : results[k] = SignHashWith(w, Once(keys)[k], hash, kms)
    BY FirstsAreOnce
<1>3. result = IF \A k \in DOMAIN results : results[k].ok
               THEN Ok([k \in DOMAIN results |-> results[k].v])
               ELSE results[CHOOSE k \in DOMAIN results : P(k)]
    BY DEF SignHashWithMany
<1>4. n \in {1, 2}
    BY DEF OneOrTwo, Once
<1> HIDE DEF results, n
<1>5. \A k \in DOMAIN results : results[k].ok
    <2> SUFFICES ASSUME ~\A k \in DOMAIN results : results[k].ok PROVE FALSE
        OBVIOUS
    <2>1. \E k \in DOMAIN results : P(k)
        <3>1. CASE ~results[1].ok
            <4>1. P(1) /\ 1 \in DOMAIN results
                BY <1>1, <1>4, <3>1
            <4> QED BY <4>1
        <3>2. CASE results[1].ok
            <4>1. n = 2 /\ ~results[2].ok
                BY <1>1, <1>4, <3>2
            <4>2. P(2) /\ 2 \in DOMAIN results
                BY <1>1, <3>2, <4>1
            <4> QED BY <4>2
        <3> QED BY <3>1, <3>2
    <2> DEFINE first == CHOOSE k \in DOMAIN results : P(k)
    <2>2. P(first)
        <3> HIDE DEF P
        <3> QED BY <2>1, Zenon
    <2>3. result = results[first]
        BY <1>3
    <2> HIDE DEF first
    <2> QED BY <2>2, <2>3
<1> DEFINE v == [k \in 1..n |-> results[k].v]
<1>6. result.v = v
    BY <1>1, <1>3, <1>5 DEF Ok
<1>7. DOMAIN v = 1..n /\ v = [k \in 1..n |-> v[k]] /\ \A k \in 1..n : v[k] = results[k].v
    OBVIOUS
<1> HIDE DEF v, result
<1>8. IsSeq(v) /\ Len(v) = n
    BY <1>1, <1>7, FunctionIsSeq
<1>9. \A i \in 1..Len(v) : LET one == SignHashWith(w, Once(keys)[i], hash, kms)
                           IN one.ok /\ v[i] = one.v
    BY <1>1, <1>2, <1>5, <1>7, <1>8
<1> QED BY <1>6, <1>8, <1>9 DEF result, n

-------------------------------------------------------------------------------
(* Wallets and the transaction that travels.                               *)

\* Every credential is under its own address.
WalletHolds(w) ==
    /\ DOMAIN w = {"default", "signers"}
    /\ \A a \in DOMAIN w.signers :
          \E key \in Held : a = AddressOf(key) /\ w.signers[a] \in {LocalSigner(key), AwsSigner(key)}
\* Every signature is the one of the address it is put down to.
SignedWell(t) ==
    /\ DOMAIN t = {"kind", "id", "at", "sigs", "by"} /\ t.at \in Parties
    /\ IsSeq(t.sigs) /\ IsSeq(t.by) /\ Len(t.by) = Len(t.sigs)
    /\ \A i \in 1..Len(t.sigs) :
          \E key \in Held \cup {Tools} : IsSignature(t.sigs[i], key, TxId(t)) /\ t.by[i] = AddressOf(key)

WalletsWell == DOMAIN wallet = Parties /\ \A p \in Parties : WalletHolds(wallet[p])
FileWell == file # <<>> => Sealed(file[1]) /\ file[1].key \in {Own, Derived}
TxWell == tx # <<>> => tx = <<tx[1]>> /\ SignedWell(tx[1])
MessageWell ==
    answer.what = "message" =>
        LET sig == FromBytes(answer.bytes)
        IN /\ sig.ok /\ Recover(sig.v, answer.hash) = answer.by
           /\ VerifyMessage(<<1>>, sig.v, answer.by) <=> answer.hash = HashMessage(<<1>>)
           /\ ~VerifyMessage(<<2>>, sig.v, answer.by)
           /\ Recover(sig.v, TxHash(<<1>>)) # answer.by
SignInv == WalletsWell /\ alias \in KmsKeys /\ FileWell /\ TxWell /\ MessageWell

LEMMA SignWithIs ==
    ASSUME NEW w, WalletHolds(w), NEW a, NEW hash, NEW aliasKey \in KmsKeys,
           NEW kms \in KmsAnswers(aliasKey, hash), SignHashWith(w, a, hash, kms).ok
    PROVE  \E key \in Held : a = AddressOf(key) /\ IsSignature(SignHashWith(w, a, hash, kms).v, key, hash)
<1>1. a \in DOMAIN w.signers /\ SignHashWith(w, a, hash, kms) = SignHash(w.signers[a], hash, kms)
    BY DEF SignHashWith, RequireSigner, Ok, Err
<1>2. PICK key \in Held : a = AddressOf(key) /\ w.signers[a] \in {LocalSigner(key), AwsSigner(key)}
    BY <1>1 DEF WalletHolds
<1> QED BY <1>1, <1>2, SignHashIs

LEMMA SignedWellRecovers ==
    ASSUME NEW t, SignedWell(t)
    PROVE  Recovered(t) = t.by /\ \A n \in DOMAIN t.sigs : t.sigs[n].s = "low"
<1> DEFINE n == Len(t.sigs)
<1>1. DOMAIN t.sigs = 1..n /\ DOMAIN t.by = 1..n /\ t.by = [i \in 1..n |-> t.by[i]]
    BY IsSeqInSeq DEF SignedWell, IsSeq
<1>2. \A i \in 1..n : Recover(t.sigs[i], TxId(t)) = t.by[i] /\ t.sigs[i].s = "low"
    <2> SUFFICES ASSUME NEW i \in 1..n PROVE Recover(t.sigs[i], TxId(t)) = t.by[i] /\ t.sigs[i].s = "low"
        OBVIOUS
    <2>1. PICK key : IsSignature(t.sigs[i], key, TxId(t)) /\ t.by[i] = AddressOf(key)
        BY DEF SignedWell
    <2>2. t.sigs[i].s = "low"
        BY <2>1 DEF IsSignature
    <2> QED BY <2>1, <2>2, SignatureRecovers
<1> HIDE DEF n
<1>3. Recovered(t) = [i \in 1..n |-> t.by[i]]
    BY <1>1, <1>2 DEF Recovered
<1> QED BY <1>1, <1>2, <1>3

LEMMA SignInvGives == SignInv => SignedByWhomAsked
<1> SUFFICES ASSUME SignInv PROVE SignedByWhomAsked
    OBVIOUS
<1>1. \A i \in DOMAIN tx : Recovered(tx[i]) = tx[i].by /\ \A n \in DOMAIN tx[i].sigs : tx[i].sigs[n].s = "low"
    <2>1. CASE tx = <<>>
        BY <2>1
    <2>2. CASE tx # <<>>
        <3>1. tx = <<tx[1]>> /\ SignedWell(tx[1])
            BY <2>2 DEF SignInv, TxWell
        <3>2. DOMAIN tx = {1}
            BY <3>1
        <3> QED BY <3>1, <3>2, SignedWellRecovers
    <2> QED BY <2>1, <2>2
<1> QED BY <1>1 DEF SignInv, MessageWell, SignedByWhomAsked

\* Operations that neither sign nor load anything leave all of it alone.
NoMessage(a) == a.what # "message"

LEMMA SignNothingMoves ==
    ASSUME SignInv, UNCHANGED <<wallet, file, alias, tx>>, NoMessage(answer')
    PROVE  SignInv'
<1>1. MessageWell'
    BY DEF NoMessage, MessageWell
<1> QED BY <1>1 DEF SignInv, WalletsWell, FileWell, TxWell, SignedWell, TxId

LEMMA RegisterKeeps ==
    ASSUME WalletsWell, NEW p \in Parties, NEW key \in Held, NEW c \in {LocalSigner(key), AwsSigner(key)},
           Register(p, c)
    PROVE  WalletsWell'
<1> DEFINE w == wallet[p]
           signers == [a \in DOMAIN w.signers \cup {c.address} |-> IF a = c.address THEN c ELSE w.signers[a]]
<1>1. DOMAIN wallet = Parties /\ DOMAIN w = {"default", "signers"} /\ WalletHolds(w)
    BY DEF WalletsWell, WalletHolds
<1>2. c.address = AddressOf(key)
    BY DEF LocalSigner, AwsSigner
<1>3. \A a \in DOMAIN signers :
          \E k \in Held : a = AddressOf(k) /\ signers[a] \in {LocalSigner(k), AwsSigner(k)}
    <2> SUFFICES ASSUME NEW a \in DOMAIN signers
                 PROVE  \E k \in Held : a = AddressOf(k) /\ signers[a] \in {LocalSigner(k), AwsSigner(k)}
        OBVIOUS
    <2>1. CASE a = c.address
        <3>1. signers[a] = c
            BY <2>1
        <3> QED BY <1>2, <2>1, <3>1
    <2>2. CASE a # c.address
        <3>1. a \in DOMAIN w.signers /\ signers[a] = w.signers[a]
            BY <2>2
        <3> QED BY <1>1, <3>1 DEF WalletHolds
    <2> QED BY <2>1, <2>2
<1> HIDE DEF signers
<1>4. PICK n : /\ wallet' = [wallet EXCEPT ![p] = n]
               /\ n = RegisterDefaultSigner(w, c) \/ n = RegisterSigner(w, c)
    BY DEF Register
<1>5. DOMAIN n = {"default", "signers"} /\ n.signers = signers
    <2>1. RegisterSigner(w, c) = [w EXCEPT !.signers = signers]
        BY DEF RegisterSigner, signers
    <2>2. RegisterDefaultSigner(w, c) = [[w EXCEPT !.signers = signers] EXCEPT !.default = c.address]
        BY <2>1 DEF RegisterDefaultSigner
    <2> HIDE DEF w
    <2> QED BY <1>1, <1>4, <2>1, <2>2
<1>6. WalletHolds(n)
    BY <1>3, <1>5 DEF WalletHolds
<1>7. DOMAIN wallet' = Parties /\ \A q \in Parties : wallet'[q] = n \/ wallet'[q] = wallet[q]
    BY <1>1, <1>4
<1> QED BY <1>6, <1>7 DEF WalletsWell

LEMMA LoadedKey ==
    ASSUME NEW f, NEW password, Sealed(f), DecryptFromFile(f, password).ok,
           DecryptFromFile(f, password).v # Garbled
    PROVE  DecryptFromFile(f, password).v = f.key
<1>1. DecryptFromFile(f, password) = Ok(AesCtr(f, DeriveKey(f, password).v))
    BY DEF DecryptFromFile, Decrypt, Err
<1> QED BY <1>1 DEF AesCtr, Ok

LEMMA SignLoadKeystore ==
    ASSUME SignInv, NEW p \in Parties, LoadKeystore(p)
    PROVE  SignInv'
<1>1. PICK password \in Passwords :
        LET result == DecryptFromFile(file[1], password)
        IN /\ answer' = [what |-> "keystore", result |-> result, file |-> file[1], password |-> password]
           /\ IF result.ok /\ result.v # Garbled
              THEN Register(p, LocalSigner(result.v)) /\ loads' = loads + 1
              ELSE UNCHANGED <<wallet, loads>>
    BY DEF LoadKeystore
<1>2. /\ Sealed(file[1]) /\ file[1].key \in {Own, Derived} /\ file' = <<>> /\ UNCHANGED <<alias, tx>>
      /\ WalletsWell
    BY DEF LoadKeystore, SignInv, FileWell
<1> DEFINE result == DecryptFromFile(file[1], password)
<1>3. WalletsWell'
    <2>1. CASE result.ok /\ result.v # Garbled
        <3>1. result.v \in Held
            BY <1>2, <2>1, LoadedKey DEF Held
        <3>2. Register(p, LocalSigner(result.v))
            BY <1>1, <2>1
        <3> QED BY <1>2, <3>1, <3>2, RegisterKeeps
    <2>2. CASE ~(result.ok /\ result.v # Garbled)
        <3>1. UNCHANGED wallet
            BY <1>1, <2>2
        <3> QED BY <1>2, <3>1 DEF WalletsWell
    <2> QED BY <2>1, <2>2
<1>4. MessageWell'
    <2>1. answer'.what = "keystore"
        BY <1>1
    <2> QED BY <2>1 DEF MessageWell
<1> QED BY <1>2, <1>3, <1>4 DEF SignInv, FileWell, TxWell, SignedWell, TxId

LEMMA SignLoads ==
    ASSUME SignInv, NEW p \in Parties, NextSigner(p) \/ LoadKms(p) \/ SetDefault(p)
    PROVE  SignInv'
<1>1. UNCHANGED <<file, alias, tx>> /\ WalletsWell /\ alias \in KmsKeys
    BY DEF NextSigner, LoadKms, SetDefault, SignInv
<1>2. MessageWell'
    <2>1. NoMessage(answer')
        BY DEF NextSigner, LoadKms, SetDefault, NoMessage, NoAnswer, Failed
    <2> QED BY <2>1 DEF NoMessage, MessageWell
<1>3. WalletsWell'
    <2>1. CASE UNCHANGED wallet
        BY <1>1, <2>1 DEF WalletsWell
    <2>2. CASE Register(p, LocalSigner(Derived))
        BY <1>1, <2>2, RegisterKeeps DEF Held
    <2>3. CASE Register(p, AwsSigner(alias))
        BY <1>1, <2>3, RegisterKeeps DEF Held, KmsKeys
    <2>4. ASSUME NEW a, wallet' = [wallet EXCEPT ![p] = [wallet[p] EXCEPT !.default = a]]
          PROVE  WalletsWell'
        <3> DEFINE n == [wallet[p] EXCEPT !.default = a]
        <3>1. DOMAIN wallet = Parties /\ WalletHolds(wallet[p])
            BY <1>1 DEF WalletsWell
        <3>2. DOMAIN n = {"default", "signers"} /\ n.signers = wallet[p].signers
            BY <3>1 DEF WalletHolds
        <3>3. PICK m : m = n
            OBVIOUS
        <3>4. WalletHolds(m)
            BY <3>1, <3>2, <3>3 DEF WalletHolds
        <3>5. DOMAIN wallet' = Parties /\ \A q \in Parties : wallet'[q] = m \/ wallet'[q] = wallet[q]
            BY <2>4, <3>1, <3>3
        <3> QED BY <1>1, <3>4, <3>5 DEF WalletsWell
    <2>5. CASE NextSigner(p)
        BY <2>1, <2>2, <2>5 DEF NextSigner
    <2>6. CASE LoadKms(p)
        BY <2>1, <2>3, <2>6 DEF LoadKms
    <2>7. CASE SetDefault(p)
        <3>1. PICK a : LET result == SetDefaultSigner(wallet[p], a)
                       IN UNCHANGED wallet
                          \/ (result.ok /\ wallet' = [wallet EXCEPT ![p] = result.v])
            BY <2>7 DEF SetDefault
        <3>2. SetDefaultSigner(wallet[p], a).ok
                => SetDefaultSigner(wallet[p], a).v = [wallet[p] EXCEPT !.default = a]
            BY DEF SetDefaultSigner, Ok, Err
        <3> QED BY <2>1, <2>4, <3>1, <3>2
    <2> QED BY <2>5, <2>6, <2>7
<1> QED BY <1>1, <1>2, <1>3 DEF SignInv, FileWell, TxWell, SignedWell, TxId

\* More signatures, each with the address it is put down to.
LEMMA MoreSignatures ==
    ASSUME NEW t, SignedWell(t), NEW sigs, NEW by, IsSeq(sigs), IsSeq(by), Len(by) = Len(sigs),
           \A i \in 1..Len(sigs) :
               \E key \in Held \cup {Tools} : IsSignature(sigs[i], key, TxId(t)) /\ by[i] = AddressOf(key),
           NEW n, DOMAIN n = DOMAIN t, n.kind = t.kind, n.id = t.id, n.at \in Parties,
           n.sigs = t.sigs \o sigs, n.by = t.by \o by
    PROVE  SignedWell(n)
<1>1. IsSeq(t.sigs) /\ IsSeq(t.by) /\ Len(t.by) = Len(t.sigs)
    BY DEF SignedWell
<1> DEFINE a == Len(t.sigs)
           b == Len(sigs)
<1>2. a \in Nat /\ b \in Nat
    BY <1>1, IsSeqInSeq
<1>3. Joined(n.sigs, t.sigs, a, sigs, b)
    BY <1>1, ConcatIsSeq
<1>4. Joined(n.by, t.by, a, by, b)
    BY <1>1, ConcatIsSeq
<1>5. TxId(n) = TxId(t)
    BY DEF TxId
<1>6. ASSUME NEW i \in 1..a + b
      PROVE  \E key \in Held \cup {Tools} : IsSignature(n.sigs[i], key, TxId(n)) /\ n.by[i] = AddressOf(key)
    <2>1. CASE i \in 1..a
        BY <1>3, <1>4, <1>5, <2>1 DEF SignedWell, Joined
    <2>2. CASE i \notin 1..a
        <3>1. i \in a + 1..a + b /\ i - a \in 1..b
            BY <1>2, <1>6, <2>2
        <3> QED BY <1>3, <1>4, <1>5, <3>1 DEF Joined
    <2> QED BY <2>1, <2>2
<1>7. Len(n.sigs) = a + b /\ Len(n.by) = a + b /\ IsSeq(n.sigs) /\ IsSeq(n.by)
    BY <1>3, <1>4 DEF Joined
<1> HIDE DEF a, b
<1> QED BY <1>6, <1>7 DEF SignedWell

LEMMA SignSign ==
    ASSUME SignInv, Sign
    PROVE  SignInv'
<1> DEFINE t == tx[1]
           w == wallet[t.at]
<1>1. /\ tx # <<>> /\ SignedWell(t) /\ WalletHolds(w) /\ alias \in KmsKeys
      /\ UNCHANGED <<wallet, file, alias>>
    BY DEF Sign, SignInv, TxWell, SignedWell, WalletsWell
<1>2. MessageWell'
    <2>1. NoMessage(answer')
        BY DEF Sign, NoMessage, NoAnswer, Failed
    <2> QED BY <2>1 DEF NoMessage, MessageWell
<1>3. PICK keys \in {k \in Asks(w) : Cardinality(Range1(k)) <= Room(t)}, kms \in KmsAnswers(alias, TxId(t)) :
        LET result == SignHashWithMany(w, keys, TxId(t), kms)
        IN IF result.ok
           THEN /\ tx' = <<[t EXCEPT !.sigs = @ \o result.v, !.by = @ \o Once(keys)]>>
                /\ answer' = NoAnswer
           ELSE answer' = Failed /\ UNCHANGED tx
    BY DEF Sign
<1> DEFINE result == SignHashWithMany(w, keys, TxId(t), kms)
<1>4. TxWell'
    <2>1. CASE UNCHANGED tx
        BY <2>1 DEF SignInv, TxWell, SignedWell, TxId
    <2>2. CASE result.ok /\ tx' = <<[t EXCEPT !.sigs = @ \o result.v, !.by = @ \o Once(keys)]>>
        <3>1. OneOrTwo(keys)
            <4>1. keys \in Asks(w)
                OBVIOUS
            <4> QED BY <4>1 DEF Asks, OneOrTwo
        <3>2. /\ IsSeq(result.v) /\ Len(result.v) = Len(Once(keys)) /\ IsSeq(Once(keys))
              /\ \A i \in 1..Len(result.v) : LET one == SignHashWith(w, Once(keys)[i], TxId(t), kms)
                                             IN one.ok /\ result.v[i] = one.v
            BY <2>2, <3>1, SignManyIs, FirstsAreOnce
        <3> HIDE DEF w, result
        <3>3. \A i \in 1..Len(result.v) :
                 \E key \in Held \cup {Tools} :
                    IsSignature(result.v[i], key, TxId(t)) /\ Once(keys)[i] = AddressOf(key)
            BY <1>1, <3>2, SignWithIs
        <3> DEFINE n == [t EXCEPT !.sigs = @ \o result.v, !.by = @ \o Once(keys)]
        <3>4. /\ DOMAIN n = DOMAIN t /\ n.kind = t.kind /\ n.id = t.id /\ n.at = t.at
              /\ n.sigs = t.sigs \o result.v /\ n.by = t.by \o Once(keys)
            BY <1>1 DEF SignedWell
        <3>5. PICK m : m = n
            OBVIOUS
        <3> HIDE DEF n
        <3>6. t.at \in Parties
            BY <1>1 DEF SignedWell
        <3> HIDE DEF t
        <3>7. SignedWell(m)
            BY <1>1, <3>2, <3>3, <3>4, <3>5, <3>6, MoreSignatures
        <3>8. tx' = <<m>>
            BY <2>2, <3>5 DEF n
        <3> QED BY <3>7, <3>8 DEF TxWell
    <2> QED BY <1>3, <2>1, <2>2
<1> QED BY <1>1, <1>2, <1>4 DEF SignInv, WalletsWell, FileWell

LEMMA SignHandOver ==
    ASSUME SignInv, NEW q \in Parties, HandOver(q)
    PROVE  SignInv'
<1> DEFINE t == tx[1]
           tools == Signature(Tools, TxId(t), 1, "low", 1)
           wire == [i \in DOMAIN t.sigs |-> ToBytes(t.sigs[i])]
           size == Len(t.sigs)
<1>1. tx # <<>> /\ SignedWell(t) /\ UNCHANGED <<wallet, file, alias>>
    BY DEF HandOver, SignInv, TxWell
<1>2. MessageWell'
    <2>1. NoMessage(answer')
        BY HandOverAnswers DEF NoMessage, NoAnswer, Failed
    <2> QED BY <2>1 DEF NoMessage, MessageWell
<1>3. PICK added \in {<<>>, <<ToLegacyBytes(tools)>>, <<ToBytes(tools)>>, <<Bytes(tools, 29, 65)>>,
                      <<Bytes(tools, 1, 64)>>} :
        LET parsed == [i \in DOMAIN (wire \o added) |-> FromBytes((wire \o added)[i])]
        IN \/ UNCHANGED tx
           \/ /\ \A i \in DOMAIN parsed : parsed[i].ok
              /\ tx' = <<[t EXCEPT !.at = q, !.sigs = [i \in DOMAIN parsed |-> parsed[i].v],
                                   !.by = @ \o [i \in DOMAIN added |-> AddressOf(Tools)]]>>
    BY DEF HandOver
<1> DEFINE all == wire \o added
           parsed == [i \in DOMAIN all |-> FromBytes(all[i])]
           its == [i \in DOMAIN added |-> AddressOf(Tools)]
<1>4. /\ size \in Nat /\ IsSeq(wire) /\ Len(wire) = size
      /\ \A i \in 1..size : wire[i] = ToBytes(t.sigs[i])
    <2>1. size \in Nat /\ DOMAIN t.sigs = 1..size
        BY <1>1, IsSeqInSeq DEF SignedWell
    <2>2. DOMAIN wire = 1..size /\ wire = [i \in 1..size |-> wire[i]]
          /\ \A i \in 1..size : wire[i] = ToBytes(t.sigs[i])
        BY <2>1
    <2> HIDE DEF wire, size
    <2> QED BY <2>1, <2>2, FunctionIsSeq
<1>5. IsSignature(tools, Tools, TxId(t))
    BY DEF IsSignature, Signature
<1> HIDE DEF tools, wire
<1>6. added = <<>> \/ \E one : added = <<one>> /\ (FromBytes(one).ok => one \in {ToBytes(tools), ToLegacyBytes(tools)})
    <2>1. ~FromBytes(Bytes(tools, 29, 65)).ok /\ ~FromBytes(Bytes(tools, 1, 64)).ok
        BY DEF FromBytes, Bytes, Err
    <2> QED BY <1>3, <2>1
<1>7. /\ IsSeq(added) /\ Len(added) \in Nat /\ DOMAIN added = 1..Len(added)
      /\ IsSeq(its) /\ Len(its) = Len(added) /\ \A i \in 1..Len(added) : its[i] = AddressOf(Tools)
    <2>1. Len(added) \in Nat /\ DOMAIN added = 1..Len(added) /\ added = [i \in 1..Len(added) |-> added[i]]
        <3>1. CASE added = <<>>
            BY <3>1
        <3>2. ASSUME NEW one, added = <<one>>
              PROVE  Len(added) \in Nat /\ DOMAIN added = 1..Len(added) /\ added = [i \in 1..Len(added) |-> added[i]]
            BY <3>2
        <3> QED BY <1>6, <3>1, <3>2
    <2>2. DOMAIN its = 1..Len(added) /\ its = [i \in 1..Len(added) |-> its[i]]
          /\ \A i \in 1..Len(added) : its[i] = AddressOf(Tools)
        BY <2>1
    <2> HIDE DEF its
    <2> QED BY <2>1, <2>2, FunctionIsSeq
<1>8. TxWell'
    <2>1. CASE UNCHANGED tx
        BY <2>1 DEF SignInv, TxWell, SignedWell, TxId
    <2>2. ASSUME \A i \in DOMAIN parsed : parsed[i].ok,
                 tx' = <<[t EXCEPT !.at = q, !.sigs = [i \in DOMAIN parsed |-> parsed[i].v], !.by = @ \o its]>>
          PROVE  TxWell'
        <3> DEFINE n == [t EXCEPT !.at = q, !.sigs = [i \in DOMAIN parsed |-> parsed[i].v], !.by = @ \o its]
                   k == Len(added)
        <3>1. /\ DOMAIN all = 1..size + k
              /\ \A i \in 1..size : all[i] = ToBytes(t.sigs[i])
              /\ \A i \in size + 1..size + k : all[i] = added[i - size]
            <4>1. Joined(all, wire, size, added, k)
                BY <1>4, <1>7, ConcatIsSeq
            <4>2. DOMAIN all = 1..Len(all)
                BY <4>1, IsSeqInSeq DEF Joined
            <4> HIDE DEF all, size, k, t
            <4> QED BY <1>4, <4>1, <4>2 DEF Joined
        <3> HIDE DEF all
        <3>2. DOMAIN parsed = 1..size + k /\ \A i \in 1..size + k : parsed[i] = FromBytes(all[i])
            BY <3>1
        <3> HIDE DEF parsed
        <3>3. \A i \in 1..size : IsSignature(parsed[i].v, t.sigs[i].key, TxId(t))
            <4> SUFFICES ASSUME NEW i \in 1..size PROVE IsSignature(parsed[i].v, t.sigs[i].key, TxId(t))
                OBVIOUS
            <4>1. PICK key : IsSignature(t.sigs[i], key, TxId(t))
                BY <1>1 DEF SignedWell
            <4>2. parsed[i] = FromBytes(ToBytes(t.sigs[i])) /\ t.sigs[i].key = key
                BY <1>4, <1>7, <3>1, <3>2, <4>1 DEF IsSignature
            <4> QED BY <4>1, <4>2, BytesKeepTheSignature
        <3>4. \A i \in size + 1..size + k : IsSignature(parsed[i].v, Tools, TxId(t))
            <4> SUFFICES ASSUME NEW i \in size + 1..size + k PROVE IsSignature(parsed[i].v, Tools, TxId(t))
                OBVIOUS
            <4>1. i \in 1..size + k /\ i - size \in 1..k
                BY <1>4, <1>7
            <4>2. PICK one : added = <<one>> /\ (FromBytes(one).ok => one \in {ToBytes(tools), ToLegacyBytes(tools)})
                BY <1>6, <4>1
            <4>3. parsed[i] = FromBytes(one) /\ FromBytes(one).ok
                <5>1. k = 1
                    BY <4>2
                <5>2. i - size = 1
                    BY <4>1, <5>1, <1>4
                <5>3. all[i] = added[i - size]
                    BY <3>1
                <5>4. all[i] = one
                    BY <4>2, <5>2, <5>3
                <5> QED BY <2>2, <3>2, <4>1, <5>4
            <4> QED BY <1>5, <4>2, <4>3, BytesKeepTheSignature
        <3> DEFINE sigs == [i \in DOMAIN parsed |-> parsed[i].v]
        <3>5. IsSeq(sigs) /\ Len(sigs) = size + k /\ \A i \in 1..size + k : sigs[i] = parsed[i].v
            <4>1. DOMAIN sigs = 1..size + k /\ sigs = [i \in 1..size + k |-> sigs[i]]
                  /\ \A i \in 1..size + k : sigs[i] = parsed[i].v
                BY <3>2
            <4>2. size + k \in Nat
                BY <1>4, <1>7
            <4> HIDE DEF sigs, size, k
            <4> QED BY <4>1, <4>2, FunctionIsSeq
        <3>6. /\ DOMAIN n = DOMAIN t /\ n.kind = t.kind /\ n.id = t.id /\ n.at = q
              /\ n.sigs = sigs /\ n.by = t.by \o its
            BY <1>1 DEF SignedWell
        <3> HIDE DEF sigs, its
        <3>7. Joined(n.by, t.by, size, its, k)
            <4>1. IsSeq(t.by) /\ Len(t.by) = size /\ Len(its) = k
                BY <1>1, <1>7 DEF SignedWell
            <4> HIDE DEF size, k, n, t
            <4> QED BY <1>7, <3>6, <4>1, ConcatIsSeq
        <3>8. TxId(n) = TxId(t)
            BY <3>6 DEF TxId
        <3> HIDE DEF n
        <3>9. ASSUME NEW i \in 1..size + k
              PROVE  \E key \in Held \cup {Tools} : IsSignature(sigs[i], key, TxId(n)) /\ n.by[i] = AddressOf(key)
            <4>1. CASE i \in 1..size
                <5>1. PICK key \in Held \cup {Tools} : IsSignature(t.sigs[i], key, TxId(t)) /\ t.by[i] = AddressOf(key)
                    BY <1>1, <4>1 DEF SignedWell
                <5>2. t.sigs[i].key = key
                    BY <5>1 DEF IsSignature
                <5>3. n.by[i] = t.by[i] /\ sigs[i] = parsed[i].v
                    BY <3>5, <3>7, <3>9, <4>1 DEF Joined
                <5> QED BY <3>3, <3>8, <4>1, <5>1, <5>2, <5>3
            <4>2. CASE i \notin 1..size
                <5>1. i \in size + 1..size + k /\ i - size \in 1..k
                    BY <1>4, <1>7, <3>9, <4>2
                <5>2. n.by[i] = AddressOf(Tools) /\ sigs[i] = parsed[i].v
                    BY <1>7, <3>5, <3>7, <3>9, <5>1 DEF Joined
                <5> QED BY <3>4, <3>8, <5>1, <5>2
            <4> QED BY <4>1, <4>2
        <3>10. SignedWell(n)
            BY <1>1, <3>5, <3>6, <3>7, <3>9 DEF SignedWell, Joined
        <3>11. PICK m : m = n
            OBVIOUS
        <3>12. tx' = <<m>> /\ SignedWell(m)
            BY <2>2, <3>10, <3>11 DEF n
        <3> QED BY <3>12 DEF TxWell
    <2> QED BY <1>3, <2>1, <2>2
<1> QED BY <1>1, <1>2, <1>8 DEF SignInv, WalletsWell, FileWell

LEMMA SignSignMessage ==
    ASSUME SignInv, NEW p \in Parties, SignMessage(p)
    PROVE  SignInv'
<1> DEFINE a == wallet[p].default
<1>1. PICK hash \in {HashMessage(<<1>>), HashTypedData(<<1>>)}, legacy \in BOOLEAN :
      \E kms \in KmsAnswers(alias, hash) :
        LET result == SignHashWith(wallet[p], a, hash, kms)
        IN answer' = IF result.ok
                     THEN [what |-> "message", by |-> a, hash |-> hash,
                           bytes |-> IF legacy THEN ToLegacyBytes(result.v) ELSE ToBytes(result.v)]
                     ELSE Failed
    BY DEF SignMessage
<1>2. PICK kms \in KmsAnswers(alias, hash) :
        LET result == SignHashWith(wallet[p], a, hash, kms)
        IN answer' = IF result.ok
                     THEN [what |-> "message", by |-> a, hash |-> hash,
                           bytes |-> IF legacy THEN ToLegacyBytes(result.v) ELSE ToBytes(result.v)]
                     ELSE Failed
    BY <1>1
<1> DEFINE result == SignHashWith(wallet[p], a, hash, kms)
<1>3. MessageWell'
    <2>1. CASE ~result.ok
        <3>1. answer'.what = "error"
            BY <1>2, <2>1 DEF Failed
        <3> QED BY <3>1 DEF MessageWell
    <2>2. CASE result.ok
        <3>1. WalletHolds(wallet[p]) /\ alias \in KmsKeys
            BY DEF SignInv, WalletsWell
        <3>2. PICK key \in Held : a = AddressOf(key) /\ IsSignature(result.v, key, hash)
            BY <2>2, <3>1, SignWithIs
        <3> DEFINE bytes == IF legacy THEN ToLegacyBytes(result.v) ELSE ToBytes(result.v)
                   sig == FromBytes(bytes)
        <3>3. sig.ok /\ IsSignature(sig.v, key, hash)
            BY <3>2, BytesKeepTheSignature
        <3>4. answer'.bytes = bytes /\ answer'.hash = hash /\ answer'.by = a
            BY <1>2, <2>2
        <3>5. a # AddressOf(Nobody)
            BY <3>2, AddressesDiffer, KeysAreKnown
        <3>6. /\ hash # HashMessage(<<2>>) /\ hash # TxHash(<<1>>)
            <4>1. <<1>> # <<2>>
                OBVIOUS
            <4> QED BY <4>1 DEF HashMessage, HashTypedData, TxHash
        <3> HIDE DEF sig, bytes, a
        <3>7. Recover(sig.v, hash) = a /\ \A other : other # hash => Recover(sig.v, other) # a
            BY <3>2, <3>3, <3>5, SignatureRecovers
        <3>8. FromBytes(answer'.bytes) = sig
            BY <3>4 DEF sig
        <3> QED BY <3>3, <3>4, <3>6, <3>7, <3>8 DEF MessageWell, VerifyMessage
    <2> QED BY <2>1, <2>2
<1>4. UNCHANGED <<wallet, file, alias, tx>>
    BY DEF SignMessage
<1> QED BY <1>3, <1>4 DEF SignInv, WalletsWell, FileWell, TxWell, SignedWell, TxId

LEMMA SignFile ==
    ASSUME SignInv, Damage \/ \E p \in Parties : SaveKeystore(p)
    PROVE  SignInv'
<1>1. UNCHANGED <<wallet, alias, tx>>
    BY DEF Damage, SaveKeystore
<1>2. MessageWell'
    <2>1. NoMessage(answer')
        BY DEF Damage, SaveKeystore, NoMessage, NoAnswer
    <2> QED BY <2>1 DEF NoMessage, MessageWell
<1>3. FileWell'
    <2>1. CASE Damage
        <3>1. PICK kdf \in {"scrypt", "pbkdf2"} : file[1] = Encrypt(file[1].key, "right", kdf)
            BY <2>1 DEF Damage
        <3>8. PICK field \in DOMAIN Damages :
                \E v \in Damages[field] : file' = <<[file[1] EXCEPT ![field] = v]>>
            BY <2>1 DEF Damage
        <3>2. PICK v \in Damages[field] : file' = <<[file[1] EXCEPT ![field] = v]>>
            BY <3>8
        <3>3. Sealed(file'[1])
            BY <3>1, <3>2, DamageKeepsTheSeal
        <3>4. field # "key"
            BY DEF Damages
        <3>5. "key" \in DOMAIN file[1]
            BY <3>1 DEF Encrypt
        <3>6. file'[1].key = file[1].key
            BY <3>2, <3>4, <3>5
        <3>7. file[1].key \in {Own, Derived}
            BY <2>1 DEF Damage, SignInv, FileWell
        <3> QED BY <3>3, <3>6, <3>7 DEF FileWell
    <2>2. CASE \E p \in Parties : SaveKeystore(p)
        <3>1. PICK json \in {"good", "torn"} :
                file' = <<[Encrypt(Derived, "right", "scrypt") EXCEPT !.json = json]>>
            BY <2>2 DEF SaveKeystore
        <3>2. Sealed([Encrypt(Derived, "right", "scrypt") EXCEPT !.json = json])
              /\ [Encrypt(Derived, "right", "scrypt") EXCEPT !.json = json].key = Derived
            BY EncryptSeals DEF Sealed, Encrypt
        <3> QED BY <3>1, <3>2 DEF FileWell
    <2> QED BY <2>1, <2>2
<1> QED BY <1>1, <1>2, <1>3 DEF SignInv, WalletsWell, TxWell, SignedWell, TxId

LEMMA SignBuild ==
    ASSUME SignInv, NEW p \in Parties, BuildTransaction(p)
    PROVE  SignInv'
<1>1. PICK kind, id : tx' = <<[kind |-> kind, id |-> id, at |-> p, sigs |-> <<>>, by |-> <<>>]>>
    BY DEF BuildTransaction
<1>2. file' = <<>> /\ UNCHANGED <<wallet, alias>>
    BY DEF BuildTransaction
<1>3. MessageWell'
    <2>1. NoMessage(answer')
        BY DEF BuildTransaction, NoMessage, NoAnswer
    <2> QED BY <2>1 DEF NoMessage, MessageWell
<1>4. PICK t : t = [kind |-> kind, id |-> id, at |-> p, sigs |-> <<>>, by |-> <<>>]
    OBVIOUS
<1>5. IsSeq(<<>>) /\ Len(<<>>) = 0
    <2>1. <<>> \in Seq({}) /\ Len(<<>>) = 0
        OBVIOUS
    <2> QED BY <2>1, SeqIsSeq
<1>6. t.sigs = <<>> /\ t.by = <<>> /\ t.at = p /\ DOMAIN t = {"kind", "id", "at", "sigs", "by"}
    BY <1>4
<1>7. SignedWell(t)
    BY <1>5, <1>6 DEF SignedWell
<1>8. TxWell'
    BY <1>1, <1>4, <1>7 DEF TxWell
<1> QED BY <1>2, <1>3, <1>8 DEF SignInv, WalletsWell, FileWell

LEMMA SignRest ==
    ASSUME SignInv, Repoint \/ Broadcast
    PROVE  SignInv'
<1>1. UNCHANGED <<wallet, file>> /\ alias' \in KmsKeys /\ (tx' = <<>> \/ tx' = tx)
    BY DEF Repoint, Broadcast, SignInv, KmsKeys
<1>2. MessageWell'
    <2>1. NoMessage(answer')
        BY DEF Repoint, Broadcast, NoMessage, NoAnswer
    <2> QED BY <2>1 DEF NoMessage, MessageWell
<1>3. TxWell'
    BY <1>1 DEF SignInv, TxWell, SignedWell, TxId
<1> QED BY <1>1, <1>2, <1>3 DEF SignInv, WalletsWell, FileWell

LEMMA SignInit == Init => SignInv
<1> SUFFICES ASSUME Init PROVE SignInv
    OBVIOUS
<1>1. WalletsWell
    BY DEF Init, WalletsWell, WalletHolds, EmptyWallet
<1>2. FileWell
    <2>1. file = <<>> \/ \E kdf : file = <<Encrypt(Own, "right", kdf)>>
        BY DEF Init
    <2>2. \A kdf : Encrypt(Own, "right", kdf).key = Own
        BY DEF Encrypt
    <2> QED BY <2>1, <2>2, EncryptSeals DEF FileWell
<1>3. alias \in KmsKeys /\ TxWell /\ MessageWell
    BY DEF Init, KmsKeys, TxWell, MessageWell, NoAnswer
<1> QED BY <1>1, <1>2, <1>3 DEF SignInv

LEMMA SignStep == SignInv /\ [Next]_vars => SignInv'
<1> SUFFICES ASSUME SignInv, [Next]_vars PROVE SignInv'
    OBVIOUS
<1>1. ASSUME NEW p \in Parties, SaveKeystore(p) PROVE SignInv'
    BY <1>1, SignFile
<1>2. ASSUME NEW p \in Parties, LoadKeystore(p) PROVE SignInv'
    BY <1>2, SignLoadKeystore
<1>3. ASSUME NEW p \in Parties, NextSigner(p) \/ LoadKms(p) \/ SetDefault(p) PROVE SignInv'
    BY <1>3, SignLoads
<1>4. ASSUME NEW p \in Parties, BuildTransaction(p) PROVE SignInv'
    BY <1>4, SignBuild
<1>5. ASSUME NEW p \in Parties, HandOver(p) PROVE SignInv'
    BY <1>5, SignHandOver
<1>6. ASSUME NEW p \in Parties, SignMessage(p) PROVE SignInv'
    BY <1>6, SignSignMessage
<1>7. CASE Damage
    BY <1>7, SignFile
<1>8. CASE Repoint \/ Broadcast
    BY <1>8, SignRest
<1>9. CASE Sign
    BY <1>9, SignSign
<1>10. CASE NewIter
    BY <1>10, SignNothingMoves DEF NewIter, NoMessage, NoAnswer
<1>11. CASE UpdatePermissions
    BY <1>11, SignNothingMoves DEF UpdatePermissions, NoMessage, NoAnswer, Failed
<1>12. CASE AmendPermissions
    BY <1>12, SignNothingMoves DEF AmendPermissions, NoMessage, NoAnswer
<1>13. CASE GetAccount
    BY <1>13, SignNothingMoves DEF GetAccount, NoMessage, NoAnswer
<1>14. CASE AskWeight
    BY <1>14, SignNothingMoves DEF AskWeight, NoMessage
<1>15. CASE UNCHANGED vars
    BY <1>15 DEF vars, SignInv, WalletsWell, FileWell, TxWell, SignedWell, TxId, MessageWell
<1> QED
    BY <1>1, <1>2, <1>3, <1>4, <1>5, <1>6, <1>7, <1>8, <1>9, <1>10, <1>11, <1>12, <1>13, <1>14, <1>15 DEF Next

(***************************************************************************)
(* Every signature on the transaction is by the address that was asked for *)
(* it, over the transaction's own id, once for each that a party named;    *)
(* and so through any number of parties, hand-overs, tools and re-pointed  *)
(* aliases.  A signed message verifies for its signer and its text only.   *)
(***************************************************************************)
THEOREM SignedByWhomAskedHolds == Spec => []SignedByWhomAsked
BY SignInit, SignStep, SignInvGives, PTL DEF Spec

-------------------------------------------------------------------------------
(* Permissions.                                                            *)

\* The bitmap that lists these operations.
Bits(ids) == {Bit(id) : id \in ids}

LEMMA ByteAndBit ==
    ASSUME NEW j \in Nat, NEW k \in Nat, j \div 8 = k \div 8, j % 8 = k % 8
    PROVE  j = k
OBVIOUS

LEMMA BitsDiffer ==
    ASSUME NEW j \in Nat, NEW k \in Nat, Bit(j) = Bit(k)
    PROVE  j = k
<1>1. j \div 8 = k \div 8 /\ j % 8 = k % 8
    BY DEF Bit
<1> QED BY <1>1, ByteAndBit

(***************************************************************************)
(* A bit of the map stands for one operation: a map made of listed ids     *)
(* contains those and no others, negative numbers and numbers beyond the   *)
(* map included, and inserting and removing change the one they name       *)
(* (OperationSet::contains, insert, remove).                               *)
(***************************************************************************)
THEOREM BitmapIsTheList ==
    ASSUME NEW ids \in SUBSET (0..255)
    PROVE  /\ \A kind \in Int : OpContains(Bits(ids), kind) <=> kind \in ids
           /\ \A id \in 0..255 : OpInsert(Bits(ids), id) = Ok(Bits(ids \cup {id}))
           /\ \A id \in Int : OpRemove(Bits(ids), id) = Bits(ids \ {id})
<1>1. \A j, k \in Nat : Bit(j) = Bit(k) => j = k
    BY BitsDiffer
<1>2. \A id \in ids : id \in Nat
    OBVIOUS
<1>3. \A kind \in Nat : Bit(kind) \in Bits(ids) <=> kind \in ids
    BY <1>1, <1>2 DEF Bits
<1>4. \A kind \in Int : OpContains(Bits(ids), kind) <=> kind \in ids
    BY <1>2, <1>3 DEF OpContains
<1>5. ASSUME NEW id \in 0..255 PROVE OpInsert(Bits(ids), id) = Ok(Bits(ids \cup {id}))
    <2>1. Bits(ids) \cup {Bit(id)} = Bits(ids \cup {id})
        BY DEF Bits
    <2> QED BY <2>1 DEF OpInsert
<1>6. ASSUME NEW id \in Int PROVE OpRemove(Bits(ids), id) = Bits(ids \ {id})
    <2>1. CASE id >= 0
        <3>1. \A b \in Bits(ids) : b # Bit(id) => b \in Bits(ids \ {id})
            BY DEF Bits
        <3>2. \A b \in Bits(ids \ {id}) : b \in Bits(ids) /\ b # Bit(id)
            <4> SUFFICES ASSUME NEW k \in ids \ {id} PROVE Bit(k) \in Bits(ids) /\ Bit(k) # Bit(id)
                BY DEF Bits
            <4>1. k \in Nat /\ id \in Nat /\ k # id
                BY <1>2, <2>1
            <4> QED BY <1>1, <4>1 DEF Bits
        <3> QED BY <2>1, <3>1, <3>2 DEF OpRemove
    <2>2. CASE ~(id >= 0)
        <3>1. ids \ {id} = ids
            BY <1>2, <2>2
        <3> QED BY <2>2, <3>1 DEF OpRemove
    <2> QED BY <2>1, <2>2
<1> QED BY <1>4, <1>5, <1>6

\* A bitmap of listed operations passes the wire at any length.
LEMMA BitmapPasses ==
    ASSUME NEW ids \in SUBSET (0..255), NEW bytes, bytes.bits = Bits(ids)
    PROVE  BitmapFromBytes(bytes) = Ok(Bits(ids))
<1>1. \A b \in Bits(ids) : b[1] < 32 /\ ~(b[1] >= 32)
    <2> SUFFICES ASSUME NEW id \in 0..255 PROVE Bit(id)[1] < 32 /\ ~(Bit(id)[1] >= 32)
        BY DEF Bits
    <2>1. id \div 8 < 32 /\ id \div 8 \in Int
        OBVIOUS
    <2>2. Bit(id)[1] = id \div 8
        BY DEF Bit
    <2> QED BY <2>1, <2>2
<1>2. {b \in bytes.bits : b[1] < 32} = Bits(ids)
    BY <1>1
<1> QED BY <1>1, <1>2 DEF BitmapFromBytes

\* A permission is read back when its bitmap is.
PermissionFields == {"id", "threshold", "keys", "operations"}

LEMMA PermissionIsRead ==
    ASSUME NEW w, NEW ids \in SUBSET (0..255), w.operations.bits = Bits(ids)
    PROVE  LET read == PermissionFromProto(w)
           IN read.ok /\ read.v.id = w.id /\ read.v.operations = Bits(ids) /\ DOMAIN read.v = PermissionFields
<1> DEFINE keys == LET sifted == Sifted(w.keys, {i \in DOMAIN w.keys : w.keys[i].valid})
                   IN [i \in DOMAIN sifted |-> PermissionKey(sifted[i].address, sifted[i].weight)]
<1>1. BitmapFromBytes(w.operations) = Ok(Bits(ids))
    BY BitmapPasses
<1>2. PermissionFromProto(w) = Ok(Permission(w.id, w.threshold, keys, Bits(ids)))
    BY <1>1 DEF PermissionFromProto, Ok
<1> HIDE DEF keys
<1> QED BY <1>2 DEF Ok, Permission, PermissionFields

LEMMA PermissionIsNotRead ==
    ASSUME NEW w, NEW bits, <<32, 0>> \in bits, w.operations = [len |-> 33, bits |-> bits]
    PROVE  ~PermissionFromProto(w).ok
<1>1. BitmapFromBytes(w.operations) = Err("NonZeroExcessBits")
    <2>1. <<32, 0>>[1] >= 32 /\ 33 > 32
        OBVIOUS
    <2> QED BY <2>1 DEF BitmapFromBytes
<1> QED BY <1>1 DEF PermissionFromProto, Err

-------------------------------------------------------------------------------
(* Lists of permissions, of which an account here has at most two.         *)

LEMMA AscendingAll ==
    ASSUME NEW n \in 0..2
    PROVE  Ascending(1..n) = [i \in 1..n |-> i]
<1>1. CASE n = 0
    <2>1. 1..n = {}
        BY <1>1
    <2>2. [i \in {} |-> i] = <<>>
        OBVIOUS
    <2> QED BY <2>1, <2>2, AscendingNone
<1>2. CASE n = 1
    <2>1. 1..n = {1}
        BY <1>2
    <2>2. [i \in {1} |-> i] = <<1>>
        OBVIOUS
    <2> QED BY <2>1, <2>2, AscendingOne
<1>3. CASE n = 2
    <2>1. 1..n = {1, 2}
        BY <1>3
    <2>2. [i \in {1, 2} |-> i] = <<1, 2>>
        OBVIOUS
    <2> QED BY <2>1, <2>2, AscendingTwo
<1> QED BY <1>1, <1>2, <1>3

LEMMA KeptAll ==
    ASSUME NEW ps, NEW n \in 0..2, DOMAIN ps = 1..n, \A i \in 1..n : PermissionFromProto(ps[i]).ok
    PROVE  DOMAIN Kept(ps) = 1..n /\ \A i \in 1..n : Kept(ps)[i] = PermissionFromProto(ps[i]).v
<1> DEFINE places == {i \in DOMAIN ps : PermissionFromProto(ps[i]).ok}
           good == Sifted(ps, places)
<1>1. places = 1..n
    OBVIOUS
<1> HIDE DEF places
<1>2. DOMAIN good = 1..n /\ \A i \in 1..n : good[i] = ps[i]
    BY <1>1, AscendingAll DEF Sifted
<1>3. Kept(ps) = [i \in DOMAIN good |-> PermissionFromProto(good[i]).v]
    BY DEF Kept, places
<1> HIDE DEF good
<1> QED BY <1>2, <1>3

LEMMA KeptNone ==
    ASSUME NEW ps, \A i \in DOMAIN ps : ~PermissionFromProto(ps[i]).ok
    PROVE  DOMAIN Kept(ps) = {}
<1> DEFINE places == {i \in DOMAIN ps : PermissionFromProto(ps[i]).ok}
           good == Sifted(ps, places)
<1>1. places = {}
    OBVIOUS
<1> HIDE DEF places
<1>2. DOMAIN good = {}
    BY <1>1, AscendingNone DEF Sifted
<1>3. Kept(ps) = [i \in DOMAIN good |-> PermissionFromProto(good[i]).v]
    BY DEF Kept, places
<1> HIDE DEF good
<1> QED BY <1>2, <1>3

-------------------------------------------------------------------------------
(* What the account grants, on the chain and as it was read.               *)

Grants(granted) == \E n \in 0..2 : DOMAIN granted = 1..n /\ \A i \in 1..n : granted[i] \in SUBSET (0..255)
AtMostOne(list) == \E n \in 0..1 : DOMAIN list = 1..n

\* Permissions that spell out what was granted, in the client ...
Spelled(ps, granted) ==
    /\ DOMAIN ps.owner = 1..1 /\ AtMostOne(ps.witness)
    /\ Grants(granted) /\ DOMAIN ps.actives = DOMAIN granted
    /\ \A i \in DOMAIN granted : /\ DOMAIN ps.actives[i] = PermissionFields
                                 /\ ps.actives[i].id = i + 1 /\ ps.actives[i].operations = Bits(granted[i])
\* ... and at the node.
WireFields == {"len", "bits"}
Wired(w, granted) ==
    /\ DOMAIN w.owner = 1..1 /\ w.owner[1].operations.bits = {}
    /\ AtMostOne(w.witness) /\ \A i \in DOMAIN w.witness : w.witness[i].operations.bits = {}
    /\ Grants(granted) /\ DOMAIN w.actives = DOMAIN granted
    /\ \A i \in DOMAIN granted :
        /\ DOMAIN w.actives[i] = PermissionFields /\ DOMAIN w.actives[i].operations = WireFields
        /\ w.actives[i].id = i + 1 /\ w.actives[i].operations.bits = Bits(granted[i])
\* A reading has all of them, or has lost them and says so.
Readable(k) ==
    /\ DOMAIN k.perms = {"owner", "witness", "actives"}
    /\ \/ Spelled(k.perms, k.granted)
       \/ /\ DOMAIN k.perms.owner = 1..1 /\ AtMostOne(k.perms.witness) /\ Grants(k.granted)
          /\ DOMAIN k.perms.actives = {} /\ ~k.whole

GrantInv == Wired(chain.perms, chain.granted) /\ (known # <<>> => Readable(known[1]))

LEMMA ToTheNode ==
    ASSUME NEW ps, NEW granted, Spelled(ps, granted)
    PROVE  Wired(UpdateToProto(ps), granted)
<1> DEFINE w == UpdateToProto(ps)
<1>1. /\ w.owner = [i \in DOMAIN ps.owner |-> PermissionToProto(ps.owner[i], "owner")]
      /\ w.witness = [i \in DOMAIN ps.witness |-> PermissionToProto(ps.witness[i], "witness")]
      /\ w.actives = [i \in DOMAIN ps.actives |-> PermissionToProto(ps.actives[i], "active")]
    BY DEF UpdateToProto
<1> HIDE DEF w
<1>2. ASSUME NEW p PROVE /\ PermissionToProto(p, "owner").operations.bits = {}
                         /\ PermissionToProto(p, "witness").operations.bits = {}
                         /\ DOMAIN PermissionToProto(p, "active") = PermissionFields
                         /\ DOMAIN PermissionToProto(p, "active").operations = WireFields
                         /\ PermissionToProto(p, "active").id = p.id
                         /\ PermissionToProto(p, "active").operations.bits = p.operations
    BY DEF PermissionToProto, BitmapAsBytes, PermissionFields, WireFields
<1>3. DOMAIN w.owner = 1..1 /\ w.owner[1].operations.bits = {}
    BY <1>1, <1>2 DEF Spelled
<1>4. AtMostOne(w.witness) /\ \A i \in DOMAIN w.witness : w.witness[i].operations.bits = {}
    BY <1>1, <1>2 DEF Spelled, AtMostOne
<1>5. DOMAIN w.actives = DOMAIN granted /\ Grants(granted)
    BY <1>1 DEF Spelled
<1>6. ASSUME NEW i \in DOMAIN granted
      PROVE  /\ DOMAIN w.actives[i] = PermissionFields /\ DOMAIN w.actives[i].operations = WireFields
             /\ w.actives[i].id = i + 1 /\ w.actives[i].operations.bits = Bits(granted[i])
    <2>1. w.actives[i] = PermissionToProto(ps.actives[i], "active")
        BY <1>1 DEF Spelled
    <2>2. ps.actives[i].id = i + 1 /\ ps.actives[i].operations = Bits(granted[i])
        BY DEF Spelled
    <2> QED BY <1>2, <2>1, <2>2
<1> QED BY <1>3, <1>4, <1>5, <1>6 DEF Wired, w

\* Of lists that are read back.
LEMMA NoBitsAreRead ==
    ASSUME NEW list, NEW n \in 0..1, DOMAIN list = 1..n, \A i \in DOMAIN list : list[i].operations.bits = {}
    PROVE  DOMAIN Kept(list) = 1..n
<1>1. \A i \in 1..n : list[i].operations.bits = Bits({}) /\ {} \in SUBSET (0..255)
    BY DEF Bits
<1>2. \A i \in 1..n : PermissionFromProto(list[i]).ok
    BY <1>1, PermissionIsRead
<1>3. n \in 0..2
    OBVIOUS
<1> QED BY <1>2, <1>3, KeptAll

\* An active permission as the node may send it.
SentAs(p, q) ==
    DOMAIN p = PermissionFields /\ p.id = q.id /\ p.threshold = q.threshold /\ p.operations.bits = q.operations.bits

LEMMA FormsKeep ==
    ASSUME NEW w, NEW granted, Wired(w, granted), NEW form \in Forms(w)
    PROVE  /\ form.w.owner = w.owner /\ form.w.witness = w.witness
           /\ DOMAIN form.w.actives = DOMAIN granted
           /\ \/ \A i \in DOMAIN granted : /\ SentAs(form.w.actives[i], w.actives[i])
                                           /\ form.w.actives[i].keys = w.actives[i].keys
              \/ /\ \A i \in DOMAIN granted :
                        /\ SentAs(form.w.actives[i], w.actives[i])
                        /\ form.w.actives[i].keys = [w.actives[i].keys EXCEPT ![1].valid = FALSE]
                 /\ DOMAIN granted # {} => ~form.whole
              \/ /\ \A i \in DOMAIN granted : ~PermissionFromProto(form.w.actives[i]).ok
                 /\ DOMAIN granted # {} => ~form.whole
<1> DEFINE a == w.actives
           last(bits) == Max({b[1] : b \in bits})
           sent(actives, whole) ==
             [w |-> [owner |-> w.owner, witness |-> w.witness, actives |-> actives], whole |-> whole]
           short == [i \in DOMAIN a |-> [a[i] EXCEPT !.operations.len = last(a[i].operations.bits) + 1]]
           long == [i \in DOMAIN a |-> [a[i] EXCEPT !.operations.len = 40]]
           keyless == [i \in DOMAIN a |-> [a[i] EXCEPT !.keys[1].valid = FALSE]]
           broken == [i \in DOMAIN a |->
                        [a[i] EXCEPT !.operations = [len |-> 33, bits |-> @.bits \cup {<<32, 0>>}]]]
<1>0. /\ DOMAIN a = DOMAIN granted
      /\ \A i \in DOMAIN granted : DOMAIN a[i] = PermissionFields /\ DOMAIN a[i].operations = WireFields
    BY DEF Wired
<1>1. \E actives : \E whole \in {TRUE, a = <<>>} :
        /\ form = sent(actives, whole)
        /\ \/ actives \in {a, short, long}
           \/ actives \in {keyless, broken} /\ whole = (a = <<>>)
    BY DEF Forms
<1>2. PICK actives, whole :
        /\ form = sent(actives, whole)
        /\ \/ actives \in {a, short, long}
           \/ actives \in {keyless, broken} /\ whole = (a = <<>>)
    BY <1>1
<1>3. form.w.owner = w.owner /\ form.w.witness = w.witness /\ form.w.actives = actives /\ form.whole = whole
    BY <1>2
<1> HIDE DEF last
<1>4. CASE actives = a
    BY <1>0, <1>3, <1>4 DEF SentAs
<1>5. CASE actives = short
    <2>1. ASSUME NEW i \in DOMAIN granted
          PROVE  SentAs(actives[i], a[i]) /\ actives[i].keys = a[i].keys
        <3>1. PICK p, len : p = a[i] /\ len = last(a[i].operations.bits) + 1
            OBVIOUS
        <3>2. DOMAIN p = PermissionFields /\ DOMAIN p.operations = WireFields
            BY <1>0, <3>1
        <3>3. actives[i] = [p EXCEPT !.operations.len = len]
            BY <1>0, <1>5, <3>1
        <3>4. SentAs([p EXCEPT !.operations.len = len], p) /\ [p EXCEPT !.operations.len = len].keys = p.keys
            BY <3>2 DEF SentAs, PermissionFields, WireFields
        <3> QED BY <3>1, <3>3, <3>4
    <2>2. DOMAIN actives = DOMAIN granted
        BY <1>0, <1>5
    <2> HIDE DEF a, short, long
    <2> QED BY <1>3, <2>1, <2>2 DEF a
<1>6. CASE actives = long
    <2>1. ASSUME NEW i \in DOMAIN granted
          PROVE  SentAs(actives[i], a[i]) /\ actives[i].keys = a[i].keys
        <3>1. PICK p, len : p = a[i] /\ len = 40
            OBVIOUS
        <3>2. DOMAIN p = PermissionFields /\ DOMAIN p.operations = WireFields
            BY <1>0, <3>1
        <3>3. actives[i] = [p EXCEPT !.operations.len = len]
            BY <1>0, <1>6, <3>1
        <3>4. SentAs([p EXCEPT !.operations.len = len], p) /\ [p EXCEPT !.operations.len = len].keys = p.keys
            BY <3>2 DEF SentAs, PermissionFields, WireFields
        <3> QED BY <3>1, <3>3, <3>4
    <2>2. DOMAIN actives = DOMAIN granted
        BY <1>0, <1>6
    <2> HIDE DEF a, short, long
    <2> QED BY <1>3, <2>1, <2>2 DEF a
<1>7. CASE actives = keyless /\ whole = (a = <<>>)
    <2>1. ASSUME NEW i \in DOMAIN granted
          PROVE  SentAs(actives[i], a[i]) /\ actives[i].keys = [a[i].keys EXCEPT ![1].valid = FALSE]
        BY <1>0, <1>7 DEF SentAs, PermissionFields
    <2>2. DOMAIN granted # {} => a # <<>>
        BY <1>0
    <2>3. DOMAIN actives = DOMAIN granted
        BY <1>0, <1>7
    <2> HIDE DEF broken, short, long, keyless
    <2> QED BY <1>3, <1>7, <2>1, <2>2, <2>3
<1>8. CASE actives = broken /\ whole = (a = <<>>)
    <2>1. ASSUME NEW i \in DOMAIN granted PROVE ~PermissionFromProto(actives[i]).ok
        <3> DEFINE bits == a[i].operations.bits \cup {<<32, 0>>}
        <3>1. actives[i].operations = [len |-> 33, bits |-> bits]
            BY <1>0, <1>8 DEF PermissionFields
        <3>2. <<32, 0>> \in bits
            OBVIOUS
        <3> HIDE DEF bits
        <3> QED BY <3>1, <3>2, PermissionIsNotRead
    <2>2. DOMAIN granted # {} => a # <<>>
        BY <1>0
    <2>3. DOMAIN actives = DOMAIN granted
        BY <1>0, <1>8
    <2> HIDE DEF broken, short, long, keyless
    <2> QED BY <1>3, <1>8, <2>1, <2>2, <2>3
<1>9. \/ actives = a \/ actives = short \/ actives = long
      \/ (actives = keyless \/ actives = broken) /\ whole = (a = <<>>)
    BY <1>2
<1> HIDE DEF a, broken, short, long, keyless
<1> QED BY <1>4, <1>5, <1>6, <1>7, <1>8, <1>9

LEMMA FromTheNode ==
    ASSUME NEW w, NEW granted, Wired(w, granted), NEW form \in Forms(w),
           NEW k, k.perms = PermissionsFromProto(form.w), k.granted = granted, k.whole = form.whole
    PROVE  Readable(k)
<1> DEFINE ps == PermissionsFromProto(form.w)
<1>1. /\ DOMAIN ps = {"owner", "witness", "actives"}
      /\ ps.owner = Kept(form.w.owner) /\ ps.witness = Kept(form.w.witness) /\ ps.actives = Kept(form.w.actives)
    BY DEF PermissionsFromProto
<1> HIDE DEF ps
<1>2. form.w.owner = w.owner /\ form.w.witness = w.witness /\ DOMAIN form.w.actives = DOMAIN granted
    BY FormsKeep
<1>3. DOMAIN ps.owner = 1..1
    <2>1. DOMAIN w.owner = 1..1 /\ \A i \in DOMAIN w.owner : w.owner[i].operations.bits = {}
        BY DEF Wired
    <2>2. 1 \in 0..1
        OBVIOUS
    <2> QED BY <1>1, <1>2, <2>1, <2>2, NoBitsAreRead
<1>4. AtMostOne(ps.witness)
    <2>1. PICK n \in 0..1 : DOMAIN w.witness = 1..n
        BY DEF Wired, AtMostOne
    <2>2. \A i \in DOMAIN w.witness : w.witness[i].operations.bits = {}
        BY DEF Wired
    <2> QED BY <1>1, <1>2, <2>1, <2>2, NoBitsAreRead DEF AtMostOne
<1>5. Grants(granted)
    BY DEF Wired
<1>6. PICK n \in 0..2 : DOMAIN granted = 1..n /\ \A i \in 1..n : granted[i] \in SUBSET (0..255)
    BY <1>5 DEF Grants
<1>7. CASE \A i \in DOMAIN granted : SentAs(form.w.actives[i], w.actives[i])
    <2>1. ASSUME NEW i \in 1..n
          PROVE  LET read == PermissionFromProto(form.w.actives[i])
                 IN read.ok /\ read.v.id = i + 1 /\ read.v.operations = Bits(granted[i]) /\ DOMAIN read.v = PermissionFields
        <3>1. w.actives[i].id = i + 1 /\ w.actives[i].operations.bits = Bits(granted[i])
            BY <1>6 DEF Wired
        <3>2. form.w.actives[i].id = i + 1 /\ form.w.actives[i].operations.bits = Bits(granted[i])
            BY <1>6, <1>7, <3>1 DEF SentAs
        <3>3. granted[i] \in SUBSET (0..255)
            BY <1>6
        <3> QED BY <3>2, <3>3, PermissionIsRead
    <2>2. DOMAIN ps.actives = 1..n /\ \A i \in 1..n : ps.actives[i] = PermissionFromProto(form.w.actives[i]).v
        <3>1. PICK list : list = form.w.actives
            OBVIOUS
        <3>2. DOMAIN list = 1..n /\ \A i \in 1..n : PermissionFromProto(list[i]).ok
            BY <1>2, <1>6, <2>1, <3>1
        <3>3. DOMAIN Kept(list) = 1..n /\ \A i \in 1..n : Kept(list)[i] = PermissionFromProto(list[i]).v
            BY <3>2, KeptAll
        <3> QED BY <1>1, <3>1, <3>3
    <2>3. Spelled(ps, granted)
        BY <1>3, <1>4, <1>5, <1>6, <2>1, <2>2 DEF Spelled
    <2> QED BY <1>1, <2>3 DEF Readable, ps
<1>8. CASE /\ \A i \in DOMAIN granted : ~PermissionFromProto(form.w.actives[i]).ok
           /\ DOMAIN granted # {} => ~form.whole
    <2>1. DOMAIN ps.actives = {}
        BY <1>1, <1>2, <1>8, KeptNone
    <2>2. CASE DOMAIN granted = {}
        <3>1. Spelled(ps, granted)
            BY <1>3, <1>4, <1>5, <2>1, <2>2 DEF Spelled
        <3> QED BY <1>1, <3>1 DEF Readable, ps
    <2>3. CASE DOMAIN granted # {}
        BY <1>1, <1>3, <1>4, <1>5, <1>8, <2>1, <2>3 DEF Readable, ps
    <2> QED BY <2>2, <2>3
<1> QED BY <1>7, <1>8, FormsKeep

\* What a reading allows.
LEMMA OwnerAndWitness ==
    ASSUME NEW ps, NEW kind, DOMAIN ps.owner = 1..1, AtMostOne(ps.witness)
    PROVE  Allows(ps, 0, kind) /\ ~Allows(ps, 1, kind)
<1>1. Allows(ps, 0, kind)
    <2> DEFINE found == [i \in DOMAIN ps.owner |-> Role("owner", ps.owner[i])]
    <2>1. Locate(ps, 0) = found
        BY DEF Locate
    <2>2. found # <<>> /\ found[1].role = "owner"
        BY DEF Role
    <2> HIDE DEF found
    <2> QED BY <2>1, <2>2 DEF Allows
<1>2. ~Allows(ps, 1, kind)
    <2> DEFINE found == [i \in DOMAIN ps.witness |-> Role("witness", ps.witness[i])]
    <2>1. Locate(ps, 1) = found
        BY DEF Locate
    <2>2. DOMAIN ps.witness = {} \/ 1 \in DOMAIN ps.witness
        BY DEF AtMostOne
    <2>3. found = <<>> \/ found[1].role = "witness"
        BY <2>2 DEF Role
    <2> HIDE DEF found
    <2> QED BY <2>1, <2>3 DEF Allows
<1> QED BY <1>1, <1>2

LEMMA ActiveAllows ==
    ASSUME NEW ps, NEW granted, Spelled(ps, granted), NEW i \in DOMAIN granted, NEW kind \in Int
    PROVE  Allows(ps, i + 1, kind) <=> kind \in granted[i]
<1>1. PICK n \in 0..2 : DOMAIN granted = 1..n /\ \A j \in 1..n : granted[j] \in SUBSET (0..255)
    BY DEF Spelled, Grants
<1> DEFINE places == {j \in DOMAIN ps.actives : ps.actives[j].id = i + 1}
<1>2. places = {i} /\ i \in 1..2
    BY <1>1 DEF Spelled
<1>3. Min({i}) = i
    BY <1>2 DEF Min
<1>4. Locate(ps, i + 1) = <<Role("active", ps.actives[i])>>
    <2>1. i + 1 # 0 /\ i + 1 # 1
        BY <1>2
    <2>2. Locate(ps, i + 1) = IF places = {} THEN <<>> ELSE <<Role("active", ps.actives[Min(places)])>>
        BY <2>1 DEF Locate
    <2> HIDE DEF places
    <2> QED BY <1>2, <1>3, <2>2
<1>5. Allows(ps, i + 1, kind) <=> OpContains(ps.actives[i].operations, kind)
    <2> DEFINE found == <<Role("active", ps.actives[i])>>
    <2>1. found # <<>> /\ found[1].role = "active" /\ found[1].p = ps.actives[i]
        BY DEF Role
    <2> HIDE DEF found
    <2> QED BY <1>4, <2>1 DEF Allows, found
<1>6. ps.actives[i].operations = Bits(granted[i]) /\ granted[i] \in SUBSET (0..255)
    BY <1>1 DEF Spelled
<1>7. \A ids \in SUBSET (0..255) : OpContains(Bits(ids), kind) <=> kind \in ids
    BY BitmapIsTheList
<1> QED BY <1>5, <1>6, <1>7

LEMMA GrantInvGives == GrantInv => AllowsAsGranted
<1> SUFFICES ASSUME GrantInv, known # <<>>, NEW kind \in {-1, 0, 1, 6, 31, 46, 255, 256}
             PROVE  /\ Allows(known[1].perms, 0, kind) /\ ~Allows(known[1].perms, 1, kind)
                    /\ \A i \in DOMAIN known[1].granted :
                        LET allowed == Allows(known[1].perms, i + 1, kind)
                        IN /\ allowed => kind \in known[1].granted[i]
                           /\ known[1].whole => allowed = (kind \in known[1].granted[i])
    BY DEF AllowsAsGranted
<1> DEFINE k == known[1]
<1>1. Readable(k) /\ kind \in Int
    BY DEF GrantInv
<1> HIDE DEF k
<1>2. Allows(k.perms, 0, kind) /\ ~Allows(k.perms, 1, kind)
    BY <1>1, OwnerAndWitness DEF Readable, Spelled
<1>3. ASSUME NEW i \in DOMAIN k.granted
      PROVE  /\ Allows(k.perms, i + 1, kind) => kind \in k.granted[i]
             /\ k.whole => (Allows(k.perms, i + 1, kind) <=> kind \in k.granted[i])
    <2>1. CASE Spelled(k.perms, k.granted)
        BY <1>1, <2>1, ActiveAllows
    <2>2. CASE ~Spelled(k.perms, k.granted)
        <3>1. DOMAIN k.perms.actives = {} /\ ~k.whole /\ Grants(k.granted)
            BY <1>1, <2>2 DEF Readable
        <3>2. i + 1 # 0 /\ i + 1 # 1
            BY <3>1 DEF Grants
        <3>3. Locate(k.perms, i + 1) = <<>>
            BY <3>1, <3>2 DEF Locate
        <3> QED BY <3>1, <3>3 DEF Allows
    <2> QED BY <2>1, <2>2
<1>4. \A i : Allows(k.perms, i + 1, kind) \in BOOLEAN
    BY DEF Allows
<1>5. \A i : (kind \in k.granted[i]) \in BOOLEAN
    OBVIOUS
<1> QED BY <1>2, <1>3, <1>4, <1>5 DEF k

-------------------------------------------------------------------------------
(* Updates.                                                                *)

\* What is offered: active permissions numbered from 2, with a list for each.
Numbered(offer) ==
    /\ DOMAIN offer.ps = {"owner", "witness", "actives"}
    /\ DOMAIN offer.ps.owner = 1..1 /\ AtMostOne(offer.ps.witness)
    /\ \E n \in 0..2 : DOMAIN offer.ps.actives = 1..n /\ DOMAIN offer.lists = 1..n
    /\ \A i \in DOMAIN offer.ps.actives : /\ DOMAIN offer.ps.actives[i] = PermissionFields
                                          /\ offer.ps.actives[i].id = i + 1

LEMMA OffersAreNumbered == \A offer \in Offers : Numbered(offer)
<1>1. /\ DOMAIN Two = PermissionFields /\ Two.id = 2
      /\ DOMAIN Three = PermissionFields /\ Three.id = 3
    BY DEF Two, Three, Permission, PermissionFields
<1>2. ASSUME NEW p, NEW witness, NEW actives, NEW lists, NEW n \in 0..2, AtMostOne(witness),
             DOMAIN actives = 1..n, DOMAIN lists = 1..n,
             \A i \in 1..n : DOMAIN actives[i] = PermissionFields /\ actives[i].id = i + 1,
             NEW ps, DOMAIN ps = {"owner", "witness", "actives"},
             ps.owner = <<p>>, ps.witness = witness, ps.actives = actives
      PROVE  Numbered(Offer(ps, lists))
    <2>1. Offer(ps, lists).ps = ps /\ Offer(ps, lists).lists = lists
        BY DEF Offer
    <2>2. DOMAIN <<p>> = 1..1
        OBVIOUS
    <2> QED BY <1>2, <2>1, <2>2 DEF Numbered
<1>3. AtMostOne(<<>>) /\ \A p : AtMostOne(<<p>>)
    <2>1. 0 \in 0..1 /\ 1 \in 0..1 /\ DOMAIN <<>> = 1..0 /\ \A p : DOMAIN <<p>> = 1..1
        OBVIOUS
    <2> QED BY <2>1 DEF AtMostOne
<1>4. ASSUME NEW p PROVE Numbered(Offer(OwnerOf(p), <<>>))
    <2>1. 0 \in 0..2 /\ DOMAIN <<>> = 1..0 /\ \A i \in 1..0 : FALSE
        OBVIOUS
    <2>3. PICK ps : ps = OwnerOf(p)
        OBVIOUS
    <2>4. DOMAIN ps = {"owner", "witness", "actives"} /\ ps.owner = <<p>> /\ ps.witness = <<>> /\ ps.actives = <<>>
        BY <2>3 DEF OwnerOf
    <2> QED BY <1>2, <1>3, <2>1, <2>3, <2>4
<1>5. ASSUME NEW p, NEW list PROVE Numbered(Offer([OwnerOf(p) EXCEPT !.actives = <<Two>>], <<list>>))
    <2>1. 1 \in 0..2 /\ DOMAIN <<Two>> = 1..1 /\ DOMAIN <<list>> = 1..1
        OBVIOUS
    <2>2. \A i \in 1..1 : DOMAIN <<Two>>[i] = PermissionFields /\ <<Two>>[i].id = i + 1
        BY <1>1
    <2>3. PICK ps : ps = [OwnerOf(p) EXCEPT !.actives = <<Two>>]
        OBVIOUS
    <2>4. DOMAIN ps = {"owner", "witness", "actives"} /\ ps.owner = <<p>> /\ ps.witness = <<>> /\ ps.actives = <<Two>>
        BY <2>3 DEF OwnerOf
    <2> QED BY <1>2, <1>3, <2>1, <2>2, <2>3, <2>4
<1>6. ASSUME NEW p, NEW q, NEW list, NEW more
      PROVE  Numbered(Offer([OwnerOf(p) EXCEPT !.witness = <<q>>, !.actives = <<Two, Three>>], <<list, more>>))
    <2>1. 2 \in 0..2 /\ DOMAIN <<Two, Three>> = 1..2 /\ DOMAIN <<list, more>> = 1..2
        OBVIOUS
    <2>2. \A i \in 1..2 : DOMAIN <<Two, Three>>[i] = PermissionFields /\ <<Two, Three>>[i].id = i + 1
        <3>1. \A i \in 1..2 : i = 1 \/ i = 2
            OBVIOUS
        <3> QED BY <1>1, <3>1
    <2>3. PICK ps : ps = [OwnerOf(p) EXCEPT !.witness = <<q>>, !.actives = <<Two, Three>>]
        OBVIOUS
    <2>4. DOMAIN ps = {"owner", "witness", "actives"} /\ ps.owner = <<p>> /\ ps.witness = <<q>> /\ ps.actives = <<Two, Three>>
        BY <2>3 DEF OwnerOf
    <2> QED BY <1>2, <1>3, <2>1, <2>2, <2>3, <2>4
<1>7. \A offer \in Offers :
        \/ \E p : offer = Offer(OwnerOf(p), <<>>)
        \/ \E p, list : offer = Offer([OwnerOf(p) EXCEPT !.actives = <<Two>>], <<list>>)
        \/ \E p, q, list, more :
              offer = Offer([OwnerOf(p) EXCEPT !.witness = <<q>>, !.actives = <<Two, Three>>], <<list, more>>)
    <2> DEFINE none(p) == Offer(OwnerOf(p), <<>>)
               one(p, list) == Offer([OwnerOf(p) EXCEPT !.actives = <<Two>>], <<list>>)
               both(p, q, list, more) ==
                   Offer([OwnerOf(p) EXCEPT !.witness = <<q>>, !.actives = <<Two, Three>>], <<list, more>>)
    <2>1. \A offer \in Offers :
            \/ offer = none(Solo) \/ offer = none([Solo EXCEPT !.operations = {Bit(1)}])
            \/ offer = one(Permission(0, 2, <<K(Own, 1), K(Kms1, 1)>>, {}), <<1, 31>>)
            \/ offer = one(Solo, <<>>) \/ offer = one(Solo, <<1, 256>>)
            \/ offer = both(Solo, Permission(1, 1, <<K(Kms2, 1)>>, {}), <<1>>, <<46, 255, 1>>)
        BY Zenon DEF Offers
    <2> HIDE DEF none, one, both
    <2>2. \A offer \in Offers :
            \/ \E p : offer = none(p)
            \/ \E p, list : offer = one(p, list)
            \/ \E p, q, list, more : offer = both(p, q, list, more)
        BY <2>1
    <2> QED BY <2>2, Zenon DEF none, one, both
<1> SUFFICES ASSUME NEW offer \in Offers PROVE Numbered(offer)
    OBVIOUS
<1>8. CASE \E p : offer = Offer(OwnerOf(p), <<>>)
    BY <1>4, <1>8
<1>9. CASE \E p, list : offer = Offer([OwnerOf(p) EXCEPT !.actives = <<Two>>], <<list>>)
    <2>1. PICK p, list : offer = Offer([OwnerOf(p) EXCEPT !.actives = <<Two>>], <<list>>)
        BY <1>9
    <2>2. Numbered(Offer([OwnerOf(p) EXCEPT !.actives = <<Two>>], <<list>>))
        BY <1>5
    <2> QED BY <2>1, <2>2
<1>10. CASE \E p, q, list, more :
              offer = Offer([OwnerOf(p) EXCEPT !.witness = <<q>>, !.actives = <<Two, Three>>], <<list, more>>)
    <2>1. PICK p, q, list, more :
              offer = Offer([OwnerOf(p) EXCEPT !.witness = <<q>>, !.actives = <<Two, Three>>], <<list, more>>)
        BY <1>10
    <2>2. Numbered(Offer([OwnerOf(p) EXCEPT !.witness = <<q>>, !.actives = <<Two, Three>>], <<list, more>>))
        BY <1>6
    <2> QED BY <2>1, <2>2
<1> QED BY <1>7, <1>8, <1>9, <1>10

LEMMA ListsBecomeBits ==
    ASSUME NEW list, TryFromIter(list).ok
    PROVE  Range1(list) \in SUBSET (0..255) /\ TryFromIter(list).v = Bits(Range1(list))
<1>1. \A i \in DOMAIN list : OpInsert({}, list[i]).ok
    BY DEF TryFromIter, Err
<1>2. \A i \in DOMAIN list : list[i] \in 0..255
    BY <1>1 DEF OpInsert, Err
<1>3. Range1(list) \in SUBSET (0..255)
    BY <1>2 DEF Range1
<1>4. TryFromIter(list).v = {Bit(list[i]) : i \in DOMAIN list}
    BY <1>1 DEF TryFromIter, Ok
<1>5. {Bit(list[i]) : i \in DOMAIN list} = Bits(Range1(list))
    BY DEF Bits, Range1
<1> QED BY <1>3, <1>4, <1>5

LEMMA RequestIsSpelled ==
    ASSUME NEW offer \in Offers, Request(offer).ok
    PROVE  Wired(Request(offer).v, Granted(offer))
<1> DEFINE sets == [i \in DOMAIN offer.lists |-> TryFromIter(offer.lists[i])]
           actives == [i \in DOMAIN offer.ps.actives |->
                         [offer.ps.actives[i] EXCEPT !.operations = sets[i].v]]
           ps == [offer.ps EXCEPT !.actives = actives]
           granted == Granted(offer)
<1>1. Numbered(offer)
    BY OffersAreNumbered
<1>2. PICK n \in 0..2 : DOMAIN offer.ps.actives = 1..n /\ DOMAIN offer.lists = 1..n
    BY <1>1 DEF Numbered
<1>3. /\ \A i \in DOMAIN sets : sets[i].ok
      /\ Request(offer).v = UpdateToProto(ps)
    BY DEF Request, Err, Ok
<1>4. \A i \in 1..n : /\ granted[i] = Range1(offer.lists[i]) /\ granted[i] \in SUBSET (0..255)
                      /\ sets[i].v = Bits(granted[i])
    <2> SUFFICES ASSUME NEW i \in 1..n
                 PROVE  /\ granted[i] = Range1(offer.lists[i]) /\ granted[i] \in SUBSET (0..255)
                        /\ sets[i].v = Bits(granted[i])
        OBVIOUS
    <2>1. sets[i] = TryFromIter(offer.lists[i]) /\ granted[i] = Range1(offer.lists[i])
        BY <1>2 DEF Granted
    <2>2. TryFromIter(offer.lists[i]).ok
        BY <1>2, <1>3, <2>1
    <2> QED BY <2>1, <2>2, ListsBecomeBits
<1>5. DOMAIN granted = 1..n
    BY <1>2 DEF Granted
<1>6. Grants(granted)
    BY <1>4, <1>5 DEF Grants
<1> HIDE DEF sets, granted
<1>7. ASSUME NEW i \in 1..n
      PROVE  /\ DOMAIN actives[i] = PermissionFields /\ actives[i].id = i + 1
             /\ actives[i].operations = Bits(granted[i])
    <2>1. DOMAIN offer.ps.actives[i] = PermissionFields /\ offer.ps.actives[i].id = i + 1
        BY <1>1, <1>2 DEF Numbered
    <2>2. actives[i] = [offer.ps.actives[i] EXCEPT !.operations = sets[i].v]
        BY <1>2
    <2>3. PICK given, set : given = offer.ps.actives[i] /\ set = sets[i].v
        OBVIOUS
    <2>4. DOMAIN given = PermissionFields /\ given.id = i + 1 /\ actives[i] = [given EXCEPT !.operations = set]
        BY <2>1, <2>2, <2>3
    <2>5. set = Bits(granted[i])
        BY <1>4, <2>3
    <2> HIDE DEF actives
    <2> QED BY <2>4, <2>5 DEF PermissionFields
<1>8. DOMAIN actives = 1..n
    BY <1>2
<1>9. ps.owner = offer.ps.owner /\ ps.witness = offer.ps.witness /\ ps.actives = actives
    BY <1>1 DEF Numbered
<1> HIDE DEF actives, ps
<1>10. Spelled(ps, granted)
    BY <1>1, <1>5, <1>6, <1>7, <1>8, <1>9 DEF Spelled, Numbered
<1> QED BY <1>3, <1>10, ToTheNode DEF granted

LEMMA AmendedIsSpelled ==
    ASSUME NEW ps, NEW granted, DOMAIN ps = {"owner", "witness", "actives"}, Spelled(ps, granted),
           NEW set, NEW ids, 1 \in DOMAIN granted => ids \in SUBSET (0..255) /\ set = Bits(ids)
    PROVE  Wired(UpdateToProto([ps EXCEPT !.actives[1].operations = set]), [granted EXCEPT ![1] = ids])
<1> DEFINE given == [granted EXCEPT ![1] = ids]
           actives == [ps.actives EXCEPT ![1].operations = set]
<1>1. PICK n \in 0..2 : DOMAIN granted = 1..n /\ \A i \in 1..n : granted[i] \in SUBSET (0..255)
    BY DEF Spelled, Grants
<1>2. DOMAIN ps.actives = 1..n
    BY <1>1 DEF Spelled
<1>3. PICK qs : qs = [ps EXCEPT !.actives[1].operations = set]
    OBVIOUS
<1>4. qs.owner = ps.owner /\ qs.witness = ps.witness /\ qs.actives = actives
    BY <1>3
<1>5. DOMAIN given = 1..n /\ DOMAIN actives = 1..n
    BY <1>1, <1>2
<1>6. \A i \in 1..n : given[i] = (IF i = 1 THEN ids ELSE granted[i]) /\ given[i] \in SUBSET (0..255)
    <2> SUFFICES ASSUME NEW i \in 1..n
                 PROVE  given[i] = (IF i = 1 THEN ids ELSE granted[i]) /\ given[i] \in SUBSET (0..255)
        OBVIOUS
    <2>1. given[i] = (IF i = 1 THEN ids ELSE granted[i])
        BY <1>1
    <2>2. i = 1 => ids \in SUBSET (0..255)
        BY <1>1
    <2>3. granted[i] \in SUBSET (0..255)
        BY <1>1
    <2> HIDE DEF given
    <2> QED BY <2>1, <2>2, <2>3
<1>7. ASSUME NEW i \in 1..n
      PROVE  /\ DOMAIN actives[i] = PermissionFields
             /\ actives[i].id = i + 1 /\ actives[i].operations = Bits(given[i])
    <2>1. /\ DOMAIN ps.actives[i] = PermissionFields
          /\ ps.actives[i].id = i + 1 /\ ps.actives[i].operations = Bits(granted[i])
        BY <1>1 DEF Spelled
    <2>2. CASE i = 1
        <3>1. actives[i] = [ps.actives[i] EXCEPT !.operations = set]
            BY <1>2, <2>2
        <3>2. set = Bits(given[i])
            BY <1>1, <1>6, <2>2
        <3> HIDE DEF actives, given
        <3> QED BY <2>1, <3>1, <3>2 DEF PermissionFields
    <2>3. CASE i # 1
        <3>1. actives[i] = ps.actives[i] /\ given[i] = granted[i]
            BY <1>2, <1>6, <2>3
        <3> HIDE DEF actives, given
        <3> QED BY <2>1, <3>1
    <2> QED BY <2>2, <2>3
<1> HIDE DEF given, actives
<1>8. Grants(given)
    BY <1>5, <1>6 DEF Grants
<1>9. Spelled(qs, given)
    BY <1>4, <1>5, <1>7, <1>8 DEF Spelled
<1> QED BY <1>3, <1>9, ToTheNode DEF given

-------------------------------------------------------------------------------
(* The steps.                                                              *)

LEMMA GrantNothingMoves ==
    ASSUME GrantInv, UNCHANGED <<chain, known>>
    PROVE  GrantInv'
BY DEF GrantInv

\* The account's permissions are others now, and what was read is as it was.
LEMMA GrantChainMoves ==
    ASSUME GrantInv, NEW w, NEW granted, Wired(w, granted), Executed(w, granted), UNCHANGED known
    PROVE  GrantInv'
<1>1. chain'.perms = w /\ chain'.granted = granted
    BY DEF Executed
<1>2. Wired(chain.perms, chain.granted)'
    BY <1>1
<1>3. (known # <<>> => Readable(known[1]))'
    BY DEF GrantInv
<1> QED BY <1>2, <1>3 DEF GrantInv

LEMMA GrantInit == Init => GrantInv
<1> SUFFICES ASSUME Init PROVE GrantInv
    OBVIOUS
<1>1. PICK offer \in Offers :
        /\ Request(offer).ok
        /\ chain = [perms |-> Request(offer).v, granted |-> Granted(offer), updates |-> 0]
    BY DEF Init
<1>2. chain.perms = Request(offer).v /\ chain.granted = Granted(offer)
    BY <1>1
<1>3. known = <<>>
    BY DEF Init
<1> QED BY <1>1, <1>2, <1>3, RequestIsSpelled DEF GrantInv

LEMMA GrantUpdate ==
    ASSUME GrantInv, UpdatePermissions
    PROVE  GrantInv'
<1>1. PICK offer \in Offers :
        \/ Request(offer).ok /\ Executed(Request(offer).v, Granted(offer))
        \/ UNCHANGED chain
    BY DEF UpdatePermissions
<1>2. UNCHANGED known
    BY DEF UpdatePermissions
<1>3. CASE Request(offer).ok /\ Executed(Request(offer).v, Granted(offer))
    <2>1. Wired(Request(offer).v, Granted(offer))
        BY <1>3, RequestIsSpelled
    <2> QED BY <1>2, <1>3, <2>1, GrantChainMoves
<1>4. CASE UNCHANGED chain
    BY <1>2, <1>4, GrantNothingMoves
<1> QED BY <1>1, <1>3, <1>4

LEMMA GrantGetAccount ==
    ASSUME GrantInv, GetAccount
    PROVE  GrantInv'
<1>1. PICK form \in Forms(chain.perms) :
        known' = <<[perms |-> PermissionsFromProto(form.w), whole |-> form.whole,
                    granted |-> chain.granted, of |-> chain.perms]>>
    BY DEF GetAccount
<1>2. PICK k : k = [perms |-> PermissionsFromProto(form.w), whole |-> form.whole,
                    granted |-> chain.granted, of |-> chain.perms]
    OBVIOUS
<1>3. k.perms = PermissionsFromProto(form.w) /\ k.granted = chain.granted /\ k.whole = form.whole
    BY <1>2
<1>4. Wired(chain.perms, chain.granted)
    BY DEF GrantInv
<1>5. Readable(k)
    BY <1>3, <1>4, FromTheNode
<1>6. known'[1] = k
    BY <1>1, <1>2
<1>7. UNCHANGED chain
    BY DEF GetAccount
<1>8. Wired(chain.perms, chain.granted)'
    BY <1>4, <1>7
<1>9. Readable(known[1])'
    BY <1>5, <1>6
<1> QED BY <1>8, <1>9 DEF GrantInv

LEMMA GrantAmend ==
    ASSUME GrantInv, AmendPermissions
    PROVE  GrantInv'
<1>1. known # <<>> /\ known[1].whole /\ UNCHANGED known
    BY DEF AmendPermissions
<1>2. PICK k : k = known[1]
    OBVIOUS
<1>3. DOMAIN k.perms = {"owner", "witness", "actives"} /\ Spelled(k.perms, k.granted)
    BY <1>1, <1>2 DEF GrantInv, Readable
<1> DEFINE set == k.perms.actives[1].operations
           change(s) == UpdateToProto([k.perms EXCEPT !.actives[1].operations = s])
<1>4. 1 \in DOMAIN k.granted => set = Bits(k.granted[1]) /\ k.granted[1] \in SUBSET (0..255)
    BY <1>3 DEF Spelled, Grants
<1>5. \/ \E id \in {1, 46} :
            Executed(change(OpInsert(set, id).v), [k.granted EXCEPT ![1] = @ \cup {id}])
      \/ \E id \in {-1, 31} :
            Executed(change(OpRemove(set, id)), [k.granted EXCEPT ![1] = @ \ {id}])
    BY <1>2 DEF AmendPermissions
<1>6. ASSUME NEW id \in {1, 46},
             Executed(change(OpInsert(set, id).v), [k.granted EXCEPT ![1] = @ \cup {id}])
      PROVE  GrantInv'
    <2> DEFINE ids == k.granted[1] \cup {id}
    <2>1. 1 \in DOMAIN k.granted => ids \in SUBSET (0..255) /\ OpInsert(set, id).v = Bits(ids)
        <3> SUFFICES ASSUME 1 \in DOMAIN k.granted
                     PROVE  ids \in SUBSET (0..255) /\ OpInsert(set, id).v = Bits(ids)
            OBVIOUS
        <3>1. id \in 0..255 /\ ids \in SUBSET (0..255)
            BY <1>4
        <3>2. \A S \in SUBSET (0..255) : OpInsert(Bits(S), id) = Ok(Bits(S \cup {id}))
            BY <3>1, BitmapIsTheList
        <3>3. OpInsert(set, id) = Ok(Bits(ids))
            BY <1>4, <3>2
        <3> QED BY <3>1, <3>3 DEF Ok
    <2>2. Wired(change(OpInsert(set, id).v), [k.granted EXCEPT ![1] = ids])
        BY <1>3, <2>1, AmendedIsSpelled
    <2>3. Executed(change(OpInsert(set, id).v), [k.granted EXCEPT ![1] = ids])
        BY <1>6
    <2> QED BY <1>1, <2>2, <2>3, GrantChainMoves
<1>7. ASSUME NEW id \in {-1, 31},
             Executed(change(OpRemove(set, id)), [k.granted EXCEPT ![1] = @ \ {id}])
      PROVE  GrantInv'
    <2> DEFINE ids == k.granted[1] \ {id}
    <2>1. 1 \in DOMAIN k.granted => ids \in SUBSET (0..255) /\ OpRemove(set, id) = Bits(ids)
        <3> SUFFICES ASSUME 1 \in DOMAIN k.granted
                     PROVE  ids \in SUBSET (0..255) /\ OpRemove(set, id) = Bits(ids)
            OBVIOUS
        <3>1. id \in Int /\ ids \in SUBSET (0..255)
            BY <1>4
        <3>2. \A S \in SUBSET (0..255) : OpRemove(Bits(S), id) = Bits(S \ {id})
            BY <3>1, BitmapIsTheList
        <3> QED BY <1>4, <3>1, <3>2
    <2>2. Wired(change(OpRemove(set, id)), [k.granted EXCEPT ![1] = ids])
        BY <1>3, <2>1, AmendedIsSpelled
    <2>3. Executed(change(OpRemove(set, id)), [k.granted EXCEPT ![1] = ids])
        BY <1>7
    <2> QED BY <1>1, <2>2, <2>3, GrantChainMoves
<1> HIDE DEF change, set
<1> QED BY <1>5, <1>6, <1>7

LEMMA GrantStep == GrantInv /\ [Next]_vars => GrantInv'
<1> SUFFICES ASSUME GrantInv, [Next]_vars PROVE GrantInv'
    OBVIOUS
<1>1. CASE UpdatePermissions
    BY <1>1, GrantUpdate
<1>2. CASE AmendPermissions
    BY <1>2, GrantAmend
<1>3. CASE GetAccount
    BY <1>3, GrantGetAccount
<1>4. CASE UNCHANGED <<chain, known>>
    BY <1>4, GrantNothingMoves
<1>5. ASSUME NEW p \in Parties,
             \/ SaveKeystore(p) \/ LoadKeystore(p) \/ NextSigner(p) \/ LoadKms(p)
             \/ SetDefault(p) \/ BuildTransaction(p) \/ HandOver(p) \/ SignMessage(p)
      PROVE  UNCHANGED <<chain, known>>
    BY <1>5 DEF SaveKeystore, LoadKeystore, NextSigner, LoadKms, SetDefault, BuildTransaction,
                HandOver, SignMessage
<1>6. ASSUME Damage \/ NewIter \/ Repoint \/ Sign \/ AskWeight \/ Broadcast \/ UNCHANGED vars
      PROVE  UNCHANGED <<chain, known>>
    BY <1>6 DEF Damage, NewIter, Repoint, Sign, AskWeight, Broadcast, vars
<1> QED BY <1>1, <1>2, <1>3, <1>4, <1>5, <1>6 DEF Next

(***************************************************************************)
(* Whatever the account's permissions are, however the node spells them,   *)
(* and however often they are read, amended and written back: a reading    *)
(* allows the operations that were granted, or fewer when it lost some.    *)
(***************************************************************************)
THEOREM AllowsAsGrantedHolds == Spec => []AllowsAsGranted
BY GrantInit, GrantStep, GrantInvGives, PTL DEF Spec

-------------------------------------------------------------------------------
(* Weights: the sum over at most three keys of different addresses.        *)

\* The recursion of a sum.
Adds(w, acc) ==
    acc = [s \in SUBSET DOMAIN w |->
              IF s = {} THEN 0 ELSE w[CHOOSE x \in s : TRUE] + acc[s \ {CHOOSE x \in s : TRUE}]]

LEMMA TotalIsASum ==
    ASSUME NEW w, NEW g, Adds(w, g)
    PROVE  \E acc : Adds(w, acc) /\ Total(w) = acc[DOMAIN w]
<1> DEFINE acc == CHOOSE f : Adds(w, f)
<1>1. Adds(w, acc)
    BY Zenon
<1>2. Total(w) = acc[DOMAIN w]
    BY Zenon DEF Total, MapThenSumSet, MapThenFoldSet, Adds
<1> QED BY <1>1, <1>2

\* What x adds to a sum over s.
Part(w, s, x) == IF x \in s THEN w[x] ELSE 0

LEMMA TotalOfThree ==
    ASSUME NEW w, NEW a, NEW b, NEW c, a # b, a # c, b # c, DOMAIN w \subseteq {a, b, c},
           \A x \in DOMAIN w : w[x] \in Int
    PROVE  Total(w) = Part(w, DOMAIN w, a) + Part(w, DOMAIN w, b) + Part(w, DOMAIN w, c)
<1> DEFINE S == DOMAIN w
           sum(s) == Part(w, s, a) + Part(w, s, b) + Part(w, s, c)
           g == [s \in SUBSET S |-> sum(s)]
<1>1. ASSUME NEW s \in SUBSET S PROVE \A x \in {a, b, c} : Part(w, s, x) \in Int
    BY DEF Part
<1>2. ASSUME NEW s \in SUBSET S, NEW x \in s PROVE sum(s) = w[x] + sum(s \ {x})
    <2>1. x \in {a, b, c} /\ w[x] \in Int
        OBVIOUS
    <2>2. ASSUME NEW y \in {a, b, c}, y # x PROVE Part(w, s \ {x}, y) = Part(w, s, y)
        BY <2>2 DEF Part
    <2>3. Part(w, s \ {x}, x) = 0 /\ Part(w, s, x) = w[x]
        BY DEF Part
    <2>4. \A y \in {a, b, c} : Part(w, s, y) \in Int
        BY <1>1
    <2>5. CASE x = a
        BY <2>1, <2>2, <2>3, <2>4, <2>5
    <2>6. CASE x = b
        BY <2>1, <2>2, <2>3, <2>4, <2>6
    <2>7. CASE x = c
        BY <2>1, <2>2, <2>3, <2>4, <2>7
    <2> QED BY <2>1, <2>5, <2>6, <2>7
<1>3. sum({}) = 0
    BY DEF Part
<1> HIDE DEF sum
<1>4. ASSUME NEW s \in SUBSET S, s # {} PROVE (CHOOSE x \in s : TRUE) \in s
    BY <1>4
<1>5. Adds(w, g)
    <2>1. ASSUME NEW s \in SUBSET S
          PROVE  g[s] = IF s = {} THEN 0 ELSE w[CHOOSE x \in s : TRUE] + g[s \ {CHOOSE x \in s : TRUE}]
        <3>1. CASE s = {}
            BY <1>3, <3>1
        <3>2. CASE s # {}
            <4>1. PICK y : y = CHOOSE x \in s : TRUE
                OBVIOUS
            <4>2. y \in s /\ s \ {y} \in SUBSET S
                BY <1>4, <3>2, <4>1
            <4>3. sum(s) = w[y] + sum(s \ {y})
                BY <1>2, <4>2
            <4> QED BY <3>2, <4>1, <4>2, <4>3
        <3> QED BY <3>1, <3>2
    <2> QED BY <2>1, Zenon DEF Adds
<1>6. PICK acc : Adds(w, acc) /\ Total(w) = acc[S]
    BY <1>5, TotalIsASum
<1>7. ASSUME NEW s \in SUBSET S, \A x \in s : acc[s \ {x}] = sum(s \ {x}) PROVE acc[s] = sum(s)
    <2>1. acc[s] = IF s = {} THEN 0 ELSE w[CHOOSE x \in s : TRUE] + acc[s \ {CHOOSE x \in s : TRUE}]
        BY <1>6, Zenon DEF Adds
    <2>2. PICK y : y = CHOOSE x \in s : TRUE
        OBVIOUS
    <2>3. s # {} => y \in s
        BY <1>4, <2>2
    <2> QED BY <1>2, <1>3, <1>7, <2>1, <2>2, <2>3
<1>8. acc[{}] = sum({})
    BY <1>7
<1>9. ASSUME NEW x \in S PROVE acc[{x}] = sum({x})
    <2>1. {x} \ {x} = {} /\ {x} \in SUBSET S
        OBVIOUS
    <2> QED BY <1>7, <1>8, <2>1
<1>10. ASSUME NEW x \in S, NEW y \in S PROVE acc[{x, y}] = sum({x, y})
    <2>1. {x, y} \in SUBSET S
        OBVIOUS
    <2>2. CASE x = y
        <3>1. {x, y} = {x}
            BY <2>2
        <3> QED BY <1>9, <3>1
    <2>3. CASE x # y
        <3>1. {x, y} \ {x} = {y} /\ {x, y} \ {y} = {x}
            BY <2>3
        <3> QED BY <1>7, <1>9, <2>1, <3>1
    <2> QED BY <2>2, <2>3
<1>11. ASSUME NEW s \in SUBSET S, NEW x \in s PROVE \/ s \ {x} = {}
                                                  \/ \E y, z \in S : s \ {x} = {y, z}
    <2>1. PICK d : d = s \ {x}
        OBVIOUS
    <2>2. x \in {a, b, c} /\ d \subseteq {a, b, c} /\ x \notin d /\ d \subseteq S
        BY <2>1
    <2>3. \/ d = {} \/ d = {a} \/ d = {b} \/ d = {c}
          \/ d = {a, b} \/ d = {a, c} \/ d = {b, c}
        BY <2>2
    <2>4. \A y, z : d = {y, z} => y \in S /\ z \in S
        BY <2>2
    <2>5. \A y : {y} = {y, y}
        OBVIOUS
    <2> QED BY <2>1, <2>3, <2>4, <2>5
<1>12. \A x \in S : acc[S \ {x}] = sum(S \ {x})
    <2> SUFFICES ASSUME NEW x \in S PROVE acc[S \ {x}] = sum(S \ {x})
        OBVIOUS
    <2>1. \/ S \ {x} = {}
          \/ \E y, z \in S : S \ {x} = {y, z}
        <3>1. S \in SUBSET S
            OBVIOUS
        <3> HIDE DEF S
        <3> QED BY <1>11, <3>1
    <2>2. PICK d : d = S \ {x}
        OBVIOUS
    <2>3. acc[d] = sum(d)
        BY <1>8, <1>10, <2>1, <2>2
    <2> QED BY <2>2, <2>3
<1>13. acc[S] = sum(S)
    BY <1>7, <1>12
<1> QED BY <1>6, <1>13 DEF sum

LEMMA TotalGrows ==
    ASSUME NEW f, NEW g, NEW a, NEW b, NEW c, a # b, a # c, b # c, DOMAIN g \subseteq {a, b, c},
           DOMAIN f \subseteq DOMAIN g, \A x \in DOMAIN g : g[x] \in Nat, \A x \in DOMAIN f : f[x] = g[x]
    PROVE  Total(f) \in Nat /\ Total(g) \in Nat /\ Total(f) <= Total(g)
<1>1. Total(g) = Part(g, DOMAIN g, a) + Part(g, DOMAIN g, b) + Part(g, DOMAIN g, c)
    BY TotalOfThree
<1>2. Total(f) = Part(f, DOMAIN f, a) + Part(f, DOMAIN f, b) + Part(f, DOMAIN f, c)
    <2>1. DOMAIN f \subseteq {a, b, c} /\ \A x \in DOMAIN f : f[x] \in Int
        OBVIOUS
    <2> QED BY <2>1, TotalOfThree
<1>3. ASSUME NEW x PROVE /\ Part(f, DOMAIN f, x) \in Nat /\ Part(g, DOMAIN g, x) \in Nat
                         /\ Part(f, DOMAIN f, x) <= Part(g, DOMAIN g, x)
    BY DEF Part
<1> QED BY <1>1, <1>2, <1>3

-------------------------------------------------------------------------------
(* The keys of a permission, of which a permission here has at most three. *)

\* A list of that length, of keys of different addresses.
Differ(keys, n) ==
    n \in Nat /\ DOMAIN keys = 1..n /\ \A i, j \in 1..n : keys[i].address = keys[j].address => i = j
KeysWell(keys) ==
    \E n \in 1..3 : /\ DOMAIN keys = 1..n
                    /\ \A i \in 1..n : keys[i].weight \in Nat
                    /\ \A i, j \in 1..n : keys[i].address = keys[j].address => i = j
\* Who has a weight.
Voters(keys) == {keys[i].address : i \in DOMAIN keys}

LEMMA VotersAreThree ==
    ASSUME NEW keys, KeysWell(keys)
    PROVE  \E a, b, c : a # b /\ a # c /\ b # c /\ Voters(keys) \subseteq {a, b, c}
<1>1. PICK n \in 1..3 : DOMAIN keys = 1..n /\ \A i, j \in 1..n : keys[i].address = keys[j].address => i = j
    BY DEF KeysWell
<1>2. \A a, b : \E c \in {1, 2, 3} : c # a /\ c # b
    OBVIOUS
<1>3. PICK a : a = keys[1].address
    OBVIOUS
<1>4. CASE n = 1
    <2>1. Voters(keys) = {a}
        BY <1>1, <1>3, <1>4 DEF Voters
    <2>2. PICK b : b # a
        BY <1>2
    <2>3. PICK c : c # a /\ c # b
        BY <1>2
    <2> QED BY <2>1, <2>2, <2>3
<1>5. PICK b : b = keys[2].address
    OBVIOUS
<1>6. CASE n = 2
    <2>1. Voters(keys) = {a, b} /\ a # b
        BY <1>1, <1>3, <1>5, <1>6 DEF Voters
    <2>2. PICK c : c # a /\ c # b
        BY <1>2
    <2> QED BY <2>1, <2>2
<1>7. PICK c : c = keys[3].address
    OBVIOUS
<1>8. CASE n = 3
    <2>1. Voters(keys) = {a, b, c} /\ a # b /\ a # c /\ b # c
        BY <1>1, <1>3, <1>5, <1>7, <1>8 DEF Voters
    <2> QED BY <2>1
<1>9. n = 1 \/ n = 2 \/ n = 3
    OBVIOUS
<1> QED BY <1>4, <1>6, <1>8, <1>9

\* The client looks for the first key of an address, the node for one.
LEMMA WeightIs ==
    ASSUME NEW p, NEW n, Differ(p.keys, n)
    PROVE  /\ \A j \in 1..n : WeightOf(p, p.keys[j].address) = <<p.keys[j].weight>>
           /\ \A a : WeightOf(p, a) # <<>> <=> a \in Voters(p.keys)
<1> DEFINE own(a) == {i \in DOMAIN p.keys : p.keys[i].address = a}
<1>1. \A a : WeightOf(p, a) = IF own(a) = {} THEN <<>> ELSE <<p.keys[Min(own(a))].weight>>
    BY DEF WeightOf
<1>2. ASSUME NEW j \in 1..n PROVE own(p.keys[j].address) = {j} /\ Min({j}) = j
    BY DEF Min, Differ
<1>3. \A a : own(a) = {} <=> a \notin Voters(p.keys)
    BY DEF Voters
<1> HIDE DEF own
<1>4. \A x : <<x>> # <<>>
    OBVIOUS
<1>5. \A j \in 1..n : own(p.keys[j].address) # {}
    BY <1>2
<1>6. ASSUME NEW j \in 1..n PROVE WeightOf(p, p.keys[j].address) = <<p.keys[j].weight>>
    BY <1>1, <1>2, <1>5
<1> QED BY <1>1, <1>3, <1>4, <1>6

\* The weights of those that signed.
Votes(keys, signed) ==
    [a \in signed \cap Voters(keys) |-> keys[CHOOSE j \in DOMAIN keys : keys[j].address = a].weight]

LEMMA VotesOf ==
    ASSUME NEW keys, NEW signed
    PROVE  DOMAIN Votes(keys, signed) = signed \cap Voters(keys)
BY DEF Votes

LEMMA VotesAre ==
    ASSUME NEW keys, NEW n, NEW signed, Differ(keys, n)
    PROVE  \A j \in 1..n : keys[j].address \in signed => Votes(keys, signed)[keys[j].address] = keys[j].weight
<1> SUFFICES ASSUME NEW j \in 1..n, keys[j].address \in signed
             PROVE  Votes(keys, signed)[keys[j].address] = keys[j].weight
    OBVIOUS
<1>1. PICK a : a = keys[j].address
    OBVIOUS
<1>2. PICK k : k = CHOOSE i \in DOMAIN keys : keys[i].address = a
    OBVIOUS
<1>3. k = j
    BY <1>1, <1>2 DEF Differ
<1>4. a \in signed \cap Voters(keys)
    BY <1>1 DEF Voters, Differ
<1>5. Votes(keys, signed)[a] = keys[k].weight
    BY <1>2, <1>4 DEF Votes
<1> QED BY <1>1, <1>3, <1>5

LEMMA ClientTotal ==
    ASSUME NEW p, NEW n, NEW addresses, Differ(p.keys, n)
    PROVE  WeightOfAll(p, addresses) = Total(Votes(p.keys, Range1(addresses)))
<1> DEFINE signed == Range1(addresses)
           votes == Votes(p.keys, signed)
           counted == {a \in {addresses[i] : i \in DOMAIN addresses} : WeightOf(p, a) # <<>>}
<1>1. counted = signed \cap Voters(p.keys)
    BY WeightIs DEF Range1
<1>2. /\ DOMAIN votes = signed \cap Voters(p.keys)
      /\ \A j \in 1..n : p.keys[j].address \in signed => votes[p.keys[j].address] = p.keys[j].weight
    <2>1. DOMAIN votes = signed \cap Voters(p.keys)
        BY VotesOf
    <2>2. \A j \in 1..n : p.keys[j].address \in signed => votes[p.keys[j].address] = p.keys[j].weight
        BY VotesAre
    <2> QED BY <2>1, <2>2
<1>3. votes = [a \in signed \cap Voters(p.keys) |-> votes[a]]
    BY DEF Votes
<1> HIDE DEF counted, signed, votes
<1>4. ASSUME NEW a \in counted PROVE WeightOf(p, a)[1] = votes[a]
    <2>1. PICK j \in 1..n : a = p.keys[j].address
        BY <1>1 DEF Voters, Differ
    <2>2. WeightOf(p, a) = <<p.keys[j].weight>>
        BY <2>1, WeightIs
    <2> QED BY <1>1, <1>2, <2>1, <2>2
<1>5. [a \in counted |-> WeightOf(p, a)[1]] = votes
    BY <1>1, <1>3, <1>4
<1> QED BY <1>5 DEF WeightOfAll, counted, votes, signed

LEMMA NodeTotal ==
    ASSUME NEW q, NEW addresses
    PROVE  NodeWeighs(q, addresses) = Total(Votes(q.keys, Range1(addresses)))
<1>1. NodeApproved(q, addresses) = Range1(addresses) \cap Voters(q.keys)
    BY DEF NodeApproved, Range1, Voters
<1> QED BY <1>1 DEF NodeWeighs, Votes

\* A reading of a permission has all of its keys, or all but the first.
SameKeys(p, q) ==
    /\ DOMAIN p.keys = DOMAIN q.keys
    /\ \A i \in DOMAIN q.keys : p.keys[i].address = q.keys[i].address /\ p.keys[i].weight = q.keys[i].weight
LessKeys(p, q) ==
    \E n \in 1..3 :
        /\ DOMAIN q.keys = 1..n /\ DOMAIN p.keys = 1..n - 1
        /\ \A i \in 1..n - 1 : /\ p.keys[i].address = q.keys[i + 1].address
                               /\ p.keys[i].weight = q.keys[i + 1].weight

LEMMA SameTotals ==
    ASSUME NEW p, NEW q, NEW addresses, KeysWell(q.keys), SameKeys(p, q)
    PROVE  WeightOfAll(p, addresses) = NodeWeighs(q, addresses)
<1> DEFINE signed == Range1(addresses)
<1>1. PICK n \in 1..3 : DOMAIN q.keys = 1..n /\ \A i, j \in 1..n : q.keys[i].address = q.keys[j].address => i = j
    BY DEF KeysWell
<1>2. /\ DOMAIN p.keys = 1..n /\ n \in Nat
      /\ \A i \in 1..n : p.keys[i].address = q.keys[i].address /\ p.keys[i].weight = q.keys[i].weight
      /\ Differ(p.keys, n) /\ Differ(q.keys, n)
    BY <1>1 DEF SameKeys, Differ
<1>3. Voters(p.keys) = Voters(q.keys)
    BY <1>1, <1>2 DEF Voters
<1>4. ASSUME NEW a \in signed \cap Voters(q.keys) PROVE Votes(p.keys, signed)[a] = Votes(q.keys, signed)[a]
    <2>1. PICK j \in 1..n : a = q.keys[j].address
        BY <1>1 DEF Voters
    <2>2. Votes(q.keys, signed)[a] = q.keys[j].weight
        BY <1>2, <2>1, VotesAre
    <2>3. Votes(p.keys, signed)[a] = p.keys[j].weight
        BY <1>2, <2>1, VotesAre
    <2> QED BY <1>2, <2>2, <2>3
<1>5. \A keys : Votes(keys, signed) = [a \in signed \cap Voters(keys) |-> Votes(keys, signed)[a]]
    BY DEF Votes
<1>6. Votes(p.keys, signed) = Votes(q.keys, signed)
    BY <1>3, <1>4, <1>5
<1>7. WeightOfAll(p, addresses) = Total(Votes(p.keys, signed))
    BY <1>2, ClientTotal
<1> QED BY <1>6, <1>7, NodeTotal

LEMMA TotalIsNat ==
    ASSUME NEW q, NEW addresses, KeysWell(q.keys)
    PROVE  NodeWeighs(q, addresses) \in Nat
<1> DEFINE votes == Votes(q.keys, Range1(addresses))
<1>1. PICK n \in 1..3 : /\ DOMAIN q.keys = 1..n /\ \A i \in 1..n : q.keys[i].weight \in Nat
                        /\ Differ(q.keys, n)
    BY DEF KeysWell, Differ
<1>2. /\ DOMAIN votes = Range1(addresses) \cap Voters(q.keys)
      /\ \A j \in 1..n : q.keys[j].address \in Range1(addresses) => votes[q.keys[j].address] = q.keys[j].weight
    <2>1. DOMAIN votes = Range1(addresses) \cap Voters(q.keys)
        BY VotesOf
    <2>2. \A j \in 1..n : q.keys[j].address \in Range1(addresses) => votes[q.keys[j].address] = q.keys[j].weight
        BY <1>1, VotesAre
    <2> QED BY <2>1, <2>2
<1> HIDE DEF votes
<1>3. \A x \in DOMAIN votes : votes[x] \in Nat
    BY <1>1, <1>2 DEF Voters
<1>4. PICK a, b, c : a # b /\ a # c /\ b # c /\ Voters(q.keys) \subseteq {a, b, c}
    BY VotersAreThree
<1>5. DOMAIN votes \subseteq {a, b, c}
    BY <1>2, <1>4
<1>6. Total(votes) \in Nat
    BY <1>3, <1>4, <1>5, TotalGrows
<1> QED BY <1>6, NodeTotal DEF votes

LEMMA LessTotals ==
    ASSUME NEW p, NEW q, NEW addresses, KeysWell(q.keys), LessKeys(p, q)
    PROVE  WeightOfAll(p, addresses) \in Nat /\ WeightOfAll(p, addresses) <= NodeWeighs(q, addresses)
<1> DEFINE signed == Range1(addresses)
           f == Votes(p.keys, signed)
           g == Votes(q.keys, signed)
<1>1. PICK n \in 1..3 :
        /\ DOMAIN q.keys = 1..n /\ DOMAIN p.keys = 1..n - 1
        /\ \A i \in 1..n - 1 : /\ p.keys[i].address = q.keys[i + 1].address
                               /\ p.keys[i].weight = q.keys[i + 1].weight
    BY DEF LessKeys
<1>2. /\ \A i \in 1..n : q.keys[i].weight \in Nat
      /\ \A i, j \in 1..n : q.keys[i].address = q.keys[j].address => i = j
      /\ Differ(q.keys, n)
    BY <1>1 DEF KeysWell, Differ
<1>3. Differ(p.keys, n - 1)
    BY <1>1, <1>2 DEF Differ
<1>4. /\ DOMAIN g = signed \cap Voters(q.keys)
      /\ \A j \in 1..n : q.keys[j].address \in signed => g[q.keys[j].address] = q.keys[j].weight
    <2>1. DOMAIN g = signed \cap Voters(q.keys)
        BY VotesOf
    <2>2. \A j \in 1..n : q.keys[j].address \in signed => g[q.keys[j].address] = q.keys[j].weight
        BY <1>1, <1>2, VotesAre
    <2> QED BY <2>1, <2>2
<1>5. PICK m : m = n - 1
    OBVIOUS
<1>6. /\ DOMAIN f = signed \cap Voters(p.keys)
      /\ \A j \in 1..m : p.keys[j].address \in signed => f[p.keys[j].address] = p.keys[j].weight
    <2>1. DOMAIN f = signed \cap Voters(p.keys)
        BY VotesOf
    <2>2. Differ(p.keys, m)
        BY <1>3, <1>5
    <2>3. \A j \in 1..m : p.keys[j].address \in signed => f[p.keys[j].address] = p.keys[j].weight
        BY <2>2, VotesAre
    <2> QED BY <2>1, <2>3
<1> HIDE DEF f, g, signed
<1>7. ASSUME NEW x \in DOMAIN f PROVE x \in DOMAIN g /\ f[x] = g[x]
    <2>1. PICK i \in 1..m : x = p.keys[i].address
        BY <1>1, <1>5, <1>6 DEF Voters
    <2>2. i \in 1..n - 1 /\ i + 1 \in 1..n /\ x = q.keys[i + 1].address /\ p.keys[i].weight = q.keys[i + 1].weight
        BY <1>1, <1>5, <2>1
    <2>3. x \in signed /\ x \in Voters(q.keys)
        BY <1>1, <1>6, <2>2 DEF Voters
    <2> QED BY <1>4, <1>6, <2>1, <2>2, <2>3
<1>8. \A x \in DOMAIN g : g[x] \in Nat
    BY <1>1, <1>2, <1>4 DEF Voters
<1>9. PICK a, b, c : a # b /\ a # c /\ b # c /\ Voters(q.keys) \subseteq {a, b, c}
    BY VotersAreThree
<1>10. DOMAIN g \subseteq {a, b, c}
    BY <1>4, <1>9
<1>11. Total(f) \in Nat /\ Total(f) <= Total(g)
    BY <1>7, <1>8, <1>9, <1>10, TotalGrows
<1>12. WeightOfAll(p, addresses) = Total(f)
    BY <1>3, ClientTotal DEF f, signed
<1>13. NodeWeighs(q, addresses) = Total(g)
    BY NodeTotal DEF g, signed
<1> QED BY <1>11, <1>12, <1>13

\* Signatures of distinct keys as they were read are of distinct keys at the
\* node, and when all keys were read, the other way around.
LEMMA CleanIsTaken ==
    ASSUME NEW p, NEW q, NEW addresses, KeysWell(q.keys), SameKeys(p, q) \/ LessKeys(p, q)
    PROVE  /\ EachOnce(p, addresses) => NodeTakes(q, addresses)
           /\ SameKeys(p, q) => (EachOnce(p, addresses) <=> NodeTakes(q, addresses))
<1>1. PICK n \in 1..3 : DOMAIN q.keys = 1..n /\ \A i, j \in 1..n : q.keys[i].address = q.keys[j].address => i = j
    BY DEF KeysWell
<1>2. PICK m \in Nat : Differ(p.keys, m)
    <2>1. CASE SameKeys(p, q)
        BY <1>1, <2>1 DEF SameKeys, Differ
    <2>2. CASE LessKeys(p, q)
        <3>1. PICK l \in 1..3 :
                /\ DOMAIN q.keys = 1..l /\ DOMAIN p.keys = 1..l - 1
                /\ \A i \in 1..l - 1 : p.keys[i].address = q.keys[i + 1].address
            BY <2>2 DEF LessKeys
        <3>2. \A i, j \in 1..l : q.keys[i].address = q.keys[j].address => i = j
            BY <1>1, <3>1
        <3>3. Differ(p.keys, l - 1)
            BY <3>1, <3>2 DEF Differ
        <3> QED BY <3>3
    <2> QED BY <2>1, <2>2
<1>3. \A a : WeightOf(p, a) # <<>> <=> a \in Voters(p.keys)
    BY <1>2, WeightIs
<1>4. Voters(p.keys) \subseteq Voters(q.keys) /\ (SameKeys(p, q) => Voters(p.keys) = Voters(q.keys))
    <2>1. CASE SameKeys(p, q)
        BY <2>1 DEF SameKeys, Voters
    <2>2. CASE LessKeys(p, q)
        <3>1. \A i \in DOMAIN p.keys : \E j \in DOMAIN q.keys : p.keys[i].address = q.keys[j].address
            <4>1. PICK l \in 1..3 :
                    /\ DOMAIN q.keys = 1..l /\ DOMAIN p.keys = 1..l - 1
                    /\ \A i \in 1..l - 1 : p.keys[i].address = q.keys[i + 1].address
                BY <2>2 DEF LessKeys
            <4>2. \A i \in 1..l - 1 : i + 1 \in 1..l
                OBVIOUS
            <4> QED BY <4>1, <4>2
        <3>2. Voters(p.keys) \subseteq Voters(q.keys)
            BY <3>1 DEF Voters
        <3>3. SameKeys(p, q) => Voters(p.keys) = Voters(q.keys)
            BY DEF SameKeys, Voters
        <3> QED BY <3>2, <3>3
    <2> QED BY <2>1, <2>2
<1>5. \A a : (\E j \in DOMAIN q.keys : q.keys[j].address = a) <=> a \in Voters(q.keys)
    BY DEF Voters
<1> QED BY <1>3, <1>4, <1>5, Zenon DEF EachOnce, NodeTakes

-------------------------------------------------------------------------------
(* Keys that are read back.                                                *)

LEMMA AscendingPair ==
    ASSUME NEW x \in Nat, NEW y \in Nat, x < y
    PROVE  Ascending({x, y}) = <<x, y>>
<1>1. Cardinality({x, y}) = 2
    <2>1. IsFiniteSet({x}) /\ Cardinality({x}) = 1
        BY FS_Singleton
    <2>2. Cardinality({x} \cup {y}) = IF y \in {x} THEN Cardinality({x}) ELSE Cardinality({x}) + 1
        BY <2>1, FS_AddElement, Zenon
    <2>3. {x, y} = {x} \cup {y} /\ y \notin {x}
        OBVIOUS
    <2> QED BY <2>1, <2>2, <2>3
<1> DEFINE Is(f) == \A j, k \in DOMAIN f : j < k => f[j] < f[k]
<1>2. ASSUME NEW f \in [1..2 -> {x, y}], Is(f) PROVE f = <<x, y>>
    <2>1. f[1] < f[2] /\ f[1] \in {x, y} /\ f[2] \in {x, y}
        BY <1>2
    <2> QED BY <2>1
<1>3. <<x, y>> \in [1..2 -> {x, y}] /\ Is(<<x, y>>)
    <2>1. DOMAIN <<x, y>> = {1, 2} /\ <<x, y>>[1] = x /\ <<x, y>>[2] = y
        OBVIOUS
    <2> QED BY <2>1
<1>4. Ascending({x, y}) = CHOOSE f \in [1..2 -> {x, y}] : Is(f)
    BY <1>1 DEF Ascending
<1> HIDE DEF Is
<1> QED BY <1>2, <1>3, <1>4, Zenon

LEMMA AscendingThree == Ascending({1, 2, 3}) = <<1, 2, 3>>
<1>1. Cardinality({1, 2, 3}) = 3
    <2>1. IsFiniteSet({1}) /\ Cardinality({1}) = 1
        BY FS_Singleton
    <2>2. /\ IsFiniteSet({1} \cup {2})
          /\ Cardinality({1} \cup {2}) = IF 2 \in {1} THEN Cardinality({1}) ELSE Cardinality({1}) + 1
        BY <2>1, FS_AddElement, Zenon
    <2>3. {1, 2} = {1} \cup {2} /\ 2 \notin {1}
        OBVIOUS
    <2>4. IsFiniteSet({1, 2}) /\ Cardinality({1, 2}) = 2
        BY <2>1, <2>2, <2>3
    <2>5. Cardinality({1, 2} \cup {3}) = IF 3 \in {1, 2} THEN Cardinality({1, 2}) ELSE Cardinality({1, 2}) + 1
        BY <2>4, FS_AddElement, Zenon
    <2>6. {1, 2, 3} = {1, 2} \cup {3} /\ 3 \notin {1, 2}
        OBVIOUS
    <2> QED BY <2>4, <2>5, <2>6
<1> DEFINE Is(f) == \A j, k \in DOMAIN f : j < k => f[j] < f[k]
<1>2. ASSUME NEW f \in [1..3 -> {1, 2, 3}], Is(f) PROVE f = <<1, 2, 3>>
    <2>1. f[1] < f[2] /\ f[2] < f[3] /\ f[1] \in {1, 2, 3} /\ f[2] \in {1, 2, 3} /\ f[3] \in {1, 2, 3}
        BY <1>2
    <2>2. f[1] = 1 /\ f[2] = 2 /\ f[3] = 3
        BY <2>1
    <2> QED BY <2>2
<1>3. <<1, 2, 3>> \in [1..3 -> {1, 2, 3}] /\ Is(<<1, 2, 3>>)
    <2>1. DOMAIN <<1, 2, 3>> = {1, 2, 3} /\ <<1, 2, 3>>[1] = 1 /\ <<1, 2, 3>>[2] = 2 /\ <<1, 2, 3>>[3] = 3
        OBVIOUS
    <2> QED BY <2>1
<1>4. Ascending({1, 2, 3}) = CHOOSE f \in [1..3 -> {1, 2, 3}] : Is(f)
    BY <1>1 DEF Ascending
<1> HIDE DEF Is
<1> QED BY <1>2, <1>3, <1>4, Zenon

\* All of the keys are read, or all but the first.
LEMMA SiftedAll ==
    ASSUME NEW list, NEW n \in 1..3
    PROVE  Sifted(list, 1..n) = [i \in 1..n |-> list[i]]
<1>1. Ascending(1..n) = [i \in 1..n |-> i]
    <2>1. CASE n = 1
        <3>1. 1..n = {1}
            BY <2>1
        <3>2. [i \in {1} |-> i] = <<1>>
            OBVIOUS
        <3> QED BY <3>1, <3>2, AscendingOne
    <2>2. CASE n = 2
        <3>1. 1..n = {1, 2}
            BY <2>2
        <3>2. [i \in {1, 2} |-> i] = <<1, 2>>
            OBVIOUS
        <3> QED BY <3>1, <3>2, AscendingTwo
    <2>3. CASE n = 3
        <3>1. 1..n = {1, 2, 3}
            BY <2>3
        <3>2. [i \in {1, 2, 3} |-> i] = <<1, 2, 3>>
            OBVIOUS
        <3> QED BY <3>1, <3>2, AscendingThree
    <2>4. n = 1 \/ n = 2 \/ n = 3
        OBVIOUS
    <2> QED BY <2>1, <2>2, <2>3, <2>4
<1> QED BY <1>1 DEF Sifted

LEMMA SiftedButFirst ==
    ASSUME NEW list, NEW n \in 1..3
    PROVE  Sifted(list, 2..n) = [i \in 1..n - 1 |-> list[i + 1]]
<1>1. Ascending(2..n) = [i \in 1..n - 1 |-> i + 1]
    <2>1. CASE n = 1
        <3>1. 2..n = {} /\ 1..n - 1 = {}
            BY <2>1
        <3>2. [i \in {} |-> i + 1] = <<>>
            OBVIOUS
        <3> QED BY <3>1, <3>2, AscendingNone
    <2>2. CASE n = 2
        <3>1. 2..n = {2} /\ 1..n - 1 = {1}
            BY <2>2
        <3>2. [i \in {1} |-> i + 1] = <<2>>
            OBVIOUS
        <3> QED BY <3>1, <3>2, AscendingOne
    <2>3. CASE n = 3
        <3>1. 2..n = {2, 3} /\ 1..n - 1 = {1, 2}
            BY <2>3
        <3>2. [i \in {1, 2} |-> i + 1] = <<2, 3>>
            OBVIOUS
        <3>3. Ascending({2, 3}) = <<2, 3>>
            BY AscendingPair
        <3> QED BY <3>1, <3>2, <3>3
    <2>4. n = 1 \/ n = 2 \/ n = 3
        OBVIOUS
    <2> QED BY <2>1, <2>2, <2>3, <2>4
<1> QED BY <1>1 DEF Sifted

\* What is read of a permission: its good keys, and the rest as it is.
KeyForKey(p, keys) ==
    /\ DOMAIN p.keys = DOMAIN keys
    /\ \A i \in DOMAIN keys : p.keys[i].address = keys[i].address /\ p.keys[i].weight = keys[i].weight
SameBut(p, q) == p.id = q.id /\ p.threshold = q.threshold /\ p.operations = q.operations.bits

LEMMA KeysAreRead ==
    ASSUME NEW w, NEW ids \in SUBSET (0..255), NEW keys, NEW p, w.operations.bits = Bits(ids),
           keys = Sifted(w.keys, {i \in DOMAIN w.keys : w.keys[i].valid}), p = PermissionFromProto(w).v
    PROVE  KeyForKey(p, keys) /\ SameBut(p, w)
<1> DEFINE read == [i \in DOMAIN keys |-> PermissionKey(keys[i].address, keys[i].weight)]
<1>1. BitmapFromBytes(w.operations) = Ok(Bits(ids))
    BY BitmapPasses
<1>2. PermissionFromProto(w) = Ok(Permission(w.id, w.threshold, read, Bits(ids)))
    BY <1>1 DEF PermissionFromProto, Ok
<1>3. \A i \in DOMAIN keys : read[i].address = keys[i].address /\ read[i].weight = keys[i].weight
    BY DEF PermissionKey
<1>4. DOMAIN read = DOMAIN keys
    OBVIOUS
<1> HIDE DEF read
<1>5. p.keys = read /\ p.id = w.id /\ p.threshold = w.threshold /\ p.operations = w.operations.bits
    BY <1>2 DEF Ok, Permission
<1> QED BY <1>3, <1>4, <1>5 DEF KeyForKey, SameBut

\* A permission at the node.
Valid(q) ==
    /\ KeysWell(q.keys) /\ q.threshold \in Int
    /\ \A i \in DOMAIN q.keys : DOMAIN q.keys[i] = {"address", "valid", "weight"} /\ q.keys[i].valid

LEMMA WholeIsRead ==
    ASSUME NEW w, NEW q, NEW ids \in SUBSET (0..255), w.operations.bits = Bits(ids), Valid(q), w.keys = q.keys
    PROVE  SameKeys(PermissionFromProto(w).v, q)
<1>1. PICK n \in 1..3 : DOMAIN q.keys = 1..n
    BY DEF Valid, KeysWell
<1>2. {i \in DOMAIN w.keys : w.keys[i].valid} = 1..n
    BY <1>1 DEF Valid
<1>3. PICK keys : keys = Sifted(w.keys, {i \in DOMAIN w.keys : w.keys[i].valid})
    OBVIOUS
<1>4. keys = [i \in 1..n |-> q.keys[i]]
    <2>1. Sifted(q.keys, 1..n) = [i \in 1..n |-> q.keys[i]]
        BY SiftedAll
    <2>2. keys = Sifted(q.keys, 1..n)
        BY <1>2, <1>3
    <2> QED BY <2>1, <2>2
<1>5. PICK p : p = PermissionFromProto(w).v
    OBVIOUS
<1>6. KeyForKey(p, keys)
    BY <1>3, <1>5, KeysAreRead
<1> QED BY <1>1, <1>4, <1>5, <1>6 DEF SameKeys, KeyForKey

LEMMA KeylessIsRead ==
    ASSUME NEW w, NEW q, NEW ids \in SUBSET (0..255), w.operations.bits = Bits(ids), Valid(q),
           w.keys = [q.keys EXCEPT ![1].valid = FALSE]
    PROVE  LessKeys(PermissionFromProto(w).v, q)
<1>1. PICK n \in 1..3 : DOMAIN q.keys = 1..n
    BY DEF Valid, KeysWell
<1>2. DOMAIN w.keys = 1..n
    BY <1>1
<1>3. ~w.keys[1].valid /\ \A i \in 2..n : w.keys[i] = q.keys[i] /\ w.keys[i].valid
    BY <1>1 DEF Valid
<1>4. {i \in DOMAIN w.keys : w.keys[i].valid} = 2..n
    BY <1>2, <1>3
<1>5. PICK keys : keys = Sifted(w.keys, {i \in DOMAIN w.keys : w.keys[i].valid})
    OBVIOUS
<1>6. keys = [i \in 1..n - 1 |-> w.keys[i + 1]]
    <2>1. \A list : Sifted(list, 2..n) = [i \in 1..n - 1 |-> list[i + 1]]
        BY SiftedButFirst
    <2>2. Sifted(w.keys, 2..n) = [i \in 1..n - 1 |-> w.keys[i + 1]]
        BY <2>1, Zenon
    <2>3. keys = Sifted(w.keys, 2..n)
        BY <1>4, <1>5
    <2> QED BY <2>2, <2>3
<1>7. DOMAIN keys = 1..n - 1 /\ \A i \in 1..n - 1 : keys[i] = q.keys[i + 1]
    BY <1>3, <1>6
<1>8. PICK p : p = PermissionFromProto(w).v
    OBVIOUS
<1>9. KeyForKey(p, keys)
    BY <1>5, <1>8, KeysAreRead
<1>10. DOMAIN p.keys = 1..n - 1
    BY <1>7, <1>9 DEF KeyForKey
<1>11. \A i \in 1..n - 1 : p.keys[i].address = q.keys[i + 1].address /\ p.keys[i].weight = q.keys[i + 1].weight
    BY <1>7, <1>9 DEF KeyForKey
<1>12. LessKeys(p, q)
    BY <1>1, <1>10, <1>11, Zenon DEF LessKeys
<1> QED BY <1>8, <1>12

LEMMA RestIsRead ==
    ASSUME NEW w, NEW q, NEW ids \in SUBSET (0..255), w.operations.bits = Bits(ids),
           w.id = q.id, w.threshold = q.threshold, w.operations.bits = q.operations.bits
    PROVE  SameBut(PermissionFromProto(w).v, q)
<1>1. PICK keys : keys = Sifted(w.keys, {i \in DOMAIN w.keys : w.keys[i].valid})
    OBVIOUS
<1>2. PICK p : p = PermissionFromProto(w).v
    OBVIOUS
<1>3. SameBut(p, w)
    BY <1>1, <1>2, KeysAreRead
<1> QED BY <1>2, <1>3 DEF SameBut

\* A reading of a list of permissions: with all their keys, or all but the first.
Whole(p, q) == SameBut(p, q) /\ SameKeys(p, q)
WholeList(read, list) == DOMAIN read = DOMAIN list /\ \A i \in DOMAIN list : Whole(read[i], list[i])
LessList(read, list) ==
    DOMAIN read = DOMAIN list /\ \A i \in DOMAIN list : SameBut(read[i], list[i]) /\ LessKeys(read[i], list[i])
\* A reading of an account: what it has lost, it has lost of the active
\* permissions, and says so.
Reading(ps, w, whole) ==
    /\ WholeList(ps.owner, w.owner) /\ WholeList(ps.witness, w.witness)
    /\ \/ WholeList(ps.actives, w.actives)
       \/ LessList(ps.actives, w.actives) /\ ~whole
       \/ DOMAIN ps.actives = {} /\ ~whole

IsList(list) == list = [i \in DOMAIN list |-> list[i]]
NodeWell(w) ==
    /\ IsList(w.owner) /\ IsList(w.witness)
    /\ \A i \in DOMAIN w.owner : Valid(w.owner[i])
    /\ \A i \in DOMAIN w.witness : Valid(w.witness[i])
    /\ \A i \in DOMAIN w.actives : Valid(w.actives[i])

LEMMA BareListIsRead ==
    ASSUME NEW list, NEW n \in 0..1, DOMAIN list = 1..n,
           \A i \in DOMAIN list : list[i].operations.bits = {} /\ Valid(list[i])
    PROVE  WholeList(Kept(list), list)
<1>1. \A i \in 1..n : list[i].operations.bits = Bits({}) /\ {} \in SUBSET (0..255)
    BY DEF Bits
<1>2. \A i \in 1..n : PermissionFromProto(list[i]).ok
    BY <1>1, PermissionIsRead
<1>3. n \in 0..2
    OBVIOUS
<1>4. DOMAIN Kept(list) = 1..n /\ \A i \in 1..n : Kept(list)[i] = PermissionFromProto(list[i]).v
    BY <1>2, <1>3, KeptAll
<1>5. ASSUME NEW i \in 1..n PROVE Whole(PermissionFromProto(list[i]).v, list[i])
    <2>1. PICK q : q = list[i]
        OBVIOUS
    <2>2. q.operations.bits = Bits({}) /\ {} \in SUBSET (0..255) /\ Valid(q)
        BY <1>1, <2>1
    <2>3. SameKeys(PermissionFromProto(q).v, q)
        BY <2>2, WholeIsRead
    <2>4. SameBut(PermissionFromProto(q).v, q)
        BY <2>2, RestIsRead
    <2> QED BY <2>1, <2>3, <2>4 DEF Whole
<1> QED BY <1>4, <1>5 DEF WholeList

LEMMA ReadingOf ==
    ASSUME NEW w, NEW granted, NEW form \in Forms(w), Wired(w, granted), NodeWell(w)
    PROVE  Reading(PermissionsFromProto(form.w), w, form.whole)
<1> DEFINE ps == PermissionsFromProto(form.w)
<1>1. ps.owner = Kept(form.w.owner) /\ ps.witness = Kept(form.w.witness) /\ ps.actives = Kept(form.w.actives)
    BY DEF PermissionsFromProto
<1> HIDE DEF ps
<1>2. form.w.owner = w.owner /\ form.w.witness = w.witness /\ DOMAIN form.w.actives = DOMAIN granted
    BY FormsKeep
<1>3. WholeList(ps.owner, w.owner)
    <2>1. DOMAIN w.owner = 1..1 /\ \A i \in DOMAIN w.owner : w.owner[i].operations.bits = {} /\ Valid(w.owner[i])
        BY DEF Wired, NodeWell
    <2>2. 1 \in 0..1
        OBVIOUS
    <2>3. WholeList(Kept(w.owner), w.owner)
        BY <2>1, <2>2, BareListIsRead
    <2> QED BY <1>1, <1>2, <2>3
<1>4. WholeList(ps.witness, w.witness)
    <2>1. PICK n \in 0..1 : DOMAIN w.witness = 1..n
        BY DEF Wired, AtMostOne
    <2>2. \A i \in DOMAIN w.witness : w.witness[i].operations.bits = {} /\ Valid(w.witness[i])
        BY DEF Wired, NodeWell
    <2>3. WholeList(Kept(w.witness), w.witness)
        BY <2>1, <2>2, BareListIsRead
    <2> QED BY <1>1, <1>2, <2>3
<1>5. PICK n \in 0..2 : DOMAIN granted = 1..n /\ \A i \in 1..n : granted[i] \in SUBSET (0..255)
    BY DEF Wired, Grants
<1>6. PICK list : list = form.w.actives
    OBVIOUS
<1>7. DOMAIN list = 1..n /\ DOMAIN w.actives = 1..n
    BY <1>2, <1>5, <1>6 DEF Wired
<1>8. \A i \in 1..n : w.actives[i].operations.bits = Bits(granted[i]) /\ Valid(w.actives[i])
    BY <1>5, <1>7 DEF Wired, NodeWell
<1>9. ASSUME \A i \in 1..n : SentAs(list[i], w.actives[i])
      PROVE  /\ DOMAIN ps.actives = 1..n
             /\ \A i \in 1..n : /\ list[i].operations.bits = Bits(granted[i])
                                /\ ps.actives[i] = PermissionFromProto(list[i]).v
                                /\ SameBut(ps.actives[i], w.actives[i])
    <2>1. \A i \in 1..n : list[i].operations.bits = Bits(granted[i]) /\ granted[i] \in SUBSET (0..255)
        BY <1>5, <1>8, <1>9 DEF SentAs
    <2>2. \A i \in 1..n : PermissionFromProto(list[i]).ok
        BY <2>1, PermissionIsRead
    <2>3. DOMAIN Kept(list) = 1..n /\ \A i \in 1..n : Kept(list)[i] = PermissionFromProto(list[i]).v
        BY <1>7, <2>2, KeptAll
    <2>4. ASSUME NEW i \in 1..n PROVE SameBut(PermissionFromProto(list[i]).v, w.actives[i])
        <3>1. PICK p, q, ids : p = list[i] /\ q = w.actives[i] /\ ids = granted[i]
            OBVIOUS
        <3>2. p.id = q.id /\ p.threshold = q.threshold /\ p.operations.bits = q.operations.bits
            BY <1>9, <3>1 DEF SentAs
        <3>3. ids \in SUBSET (0..255) /\ p.operations.bits = Bits(ids)
            BY <2>1, <3>1
        <3>4. SameBut(PermissionFromProto(p).v, q)
            BY <3>2, <3>3, RestIsRead
        <3> QED BY <3>1, <3>4
    <2>5. ps.actives = Kept(list)
        BY <1>1, <1>6
    <2> QED BY <2>1, <2>3, <2>4, <2>5
<1>10. CASE \A i \in DOMAIN granted : SentAs(list[i], w.actives[i]) /\ list[i].keys = w.actives[i].keys
    <2>1. \A i \in 1..n : SentAs(list[i], w.actives[i])
        BY <1>5, <1>10
    <2>2. ASSUME NEW i \in 1..n PROVE SameKeys(ps.actives[i], w.actives[i])
        <3>1. PICK p, q, ids : p = list[i] /\ q = w.actives[i] /\ ids = granted[i]
            OBVIOUS
        <3>2. p.keys = q.keys /\ Valid(q) /\ ids \in SUBSET (0..255)
            BY <1>5, <1>8, <1>10, <3>1
        <3>3. p.operations.bits = Bits(ids) /\ ps.actives[i] = PermissionFromProto(p).v
            BY <1>9, <2>1, <3>1
        <3>4. SameKeys(PermissionFromProto(p).v, q)
            BY <3>2, <3>3, WholeIsRead
        <3> QED BY <3>1, <3>3, <3>4
    <2>3. WholeList(ps.actives, w.actives)
        BY <1>7, <1>9, <2>1, <2>2 DEF WholeList, Whole
    <2> QED BY <1>3, <1>4, <2>3 DEF Reading, ps
<1>11. CASE /\ \A i \in DOMAIN granted :
                    /\ SentAs(list[i], w.actives[i])
                    /\ list[i].keys = [w.actives[i].keys EXCEPT ![1].valid = FALSE]
            /\ DOMAIN granted # {} => ~form.whole
    <2>1. \A i \in 1..n : SentAs(list[i], w.actives[i])
        BY <1>5, <1>11
    <2>2. ASSUME NEW i \in 1..n PROVE LessKeys(ps.actives[i], w.actives[i])
        <3>1. PICK p, q, ids : p = list[i] /\ q = w.actives[i] /\ ids = granted[i]
            OBVIOUS
        <3>2. p.keys = [q.keys EXCEPT ![1].valid = FALSE] /\ Valid(q) /\ ids \in SUBSET (0..255)
            BY <1>5, <1>8, <1>11, <3>1
        <3>3. p.operations.bits = Bits(ids) /\ ps.actives[i] = PermissionFromProto(p).v
            BY <1>9, <2>1, <3>1
        <3>4. LessKeys(PermissionFromProto(p).v, q)
            BY <3>2, <3>3, KeylessIsRead
        <3> QED BY <3>1, <3>3, <3>4
    <2>3. LessList(ps.actives, w.actives)
        BY <1>7, <1>9, <2>1, <2>2 DEF LessList
    <2>4. DOMAIN granted = {} => WholeList(ps.actives, w.actives)
        BY <1>5, <1>7, <1>9, <2>1 DEF WholeList
    <2> QED BY <1>3, <1>4, <1>11, <2>3, <2>4 DEF Reading, ps
<1>12. CASE /\ \A i \in DOMAIN granted : ~PermissionFromProto(list[i]).ok
            /\ DOMAIN granted # {} => ~form.whole
    <2>1. DOMAIN Kept(list) = {}
        BY <1>5, <1>7, <1>12, KeptNone
    <2>2. DOMAIN ps.actives = {}
        BY <1>1, <1>6, <2>1
    <2>3. DOMAIN granted = {} => WholeList(ps.actives, w.actives)
        BY <1>5, <1>7, <2>2 DEF WholeList
    <2> QED BY <1>3, <1>4, <1>12, <2>2, <2>3 DEF Reading, ps
<1>13. \/ \A i \in DOMAIN granted : SentAs(list[i], w.actives[i]) /\ list[i].keys = w.actives[i].keys
       \/ /\ \A i \in DOMAIN granted :
                    /\ SentAs(list[i], w.actives[i])
                    /\ list[i].keys = [w.actives[i].keys EXCEPT ![1].valid = FALSE]
          /\ DOMAIN granted # {} => ~form.whole
       \/ /\ \A i \in DOMAIN granted : ~PermissionFromProto(list[i]).ok
          /\ DOMAIN granted # {} => ~form.whole
    BY <1>6, FormsKeep, Zenon
<1> QED BY <1>10, <1>11, <1>12, <1>13, Zenon

-------------------------------------------------------------------------------
(* Permissions that are written.                                           *)

Weighted(p) == KeysWell(p.keys) /\ p.threshold \in Int
ClientWell(ps) ==
    /\ \A i \in DOMAIN ps.owner : Weighted(ps.owner[i])
    /\ \A i \in DOMAIN ps.witness : Weighted(ps.witness[i])
    /\ \A i \in DOMAIN ps.actives : Weighted(ps.actives[i])

LEMMA WrittenIsValid ==
    ASSUME NEW p, NEW role, Weighted(p)
    PROVE  Valid(PermissionToProto(p, role))
<1> DEFINE keys == [i \in DOMAIN p.keys |-> WireKey(p.keys[i])]
<1>1. PICK q : q = PermissionToProto(p, role)
    OBVIOUS
<1>2. q.keys = keys /\ q.threshold = p.threshold
    BY <1>1 DEF PermissionToProto
<1>3. PICK n \in 1..3 : /\ DOMAIN p.keys = 1..n /\ \A i \in 1..n : p.keys[i].weight \in Nat
                        /\ \A i, j \in 1..n : p.keys[i].address = p.keys[j].address => i = j
    BY DEF Weighted, KeysWell
<1>4. \A k : /\ DOMAIN WireKey(k) = {"address", "valid", "weight"} /\ WireKey(k).valid
             /\ WireKey(k).address = k.address /\ WireKey(k).weight = k.weight
    BY DEF WireKey
<1>5. DOMAIN keys = 1..n
    BY <1>3
<1>6. ASSUME NEW i \in 1..n
      PROVE  /\ DOMAIN keys[i] = {"address", "valid", "weight"} /\ keys[i].valid
             /\ keys[i].address = p.keys[i].address /\ keys[i].weight = p.keys[i].weight
    <2>1. keys[i] = WireKey(p.keys[i])
        BY <1>3
    <2> QED BY <1>4, <2>1
<1> HIDE DEF keys
<1>7. KeysWell(keys)
    BY <1>3, <1>5, <1>6 DEF KeysWell
<1>8. Valid(q)
    BY <1>2, <1>5, <1>6, <1>7 DEF Valid, Weighted
<1> QED BY <1>1, <1>8

LEMMA UpdateIsValid ==
    ASSUME NEW ps, ClientWell(ps)
    PROVE  NodeWell(UpdateToProto(ps))
<1>1. PICK w : w = UpdateToProto(ps)
    OBVIOUS
<1>2. /\ w.owner = [i \in DOMAIN ps.owner |-> PermissionToProto(ps.owner[i], "owner")]
      /\ w.witness = [i \in DOMAIN ps.witness |-> PermissionToProto(ps.witness[i], "witness")]
      /\ w.actives = [i \in DOMAIN ps.actives |-> PermissionToProto(ps.actives[i], "active")]
    BY <1>1 DEF UpdateToProto
<1>3. \A i \in DOMAIN w.owner : Valid(w.owner[i])
    BY <1>2, WrittenIsValid DEF ClientWell
<1>4. \A i \in DOMAIN w.witness : Valid(w.witness[i])
    BY <1>2, WrittenIsValid DEF ClientWell
<1>5. \A i \in DOMAIN w.actives : Valid(w.actives[i])
    BY <1>2, WrittenIsValid DEF ClientWell
<1>6. IsList(w.owner) /\ IsList(w.witness)
    BY <1>2 DEF IsList
<1> QED BY <1>1, <1>3, <1>4, <1>5, <1>6 DEF NodeWell

\* A reading without loss can be written back.
LEMMA ReadIsWeighted ==
    ASSUME NEW ps, NEW w, Reading(ps, w, TRUE), NodeWell(w)
    PROVE  ClientWell(ps)
<1>1. ASSUME NEW p, NEW q, Whole(p, q), Valid(q) PROVE Weighted(p)
    <2>1. PICK n \in 1..3 : /\ DOMAIN q.keys = 1..n /\ \A i \in 1..n : q.keys[i].weight \in Nat
                            /\ \A i, j \in 1..n : q.keys[i].address = q.keys[j].address => i = j
        BY <1>1 DEF Valid, KeysWell
    <2>2. /\ DOMAIN p.keys = 1..n
          /\ \A i \in 1..n : p.keys[i].address = q.keys[i].address /\ p.keys[i].weight = q.keys[i].weight
        BY <1>1, <2>1 DEF Whole, SameKeys
    <2>3. KeysWell(p.keys)
        BY <2>1, <2>2 DEF KeysWell
    <2>4. p.threshold \in Int
        BY <1>1 DEF Whole, SameBut, Valid
    <2> QED BY <2>3, <2>4 DEF Weighted
<1>2. ASSUME NEW read, NEW list, WholeList(read, list), \A i \in DOMAIN list : Valid(list[i])
      PROVE  \A i \in DOMAIN read : Weighted(read[i])
    BY <1>1, <1>2 DEF WholeList
<1>3. WholeList(ps.owner, w.owner) /\ WholeList(ps.witness, w.witness) /\ WholeList(ps.actives, w.actives)
    BY DEF Reading
<1> QED BY <1>2, <1>3 DEF NodeWell, ClientWell

\* What is offered.
LEMMA OneKey ==
    ASSUME NEW j, NEW v \in Nat
    PROVE  KeysWell(<<K(j, v)>>)
<1>1. K(j, v).weight = v
    BY DEF K, PermissionKey
<1>2. 1 \in 1..3 /\ DOMAIN <<K(j, v)>> = 1..1
    OBVIOUS
<1>3. /\ \A i \in 1..1 : <<K(j, v)>>[i].weight \in Nat
      /\ \A i, h \in 1..1 : <<K(j, v)>>[i].address = <<K(j, v)>>[h].address => i = h
    BY <1>1
<1> QED BY <1>2, <1>3 DEF KeysWell

LEMMA TwoKeys ==
    ASSUME NEW j, NEW k, NEW v \in Nat, NEW u \in Nat, j # k
    PROVE  KeysWell(<<K(j, v), K(k, u)>>)
<1> DEFINE keys == <<K(j, v), K(k, u)>>
<1>1. /\ keys[1].weight = v /\ keys[1].address = AddressOf(j)
      /\ keys[2].weight = u /\ keys[2].address = AddressOf(k)
    BY DEF K, PermissionKey
<1>2. AddressOf(j) # AddressOf(k)
    BY AddressesDiffer
<1>3. 2 \in 1..3 /\ DOMAIN keys = 1..2
    OBVIOUS
<1>4. \A i \in 1..2 : i = 1 \/ i = 2
    OBVIOUS
<1> HIDE DEF keys
<1>5. /\ \A i \in 1..2 : keys[i].weight \in Nat
      /\ \A i, h \in 1..2 : keys[i].address = keys[h].address => i = h
    BY <1>1, <1>2, <1>4
<1>6. KeysWell(keys)
    BY <1>3, <1>5 DEF KeysWell
<1> QED BY <1>6 DEF keys

LEMMA ThreeKeys ==
    ASSUME NEW j, NEW k, NEW l, NEW v \in Nat, NEW u \in Nat, NEW x \in Nat, j # k, j # l, k # l
    PROVE  KeysWell(<<K(j, v), K(k, u), K(l, x)>>)
<1> DEFINE keys == <<K(j, v), K(k, u), K(l, x)>>
<1>1. /\ keys[1].weight = v /\ keys[1].address = AddressOf(j)
      /\ keys[2].weight = u /\ keys[2].address = AddressOf(k)
      /\ keys[3].weight = x /\ keys[3].address = AddressOf(l)
    BY DEF K, PermissionKey
<1>2. AddressOf(j) # AddressOf(k) /\ AddressOf(j) # AddressOf(l) /\ AddressOf(k) # AddressOf(l)
    BY AddressesDiffer
<1>3. 3 \in 1..3 /\ DOMAIN keys = 1..3
    OBVIOUS
<1>4. \A i \in 1..3 : i = 1 \/ i = 2 \/ i = 3
    OBVIOUS
<1> HIDE DEF keys
<1>5. /\ \A i \in 1..3 : keys[i].weight \in Nat
      /\ \A i, h \in 1..3 : keys[i].address = keys[h].address => i = h
    BY <1>1, <1>2, <1>4
<1>6. KeysWell(keys)
    BY <1>3, <1>5 DEF KeysWell
<1> QED BY <1>6 DEF keys

LEMMA OffersAreWeighted == \A offer \in Offers : ClientWell(offer.ps)
<1>1. /\ Own # Derived /\ Own # Kms1 /\ Derived # Kms1
      /\ Kms1 # Tools /\ Kms1 # Kms2 /\ Tools # Kms2
    <2>1. /\ Own.source = "local" /\ Derived.source = "hd" /\ Tools.source = "tool"
          /\ Kms1.source = "kms" /\ Kms2.source = "kms" /\ Kms1.path = <<1>> /\ Kms2.path = <<2>>
        BY DEF Own, Derived, Kms1, Kms2, Tools, Key
    <2>2. <<1>>[1] # <<2>>[1]
        OBVIOUS
    <2> QED BY <2>1, <2>2
<1>2. \A id, threshold, keys, operations :
        /\ Permission(id, threshold, keys, operations).keys = keys
        /\ Permission(id, threshold, keys, operations).threshold = threshold
    BY DEF Permission
<1>3. Weighted(Two)
    <2>1. KeysWell(<<K(Own, 1), K(Derived, 1), K(Kms1, 1)>>)
        BY <1>1, ThreeKeys
    <2> QED BY <1>2, <2>1 DEF Two, Weighted
<1>4. Weighted(Three)
    <2>1. KeysWell(<<K(Kms1, 2), K(Tools, 1), K(Kms2, 2)>>)
        BY <1>1, ThreeKeys
    <2> QED BY <1>2, <2>1 DEF Three, Weighted
<1>5. Weighted(Solo) /\ Weighted([Solo EXCEPT !.operations = {Bit(1)}])
    <2>1. KeysWell(<<K(Own, 1)>>)
        BY OneKey
    <2>2. Solo.keys = <<K(Own, 1)>> /\ Solo.threshold = 1
        BY <1>2 DEF Solo
    <2>3. PICK p : p = [Solo EXCEPT !.operations = {Bit(1)}]
        OBVIOUS
    <2>4. p.keys = Solo.keys /\ p.threshold = Solo.threshold
        BY <2>3 DEF Solo, Permission
    <2> QED BY <2>1, <2>2, <2>3, <2>4 DEF Weighted
<1>6. Weighted(Permission(0, 2, <<K(Own, 1), K(Kms1, 1)>>, {}))
    <2>1. KeysWell(<<K(Own, 1), K(Kms1, 1)>>)
        BY <1>1, TwoKeys
    <2> QED BY <1>2, <2>1 DEF Weighted
<1>7. Weighted(Permission(1, 1, <<K(Kms2, 1)>>, {}))
    <2>1. KeysWell(<<K(Kms2, 1)>>)
        BY OneKey
    <2> QED BY <1>2, <2>1 DEF Weighted
<1>8. ASSUME NEW p, Weighted(p) PROVE ClientWell(OwnerOf(p))
    <2>1. OwnerOf(p).owner = <<p>> /\ OwnerOf(p).witness = <<>> /\ OwnerOf(p).actives = <<>>
        BY DEF OwnerOf
    <2>2. \A i \in DOMAIN <<p>> : <<p>>[i] = p
        OBVIOUS
    <2> QED BY <1>8, <2>1, <2>2 DEF ClientWell
<1>9. ASSUME NEW p, Weighted(p) PROVE ClientWell([OwnerOf(p) EXCEPT !.actives = <<Two>>])
    <2>1. PICK ps : ps = [OwnerOf(p) EXCEPT !.actives = <<Two>>]
        OBVIOUS
    <2>2. ps.owner = <<p>> /\ ps.witness = <<>> /\ ps.actives = <<Two>>
        BY <2>1 DEF OwnerOf
    <2>3. \A x : \A i \in DOMAIN <<x>> : <<x>>[i] = x
        OBVIOUS
    <2>4. ClientWell(ps)
        BY <1>3, <1>9, <2>2, <2>3 DEF ClientWell
    <2> QED BY <2>1, <2>4
<1>10. ASSUME NEW p, NEW q, Weighted(p), Weighted(q)
       PROVE  ClientWell([OwnerOf(p) EXCEPT !.witness = <<q>>, !.actives = <<Two, Three>>])
    <2>1. PICK ps : ps = [OwnerOf(p) EXCEPT !.witness = <<q>>, !.actives = <<Two, Three>>]
        OBVIOUS
    <2>2. ps.owner = <<p>> /\ ps.witness = <<q>> /\ ps.actives = <<Two, Three>>
        BY <2>1 DEF OwnerOf
    <2>3. \A x : \A i \in DOMAIN <<x>> : <<x>>[i] = x
        OBVIOUS
    <2>4. \A i \in DOMAIN <<Two, Three>> : <<Two, Three>>[i] = Two \/ <<Two, Three>>[i] = Three
        OBVIOUS
    <2>5. ClientWell(ps)
        BY <1>3, <1>4, <1>10, <2>2, <2>3, <2>4 DEF ClientWell
    <2> QED BY <2>1, <2>5
<1>11. \A ps, lists : Offer(ps, lists).ps = ps
    BY DEF Offer
<1> SUFFICES ASSUME NEW offer \in Offers PROVE ClientWell(offer.ps)
    OBVIOUS
<1>12. \/ offer.ps = OwnerOf(Solo)
       \/ offer.ps = [OwnerOf(Permission(0, 2, <<K(Own, 1), K(Kms1, 1)>>, {})) EXCEPT !.actives = <<Two>>]
       \/ offer.ps = [OwnerOf(Solo) EXCEPT !.witness = <<Permission(1, 1, <<K(Kms2, 1)>>, {})>>,
                                           !.actives = <<Two, Three>>]
       \/ offer.ps = [OwnerOf(Solo) EXCEPT !.actives = <<Two>>]
       \/ offer.ps = OwnerOf([Solo EXCEPT !.operations = {Bit(1)}])
    BY <1>11 DEF Offers
<1>13. /\ ClientWell(OwnerOf(Solo)) /\ ClientWell(OwnerOf([Solo EXCEPT !.operations = {Bit(1)}]))
       /\ ClientWell([OwnerOf(Solo) EXCEPT !.actives = <<Two>>])
    BY <1>5, <1>8, <1>9
<1>14. ClientWell([OwnerOf(Permission(0, 2, <<K(Own, 1), K(Kms1, 1)>>, {})) EXCEPT !.actives = <<Two>>])
    BY <1>6, <1>9
<1>15. ClientWell([OwnerOf(Solo) EXCEPT !.witness = <<Permission(1, 1, <<K(Kms2, 1)>>, {})>>,
                                        !.actives = <<Two, Three>>])
    BY <1>5, <1>7, <1>10
<1> QED BY <1>12, <1>13, <1>14, <1>15

LEMMA RequestIsValid ==
    ASSUME NEW offer \in Offers, Request(offer).ok
    PROVE  NodeWell(Request(offer).v)
<1> DEFINE sets == [i \in DOMAIN offer.lists |-> TryFromIter(offer.lists[i])]
           actives == [i \in DOMAIN offer.ps.actives |->
                         [offer.ps.actives[i] EXCEPT !.operations = sets[i].v]]
           ps == [offer.ps EXCEPT !.actives = actives]
<1>1. Numbered(offer) /\ ClientWell(offer.ps)
    BY OffersAreNumbered, OffersAreWeighted
<1>2. Request(offer).v = UpdateToProto(ps)
    BY DEF Request, Err, Ok
<1> HIDE DEF sets
<1>3. ASSUME NEW i \in DOMAIN actives PROVE Weighted(actives[i])
    <2>1. PICK p : p = offer.ps.actives[i]
        OBVIOUS
    <2>2. actives[i] = [p EXCEPT !.operations = sets[i].v]
        BY <2>1
    <2>3. DOMAIN p = PermissionFields /\ Weighted(p)
        BY <1>1, <2>1 DEF Numbered, ClientWell
    <2>4. actives[i].keys = p.keys /\ actives[i].threshold = p.threshold
        BY <2>2, <2>3 DEF PermissionFields
    <2> QED BY <2>3, <2>4 DEF Weighted
<1>4. ps.owner = offer.ps.owner /\ ps.witness = offer.ps.witness /\ ps.actives = actives
    BY <1>1 DEF Numbered
<1> HIDE DEF ps, actives
<1>5. ClientWell(ps)
    BY <1>1, <1>3, <1>4 DEF ClientWell
<1> QED BY <1>2, <1>5, UpdateIsValid

LEMMA AmendedIsValid ==
    ASSUME NEW ps, NEW set, DOMAIN ps = {"owner", "witness", "actives"}, ClientWell(ps),
           \A i \in DOMAIN ps.actives : DOMAIN ps.actives[i] = PermissionFields
    PROVE  NodeWell(UpdateToProto([ps EXCEPT !.actives[1].operations = set]))
<1>1. PICK qs : qs = [ps EXCEPT !.actives[1].operations = set]
    OBVIOUS
<1> DEFINE actives == [ps.actives EXCEPT ![1].operations = set]
<1>2. qs.owner = ps.owner /\ qs.witness = ps.witness /\ qs.actives = actives
    BY <1>1
<1>3. DOMAIN actives = DOMAIN ps.actives
    OBVIOUS
<1>4. ASSUME NEW i \in DOMAIN ps.actives PROVE Weighted(actives[i])
    <2>1. PICK p : p = ps.actives[i]
        OBVIOUS
    <2>2. DOMAIN p = PermissionFields /\ Weighted(p)
        BY <2>1 DEF ClientWell
    <2>3. actives[i] = p \/ actives[i] = [p EXCEPT !.operations = set]
        BY <2>1
    <2> HIDE DEF actives
    <2>4. actives[i].keys = p.keys /\ actives[i].threshold = p.threshold
        BY <2>2, <2>3 DEF PermissionFields
    <2> QED BY <2>2, <2>4 DEF Weighted
<1> HIDE DEF actives
<1>5. ClientWell(qs)
    BY <1>2, <1>3, <1>4 DEF ClientWell
<1> QED BY <1>1, <1>5, UpdateIsValid

-------------------------------------------------------------------------------
(* What the client and the node find under a permission id.                *)

RoleOf(id) == IF id = 0 THEN "owner" ELSE IF id = 1 THEN "witness" ELSE "active"
\* Both find the permission, with the same keys unless some were lost; or the
\* client has lost it.
FindsIt(ps, w, id, whole, p, q) ==
    /\ Locate(ps, id) = <<Role(RoleOf(id), p)>> /\ NodeLocate(w, id) = <<q>> /\ Valid(q) /\ SameBut(p, q)
    /\ SameKeys(p, q) \/ (LessKeys(p, q) /\ ~whole)
LostIt(ps, w, id, whole, q) == Locate(ps, id) = <<>> /\ NodeLocate(w, id) = <<q>> /\ Valid(q) /\ ~whole

LEMMA BothLocate ==
    ASSUME NEW ps, NEW w, NEW whole, NEW granted, NEW id \in Int,
           Reading(ps, w, whole), Wired(w, granted), NodeWell(w)
    PROVE  \/ Locate(ps, id) = <<>> /\ NodeLocate(w, id) = <<>>
           \/ \E p, q : FindsIt(ps, w, id, whole, p, q)
           \/ \E q : LostIt(ps, w, id, whole, q)
<1>1. CASE id = 0
    <2>1. DOMAIN w.owner = 1..1 /\ w.owner = [i \in DOMAIN w.owner |-> w.owner[i]] /\ Valid(w.owner[1])
        BY DEF Wired, NodeWell, IsList
    <2>2. DOMAIN ps.owner = 1..1 /\ Whole(ps.owner[1], w.owner[1])
        BY <2>1 DEF Reading, WholeList
    <2>3. PICK p, q : p = ps.owner[1] /\ q = w.owner[1]
        OBVIOUS
    <2>4. Locate(ps, id) = <<Role("owner", p)>>
        <3>1. Locate(ps, id) = [i \in DOMAIN ps.owner |-> Role("owner", ps.owner[i])]
            BY <1>1 DEF Locate
        <3>2. [i \in 1..1 |-> Role("owner", ps.owner[i])] = <<Role("owner", ps.owner[1])>>
            OBVIOUS
        <3> QED BY <2>2, <2>3, <3>1, <3>2
    <2>5. NodeLocate(w, id) = <<q>>
        <3>1. NodeLocate(w, id) = w.owner
            BY <1>1 DEF NodeLocate
        <3>2. [i \in 1..1 |-> w.owner[i]] = <<w.owner[1]>>
            OBVIOUS
        <3> QED BY <2>1, <2>3, <3>1, <3>2
    <2>6. FindsIt(ps, w, id, whole, p, q)
        BY <1>1, <2>1, <2>2, <2>3, <2>4, <2>5 DEF FindsIt, RoleOf, Whole
    <2> QED BY <2>6
<1>2. CASE id = 1
    <2>1. PICK n \in 0..1 : DOMAIN w.witness = 1..n
        BY DEF Wired, AtMostOne
    <2>2. w.witness = [i \in DOMAIN w.witness |-> w.witness[i]] /\ DOMAIN ps.witness = 1..n
        BY <2>1 DEF NodeWell, IsList, Reading, WholeList
    <2>3. /\ Locate(ps, id) = [i \in 1..n |-> Role("witness", ps.witness[i])]
          /\ NodeLocate(w, id) = w.witness
        BY <1>2, <2>2 DEF Locate, NodeLocate
    <2>4. CASE n = 0
        <3>1. 1..n = {} /\ [i \in {} |-> Role("witness", ps.witness[i])] = <<>> /\ [i \in {} |-> w.witness[i]] = <<>>
            BY <2>4
        <3> QED BY <2>1, <2>2, <2>3, <3>1
    <2>5. CASE n = 1
        <3>1. PICK p, q : p = ps.witness[1] /\ q = w.witness[1]
            OBVIOUS
        <3>2. Whole(p, q) /\ Valid(q)
            BY <2>1, <2>5, <3>1 DEF Reading, WholeList, NodeWell
        <3>3. /\ [i \in 1..1 |-> Role("witness", ps.witness[i])] = <<Role("witness", ps.witness[1])>>
              /\ [i \in 1..1 |-> w.witness[i]] = <<w.witness[1]>>
            OBVIOUS
        <3>4. Locate(ps, id) = <<Role("witness", p)>> /\ NodeLocate(w, id) = <<q>>
            BY <2>1, <2>2, <2>3, <2>5, <3>1, <3>3
        <3>5. FindsIt(ps, w, id, whole, p, q)
            BY <1>2, <3>2, <3>4 DEF FindsIt, RoleOf, Whole
        <3> QED BY <3>5
    <2>6. n = 0 \/ n = 1
        OBVIOUS
    <2> QED BY <2>4, <2>5, <2>6
<1>3. CASE id # 0 /\ id # 1
    <2>1. PICK n \in 0..2 : DOMAIN granted = 1..n
        BY DEF Wired, Grants
    <2>2. DOMAIN w.actives = 1..n /\ \A i \in 1..n : w.actives[i].id = i + 1 /\ Valid(w.actives[i])
        BY <2>1 DEF Wired, NodeWell
    <2> DEFINE mine == {i \in DOMAIN ps.actives : ps.actives[i].id = id}
               node == {i \in DOMAIN w.actives : w.actives[i].id = id}
    <2>3. /\ Locate(ps, id) = IF mine = {} THEN <<>> ELSE <<Role("active", ps.actives[Min(mine)])>>
          /\ NodeLocate(w, id) = IF node = {} THEN <<>> ELSE <<w.actives[Min(node)]>>
        BY <1>3 DEF Locate, NodeLocate
    <2>4. node = {} \/ (node = {id - 1} /\ id - 1 \in 1..n)
        BY <2>2
    <2>5. ASSUME NEW j \in Int PROVE Min({j}) = j
        BY DEF Min
    <2>6. CASE node = {}
        <3>1. mine = {}
            BY <2>6 DEF Reading, WholeList, LessList, Whole, SameBut
        <3> HIDE DEF mine, node
        <3> QED BY <2>3, <2>6, <3>1
    <2>7. CASE node = {id - 1} /\ id - 1 \in 1..n
        <3>1. PICK j : j = id - 1
            OBVIOUS
        <3>2. PICK p, q : p = ps.actives[j] /\ q = w.actives[j]
            OBVIOUS
        <3>3. j \in 1..n /\ Min({j}) = j /\ Valid(q) /\ node = {j}
            BY <2>2, <2>5, <2>7, <3>1, <3>2
        <3> HIDE DEF node
        <3>4. NodeLocate(w, id) = <<q>>
            BY <2>3, <3>2, <3>3
        <3>5. ASSUME DOMAIN ps.actives = DOMAIN w.actives,
                     \A i \in DOMAIN w.actives : SameBut(ps.actives[i], w.actives[i])
              PROVE  SameBut(p, q) /\ Locate(ps, id) = <<Role("active", p)>>
            <4>1. mine = node
                BY <3>5 DEF SameBut, node
            <4> HIDE DEF mine
            <4>2. Locate(ps, id) = <<Role("active", p)>>
                BY <2>3, <3>2, <3>3, <4>1
            <4> QED BY <2>2, <3>2, <3>3, <3>5, <4>2
        <3>6. CASE WholeList(ps.actives, w.actives)
            <4>1. SameBut(p, q) /\ Locate(ps, id) = <<Role("active", p)>>
                BY <3>5, <3>6 DEF WholeList, Whole
            <4>2. SameKeys(p, q)
                BY <2>2, <3>2, <3>3, <3>6 DEF WholeList, Whole
            <4>3. FindsIt(ps, w, id, whole, p, q)
                BY <1>3, <3>3, <3>4, <4>1, <4>2 DEF FindsIt, RoleOf
            <4> QED BY <4>3
        <3>7. CASE LessList(ps.actives, w.actives) /\ ~whole
            <4>1. SameBut(p, q) /\ Locate(ps, id) = <<Role("active", p)>>
                BY <3>5, <3>7 DEF LessList
            <4>2. LessKeys(p, q)
                BY <2>2, <3>2, <3>3, <3>7 DEF LessList
            <4>3. FindsIt(ps, w, id, whole, p, q)
                BY <1>3, <3>3, <3>4, <3>7, <4>1, <4>2 DEF FindsIt, RoleOf
            <4> QED BY <4>3
        <3>8. CASE DOMAIN ps.actives = {} /\ ~whole
            <4>1. mine = {}
                BY <3>8
            <4> HIDE DEF mine
            <4>2. LostIt(ps, w, id, whole, q)
                BY <2>3, <3>3, <3>4, <3>8, <4>1 DEF LostIt
            <4> QED BY <4>2
        <3> QED BY <3>6, <3>7, <3>8 DEF Reading
    <2> QED BY <2>4, <2>6, <2>7
<1> QED BY <1>1, <1>2, <1>3

LEMMA ByIdIs ==
    ASSUME NEW ps, NEW id
    PROVE  /\ Locate(ps, id) = <<>> => ById(ps, id) = <<>>
           /\ \A role, p : Locate(ps, id) = <<Role(role, p)>> => ById(ps, id) = <<p>>
<1>1. ASSUME Locate(ps, id) = <<>> PROVE ById(ps, id) = <<>>
    <2>1. ById(ps, id) = [i \in DOMAIN <<>> |-> <<>>[i].p]
        BY <1>1 DEF ById
    <2>2. [i \in DOMAIN <<>> |-> <<>>[i].p] = <<>>
        OBVIOUS
    <2> QED BY <2>1, <2>2
<1>2. ASSUME NEW role, NEW p, Locate(ps, id) = <<Role(role, p)>> PROVE ById(ps, id) = <<p>>
    <2>1. PICK r : r = Role(role, p)
        OBVIOUS
    <2>2. r.p = p
        BY <2>1 DEF Role
    <2>3. ById(ps, id) = [i \in DOMAIN <<r>> |-> <<r>>[i].p]
        BY <1>2, <2>1 DEF ById
    <2>4. [i \in DOMAIN <<r>> |-> <<r>>[i].p] = <<r.p>>
        OBVIOUS
    <2> QED BY <2>2, <2>3, <2>4
<1> QED BY <1>1, <1>2

\* The weight that the client adds up, the one that the keys have, and the one
\* that the node tells.
LEMMA WeightsAgree ==
    ASSUME NEW ps, NEW w, NEW whole, NEW granted, NEW id \in Int, NEW addresses, NEW mine, NEW reply,
           Reading(ps, w, whole), Wired(w, granted), NodeWell(w),
           mine = ById(ps, id), reply = NodeSignWeight(w, id, addresses), reply.permission # <<>>
    PROVE  LET weight == IF mine = <<>> THEN 0 ELSE WeightOfAll(mine[1], addresses)
               held == NodeWeighs(reply.permission[1], addresses)
           IN /\ weight <= held /\ (whole => weight = held)
              /\ mine # <<>> /\ EachOnce(mine[1], addresses) => SignWeight(reply).current = held
<1> DEFINE held == NodeWeighs(reply.permission[1], addresses)
<1>1. /\ reply.permission = NodeLocate(w, id)
      /\ NodeTakes(reply.permission[1], addresses) => SignWeight(reply).current = held
    <2>1. reply.permission = NodeLocate(w, id)
        BY DEF NodeSignWeight
    <2>2. SignWeight(reply).current = reply.current
        BY DEF SignWeight
    <2>3. reply.current = IF NodeLocate(w, id) # <<>> /\ NodeTakes(NodeLocate(w, id)[1], addresses)
                          THEN NodeWeighs(NodeLocate(w, id)[1], addresses) ELSE 0
        BY DEF NodeSignWeight
    <2> QED BY <2>1, <2>2, <2>3
<1>2. ASSUME NEW p, NEW q, FindsIt(ps, w, id, whole, p, q)
      PROVE  /\ mine # <<>> /\ mine[1] = p
             /\ WeightOfAll(p, addresses) <= held
             /\ whole => WeightOfAll(p, addresses) = held
             /\ EachOnce(p, addresses) => SignWeight(reply).current = held
    <2>1. mine = <<p>>
        BY <1>2, ByIdIs DEF FindsIt
    <2>2. reply.permission = <<q>>
        BY <1>1, <1>2 DEF FindsIt
    <2>3. KeysWell(q.keys) /\ (SameKeys(p, q) \/ (LessKeys(p, q) /\ ~whole))
        BY <1>2 DEF FindsIt, Valid
    <2>4. NodeWeighs(q, addresses) \in Nat /\ held = NodeWeighs(q, addresses)
        BY <2>2, <2>3, TotalIsNat
    <2>5. EachOnce(p, addresses) => NodeTakes(q, addresses)
        BY <2>3, CleanIsTaken
    <2>6. EachOnce(p, addresses) => SignWeight(reply).current = held
        BY <1>1, <2>2, <2>5
    <2>7. CASE SameKeys(p, q)
        <3>1. WeightOfAll(p, addresses) = NodeWeighs(q, addresses)
            BY <2>3, <2>7, SameTotals
        <3> QED BY <2>1, <2>4, <2>6, <3>1
    <2>8. CASE LessKeys(p, q) /\ ~whole
        <3>1. WeightOfAll(p, addresses) <= NodeWeighs(q, addresses)
            BY <2>3, <2>8, LessTotals
        <3> QED BY <2>1, <2>4, <2>6, <2>8, <3>1
    <2> QED BY <2>3, <2>7, <2>8
<1>3. ASSUME NEW q, LostIt(ps, w, id, whole, q)
      PROVE  mine = <<>> /\ 0 <= held /\ ~whole
    <2>1. mine = <<>> /\ ~whole
        BY <1>3, ByIdIs DEF LostIt
    <2>2. reply.permission = <<q>>
        BY <1>1, <1>3 DEF LostIt
    <2>3. NodeWeighs(q, addresses) \in Nat
        BY <1>3, TotalIsNat DEF LostIt, Valid
    <2> QED BY <2>1, <2>2, <2>3
<1>4. \/ Locate(ps, id) = <<>> /\ NodeLocate(w, id) = <<>>
      \/ \E p, q : FindsIt(ps, w, id, whole, p, q)
      \/ \E q : LostIt(ps, w, id, whole, q)
    BY BothLocate
<1>5. NodeLocate(w, id) # <<>>
    BY <1>1
<1> HIDE DEF held
<1>6. CASE \E p, q : FindsIt(ps, w, id, whole, p, q)
    <2>1. PICK p, q : FindsIt(ps, w, id, whole, p, q)
        BY <1>6
    <2> QED BY <1>2, <2>1 DEF held
<1>7. CASE \E q : LostIt(ps, w, id, whole, q)
    <2>1. PICK q : LostIt(ps, w, id, whole, q)
        BY <1>7
    <2> QED BY <1>3, <2>1 DEF held
<1> QED BY <1>4, <1>5, <1>6, <1>7

\* What the client says of a broadcast, and what the node makes of it.
LEMMA VerdictsAgree ==
    ASSUME NEW ps, NEW w, NEW whole, NEW granted, NEW id \in Int, NEW kind \in Nat, NEW addresses, NEW mine,
           Reading(ps, w, whole), Wired(w, granted), NodeWell(w), mine = ById(ps, id)
    PROVE  LET forecast == Allows(ps, id, kind) /\ mine # <<>> /\ IsSatisfiedBy(mine[1], addresses)
               accepted == NodeAccepts(w, id, kind, addresses)
               clean == mine # <<>> /\ EachOnce(mine[1], addresses)
           IN (forecast /\ clean => accepted) /\ (whole => (accepted <=> forecast /\ clean))
<1> DEFINE forecast == Allows(ps, id, kind) /\ mine # <<>> /\ IsSatisfiedBy(mine[1], addresses)
           accepted == NodeAccepts(w, id, kind, addresses)
           clean == mine # <<>> /\ EachOnce(mine[1], addresses)
<1>1. ASSUME NEW q, LostIt(ps, w, id, whole, q) PROVE ~forecast /\ ~whole
    BY <1>1 DEF LostIt, Allows
<1>2. ASSUME NEW p, NEW q, FindsIt(ps, w, id, whole, p, q)
      PROVE  (forecast /\ clean => accepted) /\ (whole => (accepted <=> forecast /\ clean))
    <2>1. mine = <<p>>
        BY <1>2, ByIdIs DEF FindsIt
    <2>2. PICK r : r = Role(RoleOf(id), p)
        OBVIOUS
    <2>3. r.role = RoleOf(id) /\ r.p = p
        BY <2>2 DEF Role
    <2>4. Locate(ps, id) = <<r>>
        BY <1>2, <2>2 DEF FindsIt
    <2>5. Allows(ps, id, kind) <=> id # 1 /\ (id # 0 => Bit(kind) \in p.operations)
        <3>1. <<r>> # <<>> /\ <<r>>[1] = r
            OBVIOUS
        <3>2. Allows(ps, id, kind) <=> r.role = "owner" \/ (r.role = "active" /\ OpContains(p.operations, kind))
            BY <2>3, <2>4, <3>1 DEF Allows
        <3>3. OpContains(p.operations, kind) <=> Bit(kind) \in p.operations
            BY DEF OpContains
        <3> QED BY <2>3, <3>2, <3>3 DEF RoleOf
    <2>6. /\ NodeLocate(w, id) = <<q>> /\ Valid(q) /\ p.operations = q.operations.bits /\ p.threshold = q.threshold
          /\ SameKeys(p, q) \/ (LessKeys(p, q) /\ ~whole)
        BY <1>2 DEF FindsIt, SameBut
    <2>7. accepted <=> /\ id # 1 /\ (id # 0 => Bit(kind) \in p.operations)
                       /\ NodeTakes(q, addresses) /\ NodeWeighs(q, addresses) >= p.threshold
        <3>1. <<q>> # <<>> /\ <<q>>[1] = q
            OBVIOUS
        <3>2. Bit(kind) = <<kind \div 8, kind % 8>>
            BY DEF Bit
        <3> QED BY <2>6, <3>1, <3>2 DEF NodeAccepts
    <2>8. forecast <=> /\ id # 1 /\ (id # 0 => Bit(kind) \in p.operations)
                       /\ WeightOfAll(p, addresses) >= p.threshold
        <3>1. <<p>> # <<>> /\ <<p>>[1] = p
            OBVIOUS
        <3> QED BY <2>1, <2>5, <3>1 DEF IsSatisfiedBy
    <2>9. KeysWell(q.keys) /\ p.threshold \in Int
        BY <2>6 DEF Valid
    <2>10. NodeWeighs(q, addresses) \in Nat
        BY <2>9, TotalIsNat
    <2>a. clean <=> EachOnce(p, addresses)
        BY <2>1
    <2>b. /\ EachOnce(p, addresses) => NodeTakes(q, addresses)
          /\ SameKeys(p, q) => (EachOnce(p, addresses) <=> NodeTakes(q, addresses))
        BY <2>6, <2>9, CleanIsTaken
    <2> HIDE DEF forecast, accepted, clean
    <2>11. CASE SameKeys(p, q)
        <3>1. WeightOfAll(p, addresses) = NodeWeighs(q, addresses)
            BY <2>9, <2>11, SameTotals
        <3> QED BY <2>7, <2>8, <2>a, <2>b, <2>11, <3>1
    <2>12. CASE LessKeys(p, q) /\ ~whole
        <3>1. WeightOfAll(p, addresses) \in Nat /\ WeightOfAll(p, addresses) <= NodeWeighs(q, addresses)
            BY <2>9, <2>12, LessTotals
        <3>2. WeightOfAll(p, addresses) >= p.threshold => NodeWeighs(q, addresses) >= p.threshold
            BY <2>9, <2>10, <3>1
        <3> QED BY <2>7, <2>8, <2>a, <2>b, <2>12, <3>2
    <2> QED BY <2>6, <2>11, <2>12
<1>3. (forecast /\ clean => accepted) /\ (whole => (accepted <=> forecast /\ clean))
    <2> HIDE DEF forecast, accepted, clean
    <2>1. CASE Locate(ps, id) = <<>> /\ NodeLocate(w, id) = <<>>
        <3>1. ~forecast /\ ~accepted
            BY <2>1 DEF forecast, accepted, Allows, NodeAccepts
        <3> QED BY <3>1
    <2> QED BY <1>1, <1>2, <2>1, BothLocate
<1> QED BY <1>3

-------------------------------------------------------------------------------
(* The forecast.                                                           *)

\* What was read is a reading of what it was read from.
KnownWell(k) == Wired(k.of, k.granted) /\ NodeWell(k.of) /\ Reading(k.perms, k.of, k.whole)
TxKind == tx # <<>> => /\ DOMAIN tx[1] = {"kind", "id", "at", "sigs", "by"}
                       /\ tx[1].kind \in Nat /\ tx[1].id \in Int
ChainWell == NodeWell(chain.perms)
ReadWell == known # <<>> => KnownWell(known[1])
ForecastInv == GrantInv /\ ChainWell /\ ReadWell /\ TxKind /\ ForecastHolds

NoForecast(a) == a.what # "weight" /\ a.what # "broadcast"

LEMMA SameChain ==
    ASSUME ChainWell, chain' = chain
    PROVE  ChainWell'
BY DEF ChainWell

LEMMA ReadingIs ==
    ASSUME NEW k, KnownWell(k), known'[1] = k
    PROVE  ReadWell'
BY DEF ReadWell

LEMMA SameReading ==
    ASSUME ReadWell, known' = known
    PROVE  ReadWell'
BY DEF ReadWell

LEMMA NewChain ==
    ASSUME NEW w, NEW granted, Executed(w, granted), NodeWell(w)
    PROVE  ChainWell'
<1>1. chain'.perms = w
    BY DEF Executed
<1> QED BY <1>1 DEF ChainWell

LEMMA NotForecast ==
    ASSUME NoForecast(answer')
    PROVE  ForecastHolds'
BY DEF NoForecast, ForecastHolds

LEMMA SameKind ==
    ASSUME TxKind, tx' = tx
    PROVE  TxKind'
BY DEF TxKind

LEMMA ForecastInit == Init => ForecastInv
<1> SUFFICES ASSUME Init PROVE ForecastInv
    OBVIOUS
<1>1. PICK offer \in Offers :
        /\ Request(offer).ok
        /\ chain = [perms |-> Request(offer).v, granted |-> Granted(offer), updates |-> 0]
    BY DEF Init
<1>2. chain.perms = Request(offer).v
    BY <1>1
<1>3. ChainWell
    BY <1>1, <1>2, RequestIsValid DEF ChainWell
<1>4. ReadWell /\ TxKind
    BY DEF Init, ReadWell, TxKind
<1>5. ForecastHolds
    BY DEF Init, NoAnswer, ForecastHolds
<1> QED BY <1>3, <1>4, <1>5, GrantInit DEF ForecastInv

LEMMA ForecastUpdate ==
    ASSUME ForecastInv, UpdatePermissions
    PROVE  ChainWell' /\ ReadWell' /\ TxKind' /\ ForecastHolds'
<1>1. PICK offer \in Offers :
        \/ Request(offer).ok /\ Executed(Request(offer).v, Granted(offer))
        \/ UNCHANGED chain
    BY DEF UpdatePermissions
<1>2. UNCHANGED <<known, tx>> /\ NoForecast(answer')
    BY DEF UpdatePermissions, NoForecast, NoAnswer, Failed
<1>3. CASE Request(offer).ok /\ Executed(Request(offer).v, Granted(offer))
    <2>1. NodeWell(Request(offer).v)
        BY <1>3, RequestIsValid
    <2>2. ChainWell'
        BY <1>3, <2>1, NewChain
    <2> QED BY <1>2, <2>2, SameReading, SameKind, NotForecast DEF ForecastInv
<1>4. CASE UNCHANGED chain
    BY <1>2, <1>4, SameChain, SameReading, SameKind, NotForecast DEF ForecastInv
<1> QED BY <1>1, <1>3, <1>4

LEMMA ForecastAmend ==
    ASSUME ForecastInv, AmendPermissions
    PROVE  ChainWell' /\ ReadWell' /\ TxKind' /\ ForecastHolds'
<1>1. known # <<>> /\ known[1].whole /\ UNCHANGED <<known, tx>> /\ NoForecast(answer')
    BY DEF AmendPermissions, NoForecast, NoAnswer
<1>2. PICK k : k = known[1]
    OBVIOUS
<1>3. /\ DOMAIN k.perms = {"owner", "witness", "actives"}
      /\ \A i \in DOMAIN k.perms.actives : DOMAIN k.perms.actives[i] = PermissionFields
    BY <1>1, <1>2 DEF ForecastInv, GrantInv, Readable, Spelled
<1>4. ClientWell(k.perms)
    <2>1. NodeWell(k.of) /\ Reading(k.perms, k.of, TRUE)
        BY <1>1, <1>2 DEF ForecastInv, ReadWell, KnownWell, Reading
    <2> QED BY <2>1, ReadIsWeighted
<1>5. \E set, granted : Executed(UpdateToProto([k.perms EXCEPT !.actives[1].operations = set]), granted)
    BY <1>2 DEF AmendPermissions
<1>6. PICK set, granted : Executed(UpdateToProto([k.perms EXCEPT !.actives[1].operations = set]), granted)
    BY <1>5
<1>7. NodeWell(UpdateToProto([k.perms EXCEPT !.actives[1].operations = set]))
    BY <1>3, <1>4, AmendedIsValid
<1>8. ChainWell'
    BY <1>6, <1>7, NewChain
<1> QED BY <1>1, <1>8, SameReading, SameKind, NotForecast DEF ForecastInv

LEMMA ForecastGetAccount ==
    ASSUME ForecastInv, GetAccount
    PROVE  ChainWell' /\ ReadWell' /\ TxKind' /\ ForecastHolds'
<1>1. PICK form \in Forms(chain.perms) :
        known' = <<[perms |-> PermissionsFromProto(form.w), whole |-> form.whole,
                    granted |-> chain.granted, of |-> chain.perms]>>
    BY DEF GetAccount
<1>2. UNCHANGED <<chain, tx>> /\ NoForecast(answer')
    BY DEF GetAccount, NoForecast, NoAnswer
<1>3. PICK k : k = [perms |-> PermissionsFromProto(form.w), whole |-> form.whole,
                    granted |-> chain.granted, of |-> chain.perms]
    OBVIOUS
<1>4. /\ k.perms = PermissionsFromProto(form.w) /\ k.granted = chain.granted
      /\ k.whole = form.whole /\ k.of = chain.perms
    BY <1>3
<1>5. Wired(chain.perms, chain.granted) /\ NodeWell(chain.perms)
    BY DEF ForecastInv, GrantInv, ChainWell
<1>6. Reading(PermissionsFromProto(form.w), chain.perms, form.whole)
    BY <1>5, ReadingOf
<1>7. KnownWell(k)
    BY <1>4, <1>5, <1>6 DEF KnownWell
<1>8. known' = <<k>>
    BY <1>1, <1>3
<1>9. known'[1] = k
    BY <1>8
<1>10. ReadWell'
    BY <1>7, <1>9, ReadingIs
<1> QED BY <1>2, <1>10, SameChain, SameKind, NotForecast DEF ForecastInv

LEMMA ForecastAskWeight ==
    ASSUME ForecastInv, AskWeight
    PROVE  ForecastHolds'
<1>1. PICK t, k : t = tx[1] /\ k = known[1]
    OBVIOUS
<1>2. tx # <<>> /\ known # <<>>
    BY DEF AskWeight
<1>3. PICK mine, reply : /\ mine = ById(k.perms, t.id)
                         /\ reply = NodeSignWeight(chain.perms, t.id, Recovered(t))
    OBVIOUS
<1>4. PICK weight : weight = IF mine = <<>> THEN 0 ELSE WeightOfAll(mine[1], Recovered(t))
    OBVIOUS
<1>5. PICK held, clean : /\ held = IF reply.permission = <<>> THEN 0
                                  ELSE NodeWeighs(reply.permission[1], Recovered(t))
                         /\ clean = (mine # <<>> /\ EachOnce(mine[1], Recovered(t)))
    OBVIOUS
<1>6. answer' = [what |-> "weight", node |-> SignWeight(reply), found |-> reply.permission # <<>>,
                 mine |-> weight, held |-> held, clean |-> clean,
                 current |-> k.of = chain.perms, whole |-> k.whole]
    BY <1>1, <1>3, <1>4, <1>5 DEF AskWeight
<1>7. /\ answer'.what = "weight" /\ answer'.node = SignWeight(reply) /\ answer'.found = (reply.permission # <<>>)
      /\ answer'.mine = weight /\ answer'.held = held /\ answer'.clean = clean
      /\ answer'.current = (k.of = chain.perms) /\ answer'.whole = k.whole
    BY <1>6
<1>8. t.id \in Int /\ KnownWell(k)
    BY <1>1, <1>2 DEF ForecastInv, TxKind, ReadWell
<1>9. ASSUME k.of = chain.perms, reply.permission # <<>>
      PROVE  weight <= held /\ (k.whole => weight = held) /\ (clean => SignWeight(reply).current = held)
    <2>1. PICK ps, w, granted, whole, addresses, id :
            ps = k.perms /\ w = k.of /\ granted = k.granted /\ whole = k.whole /\ addresses = Recovered(t) /\ id = t.id
        OBVIOUS
    <2>2. Reading(ps, w, whole) /\ Wired(w, granted) /\ NodeWell(w) /\ id \in Int
        BY <1>8, <2>1 DEF KnownWell
    <2>3. mine = ById(ps, id) /\ reply = NodeSignWeight(w, id, addresses)
        BY <1>3, <1>9, <2>1
    <2>4. LET n == IF mine = <<>> THEN 0 ELSE WeightOfAll(mine[1], addresses)
              h == NodeWeighs(reply.permission[1], addresses)
          IN /\ n <= h /\ (whole => n = h)
             /\ mine # <<>> /\ EachOnce(mine[1], addresses) => SignWeight(reply).current = h
        BY <1>9, <2>2, <2>3, WeightsAgree
    <2>5. held = NodeWeighs(reply.permission[1], addresses)
        BY <1>5, <1>9, <2>1
    <2> QED BY <1>4, <1>5, <2>1, <2>4, <2>5
<1> QED BY <1>7, <1>9 DEF ForecastHolds

LEMMA ForecastBroadcast ==
    ASSUME ForecastInv, Broadcast
    PROVE  ForecastHolds'
<1>1. PICK t, k : t = tx[1] /\ k = known[1]
    OBVIOUS
<1>2. tx # <<>> /\ known # <<>>
    BY DEF Broadcast
<1>3. PICK mine : mine = ById(k.perms, t.id)
    OBVIOUS
<1> DEFINE forecast == Allows(k.perms, t.id, t.kind) /\ mine # <<>> /\ IsSatisfiedBy(mine[1], Recovered(t))
           accepted == NodeAccepts(chain.perms, t.id, t.kind, Recovered(t))
           clean == mine # <<>> /\ EachOnce(mine[1], Recovered(t))
<1>4. answer' = [what |-> "broadcast", forecast |-> forecast, clean |-> clean, accepted |-> accepted,
                 current |-> k.of = chain.perms, whole |-> k.whole]
    BY <1>1, <1>3 DEF Broadcast
<1>5. t.id \in Int /\ t.kind \in Nat /\ KnownWell(k)
    BY <1>1, <1>2 DEF ForecastInv, TxKind, ReadWell
<1>6. ASSUME k.of = chain.perms 
      PROVE  (forecast /\ clean => accepted) /\ (k.whole => (accepted <=> forecast /\ clean))
    <2>1. PICK ps, w, granted, whole, addresses, id, kind :
            /\ ps = k.perms /\ w = k.of /\ granted = k.granted /\ whole = k.whole
            /\ addresses = Recovered(t) /\ id = t.id /\ kind = t.kind
        OBVIOUS
    <2>2. Reading(ps, w, whole) /\ Wired(w, granted) /\ NodeWell(w) /\ id \in Int /\ kind \in Nat
        BY <1>5, <2>1 DEF KnownWell
    <2>3. mine = ById(ps, id)
        BY <1>3, <2>1
    <2>4. LET says == Allows(ps, id, kind) /\ mine # <<>> /\ IsSatisfiedBy(mine[1], addresses)
              does == NodeAccepts(w, id, kind, addresses)
              once == mine # <<>> /\ EachOnce(mine[1], addresses)
          IN (says /\ once => does) /\ (whole => (does <=> says /\ once))
        BY <2>2, <2>3, VerdictsAgree
    <2> QED BY <1>6, <2>1, <2>4
<1> HIDE DEF forecast, accepted, clean
<1>7. /\ answer'.what = "broadcast" /\ answer'.forecast = forecast /\ answer'.accepted = accepted
      /\ answer'.clean = clean /\ answer'.current = (k.of = chain.perms) /\ answer'.whole = k.whole
    BY <1>4
<1> QED BY <1>6, <1>7 DEF ForecastHolds

LEMMA KindIsKept ==
    ASSUME TxKind, Next \/ UNCHANGED vars
    PROVE  TxKind'
<1>1. ASSUME NEW p \in Parties, BuildTransaction(p) PROVE TxKind'
    <2>1. PICK kind \in Kinds, id \in Ids :
            tx' = <<[kind |-> kind, id |-> id, at |-> p, sigs |-> <<>>, by |-> <<>>]>>
        BY <1>1 DEF BuildTransaction
    <2>2. kind \in Nat /\ id \in Int
        BY MultisigAssumption
    <2>3. PICK t : t = [kind |-> kind, id |-> id, at |-> p, sigs |-> <<>>, by |-> <<>>]
        OBVIOUS
    <2>4. DOMAIN t = {"kind", "id", "at", "sigs", "by"} /\ t.kind = kind /\ t.id = id
        BY <2>3
    <2>5. tx'[1] = t
        BY <2>1, <2>3
    <2> QED BY <2>2, <2>4, <2>5 DEF TxKind
<1>2. ASSUME NEW t, tx # <<>>, tx' = <<t>>, \E at, sigs, by : t = [tx[1] EXCEPT !.at = at, !.sigs = sigs, !.by = by]
      PROVE  TxKind'
    <2>1. DOMAIN t = {"kind", "id", "at", "sigs", "by"} /\ t.kind = tx[1].kind /\ t.id = tx[1].id
        BY <1>2 DEF TxKind
    <2>2. tx'[1] = t
        BY <1>2
    <2> QED BY <1>2, <2>1, <2>2 DEF TxKind
<1>3. CASE Sign
    <2>1. tx # <<>> /\ (UNCHANGED tx \/ \E sigs, by : tx' = <<[tx[1] EXCEPT !.sigs = sigs, !.by = by]>>)
        BY <1>3, Zenon DEF Sign
    <2>2. CASE UNCHANGED tx
        BY <2>2, SameKind
    <2>3. CASE ~UNCHANGED tx
        <3>1. PICK sigs, by : tx' = <<[tx[1] EXCEPT !.sigs = sigs, !.by = by]>>
            BY <2>1, <2>3
        <3>2. PICK t : t = [tx[1] EXCEPT !.sigs = sigs, !.by = by]
            OBVIOUS
        <3>3. DOMAIN t = {"kind", "id", "at", "sigs", "by"} /\ t.kind = tx[1].kind /\ t.id = tx[1].id
            BY <2>1, <3>2 DEF TxKind
        <3>4. tx'[1] = t
            BY <3>1, <3>2
        <3> QED BY <2>1, <3>3, <3>4 DEF TxKind
    <2> QED BY <2>2, <2>3
<1>4. ASSUME NEW q \in Parties, HandOver(q) PROVE TxKind'
    <2>1. tx # <<>> /\ (UNCHANGED tx \/ \E sigs, by : tx' = <<[tx[1] EXCEPT !.at = q, !.sigs = sigs, !.by = by]>>)
        BY <1>4, Zenon DEF HandOver
    <2>2. CASE UNCHANGED tx
        BY <2>2, SameKind
    <2>3. CASE ~UNCHANGED tx
        <3>1. PICK sigs, by : tx' = <<[tx[1] EXCEPT !.at = q, !.sigs = sigs, !.by = by]>>
            BY <2>1, <2>3
        <3>2. PICK t : t = [tx[1] EXCEPT !.at = q, !.sigs = sigs, !.by = by]
            OBVIOUS
        <3>3. tx' = <<t>>
            BY <3>1, <3>2
        <3> QED BY <1>2, <2>1, <3>2, <3>3
    <2> QED BY <2>2, <2>3
<1>5. CASE Broadcast
    BY <1>5 DEF Broadcast, TxKind
<1>6. ASSUME NEW p \in Parties, SaveKeystore(p) \/ LoadKeystore(p) \/ NextSigner(p) \/ LoadKms(p) \/ SetDefault(p)
                               \/ SignMessage(p)
      PROVE  UNCHANGED tx
    BY <1>6 DEF SaveKeystore, LoadKeystore, NextSigner, LoadKms, SetDefault, SignMessage
<1>7. ASSUME Damage \/ NewIter \/ Repoint \/ UpdatePermissions \/ AmendPermissions \/ GetAccount \/ AskWeight
             \/ UNCHANGED vars
      PROVE  UNCHANGED tx
    BY <1>7 DEF Damage, NewIter, Repoint, UpdatePermissions, AmendPermissions, GetAccount, AskWeight, vars
<1> QED BY <1>1, <1>3, <1>4, <1>5, <1>6, <1>7, SameKind DEF Next

LEMMA ForecastStep == ForecastInv /\ [Next]_vars => ForecastInv'
<1> SUFFICES ASSUME ForecastInv, [Next]_vars PROVE ForecastInv'
    OBVIOUS
<1>1. GrantInv' /\ TxKind'
    BY GrantStep, KindIsKept DEF ForecastInv
<1>2. ASSUME UNCHANGED <<chain, known>> PROVE ChainWell' /\ ReadWell'
    BY <1>2, SameChain, SameReading DEF ForecastInv
<1>3. ASSUME NEW p \in Parties,
             \/ SaveKeystore(p) \/ LoadKeystore(p) \/ NextSigner(p) \/ LoadKms(p)
             \/ SetDefault(p) \/ BuildTransaction(p) \/ HandOver(p) \/ SignMessage(p)
      PROVE  UNCHANGED <<chain, known>> /\ NoForecast(answer')
    <2>1. UNCHANGED <<chain, known>>
        BY <1>3 DEF SaveKeystore, LoadKeystore, NextSigner, LoadKms, SetDefault, BuildTransaction,
                    HandOver, SignMessage
    <2>2. answer'.what \in {"none", "error", "keystore", "iterated", "message"}
        <3>1. NoAnswer.what = "none" /\ Failed.what = "error"
            BY DEF NoAnswer, Failed
        <3>2. CASE SaveKeystore(p) \/ BuildTransaction(p) \/ LoadKms(p) \/ SetDefault(p) \/ HandOver(p)
            <4>1. answer' = NoAnswer \/ answer' = Failed
                BY <3>2, Zenon DEF SaveKeystore, BuildTransaction, LoadKms, SetDefault, HandOver
            <4> QED BY <3>1, <4>1
        <3>3. CASE LoadKeystore(p)
            BY <3>3 DEF LoadKeystore
        <3>4. CASE NextSigner(p)
            BY <3>4 DEF NextSigner
        <3>5. CASE SignMessage(p)
            <4>1. answer' = Failed \/ \E a, hash, bytes : answer' = [what |-> "message", by |-> a, hash |-> hash, bytes |-> bytes]
                BY <3>5, Zenon DEF SignMessage
            <4> QED BY <3>1, <4>1
        <3> QED BY <1>3, <3>2, <3>3, <3>4, <3>5
    <2> QED BY <2>1, <2>2 DEF NoForecast
<1>4. ASSUME Damage \/ NewIter \/ Repoint \/ Sign
      PROVE  UNCHANGED <<chain, known>> /\ NoForecast(answer')
    <2>1. UNCHANGED <<chain, known>>
        BY <1>4 DEF Damage, NewIter, Repoint, Sign
    <2>2. answer' = NoAnswer \/ answer' = Failed
        BY <1>4, Zenon DEF Damage, NewIter, Repoint, Sign
    <2> QED BY <2>1, <2>2 DEF NoForecast, NoAnswer, Failed
<1>5. CASE AskWeight
    BY <1>1, <1>2, <1>5, ForecastAskWeight DEF AskWeight, ForecastInv
<1>6. CASE Broadcast
    BY <1>1, <1>2, <1>6, ForecastBroadcast DEF Broadcast, ForecastInv
<1>7. CASE UpdatePermissions
    BY <1>1, <1>7, ForecastUpdate DEF ForecastInv
<1>8. CASE AmendPermissions
    BY <1>1, <1>8, ForecastAmend DEF ForecastInv
<1>9. CASE GetAccount
    BY <1>1, <1>9, ForecastGetAccount DEF ForecastInv
<1>10. CASE UNCHANGED vars
    <2>1. ForecastHolds'
        BY <1>10 DEF vars, ForecastInv, ForecastHolds
    <2> QED BY <1>1, <1>2, <1>10, <2>1 DEF vars, ForecastInv
<1>11. ASSUME UNCHANGED <<chain, known>>, NoForecast(answer') PROVE ForecastInv'
    BY <1>1, <1>2, <1>11, NotForecast DEF ForecastInv
<1> QED BY <1>3, <1>4, <1>5, <1>6, <1>7, <1>8, <1>9, <1>10, <1>11 DEF Next

(***************************************************************************)
(* As long as the permissions that were read are the account's: the weight *)
(* the client adds up is that of the keys that signed, each once, and the  *)
(* node's when each signature is of another key of the permission; a       *)
(* transaction so signed that they call sufficient and allowed is taken,   *)
(* and, unless keys or permissions were lost in reading, no other is.      *)
(* What was lost only ever makes the client expect less.  The node refuses *)
(* stray and repeated signatures (weight_of_all, is_satisfied_by, allows). *)
(***************************************************************************)
THEOREM ForecastHoldsHolds == Spec => []ForecastHolds
<1>1. ForecastInv => ForecastHolds
    BY DEF ForecastInv
<1> QED BY <1>1, ForecastInit, ForecastStep, PTL DEF Spec

===============================================================================
