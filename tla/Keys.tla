--------------------------------- MODULE Keys ---------------------------------
(***************************************************************************)
(* Where signatures come from: recoverable signatures and their bytes, the *)
(* local key, the keystore file, the mnemonic and its iterator, the key in *)
(* AWS KMS, and the wallet that holds them (the signer and signer-aws      *)
(* crates, signature.rs and message.rs of primitives).                     *)
(* Cryptography is symbolic: a key is a name, a signature remembers which  *)
(* key made it over which hash, a derived key is what it was derived from. *)
(***************************************************************************)
EXTENDS Integers, Sequences, SequencesExt, FiniteSets, TLC

\* u32::MAX, the last child index.
CONSTANT MaxIndex
ASSUME MaxIndexAssumption == MaxIndex \in Nat

Ok(v) == [ok |-> TRUE, v |-> v]
Err(e) == [ok |-> FALSE, e |-> e]

Key(source, path) == [source |-> source, path |-> path]
\* What recovering with the wrong parity gives, and decrypting with the wrong iv.
Nobody == Key("nobody", <<>>)
Garbled == Key("garbled", <<>>)

\* Address::from_public_key: one address for one key.
AddressOf(key) == [of |-> key]
ZeroAddress == AddressOf(Key("zero", <<>>))

-------------------------------------------------------------------------------
(* Hashes and signatures.  y is the parity that recovers the key, v the    *)
(* one that the signature states.                                          *)

TxHash(raw) == [domain |-> "transaction", what |-> raw]
\* hash_message: the prefix keeps messages apart from everything else.
HashMessage(m) == [domain |-> "message", what |-> m]
\* TIP-712 structured data, with a prefix of its own.
HashTypedData(d) == [domain |-> "typed", what |-> d]

Signature(key, hash, y, s, v) == [key |-> key, hash |-> hash, y |-> y, s |-> s, v |-> v]

Recover(sig, hash) ==
    AddressOf(IF sig.hash = hash /\ sig.v = sig.y THEN sig.key ELSE Nobody)
VerifyMessage(m, sig, address) == Recover(sig, HashMessage(m)) = address

Bytes(sig, v, len) == [sig |-> sig, v |-> v, len |-> len]
ToBytes(sig) == Bytes(sig, sig.v, 65)
ToLegacyBytes(sig) == Bytes(sig, sig.v + 27, 65)
FromBytes(bytes) ==
    IF bytes.len # 65 THEN Err("BadLength")
    ELSE IF bytes.v \in {0, 1} THEN Ok([bytes.sig EXCEPT !.v = bytes.v])
    ELSE IF bytes.v \in {27, 28} THEN Ok([bytes.sig EXCEPT !.v = bytes.v - 27])
    ELSE Err("BadRecoveryId")

-------------------------------------------------------------------------------
(* Credentials.                                                            *)

\* A key in memory signs the same hash in the same way every time.
Parity(key) == IF key.source = "hd" THEN 1 ELSE 0
SignHashSync(key, hash) == Signature(key, hash, Parity(key), "low", Parity(key))

LocalSigner(key) == [address |-> AddressOf(key), backend |-> "local", key |-> key]
\* AwsSigner::new: the alias is resolved once, and its key remembered.
AwsSigner(key) == [address |-> AddressOf(key), backend |-> "kms", key |-> key]

\* decode_signature: the low s of the two, and the other parity with it.
DecodeSignature(sig) == IF sig.s = "high" THEN [sig EXCEPT !.s = "low", !.y = 1 - @] ELSE sig

CheckCandidate(sig, hash, key) == Recover(sig, hash) = AddressOf(key)
\* Mutated form: the first candidate will do.
TrialRecoveryUnchecked(sig, hash, key) == Ok([sig EXCEPT !.v = 0])
\* sig_from_digest_bytes_trial_recovery
TrialRecovery(sig, hash, key) ==
    IF CheckCandidate([sig EXCEPT !.v = 0], hash, key) THEN Ok([sig EXCEPT !.v = 0])
    ELSE IF CheckCandidate([sig EXCEPT !.v = 1], hash, key) THEN Ok([sig EXCEPT !.v = 1])
    ELSE Err("SignatureRecoveryFailed")

\* What KMS may answer to Sign, for the key its alias names now.
KmsAnswers(aliasKey, hash) ==
    {Ok(Signature(aliasKey, hash, y, s, 0)) : y \in {0, 1}, s \in {"low", "high"}} \cup {Err("Kms")}
\* TronSigner::sign_hash of either backend.
SignHash(credential, hash, kmsAnswer) ==
    IF credential.backend = "local" THEN Ok(SignHashSync(credential.key, hash))
    ELSE IF ~kmsAnswer.ok THEN kmsAnswer
    ELSE TrialRecovery(DecodeSignature(kmsAnswer.v), hash, credential.key)

-------------------------------------------------------------------------------
(* TronWallet.                                                             *)

EmptyWallet == [default |-> ZeroAddress, signers |-> <<>>]
RegisterSigner(w, c) ==
    [w EXCEPT !.signers = [a \in DOMAIN @ \cup {c.address} |-> IF a = c.address THEN c ELSE @[a]]]
RegisterDefaultSigner(w, c) == [RegisterSigner(w, c) EXCEPT !.default = c.address]
SetDefaultSigner(w, a) ==
    IF a \in DOMAIN w.signers THEN Ok([w EXCEPT !.default = a]) ELSE Err("NotRegistered")
RequireSigner(w, a) == IF a \in DOMAIN w.signers THEN Ok(w.signers[a]) ELSE Err("MissingCredential")
SignHashWith(w, a, hash, kmsAnswer) ==
    LET signer == RequireSigner(w, a)
    IN IF signer.ok THEN SignHash(signer.v, hash, kmsAnswer) ELSE signer

\* A finite set of numbers, in order.
Ascending(S) ==
    CHOOSE f \in [1 .. Cardinality(S) -> S] : \A j, k \in DOMAIN f : j < k => f[j] < f[k]
\* Where a key is named for the first time.
Firsts(keys) == Ascending({i \in DOMAIN keys : \A j \in 1 .. i - 1 : keys[j] # keys[i]})
\* sign_hash_with_many: in order, each key once, and all or nothing.
SignHashWithMany(w, keys, hash, kmsAnswer) ==
    LET firsts == Firsts(keys)
        results == [k \in DOMAIN firsts |-> SignHashWith(w, keys[firsts[k]], hash, kmsAnswer)]
    IN IF \A k \in DOMAIN results : results[k].ok
       THEN Ok([k \in DOMAIN results |-> results[k].v])
       ELSE results[CHOOSE k \in DOMAIN results : ~results[k].ok /\ \A j \in 1 .. k - 1 : results[j].ok]

-------------------------------------------------------------------------------
(* The keystore file.  A field is "good" as written, or damaged.           *)

DerivedKey(f, password) == [kdf |-> f.kdf, cost |-> f.cost, salt |-> f.salt, password |-> password]

\* encrypt_inner; other tools write pbkdf2, which is only read.
Encrypt(key, password, kdf) ==
    [json |-> "good", address |-> AddressOf(key), cipher |-> "good", iv |-> "good",
     ciphertext |-> "good", mac |-> "good", kdf |-> kdf, kdfparams |-> kdf, dklen |-> "good",
     cost |-> "good", prf |-> "good", salt |-> "good", key |-> key,
     sealed |-> DerivedKey([kdf |-> kdf, cost |-> "good", salt |-> "good"], password)]

\* What can have become of one field of the file; json is the file cut short.
Damages ==
    [json |-> {"torn"}, address |-> {ZeroAddress}, cipher |-> {"other"}, iv |-> {"nothex", "short", "other"},
     ciphertext |-> {"nothex", "short", "other"}, mac |-> {"nothex", "other"},
     kdf |-> {"scrypt", "pbkdf2", "argon2"}, dklen |-> {"other"}, cost |-> {"zero", "odd", "other"},
     prf |-> {"other"}, salt |-> {"nothex", "other"}]

\* derive_key
DeriveKey(f, password) ==
    IF f.dklen # "good" THEN Err("InvalidField")
    ELSE IF f.salt = "nothex" THEN Err("Hex")
    ELSE IF f.kdf = "scrypt" /\ f.kdfparams = "scrypt" /\ f.cost \in {"zero", "odd"}
    THEN Err("InvalidScryptN")
    ELSE IF f.kdf = "pbkdf2" /\ f.kdfparams = "pbkdf2" /\ f.prf # "good" THEN Err("UnsupportedPrf")
    ELSE IF f.kdf = "pbkdf2" /\ f.kdfparams = "pbkdf2" /\ f.cost = "zero" THEN Err("InvalidField")
    ELSE IF f.kdf = f.kdfparams THEN Ok(DerivedKey(f, password))
    ELSE IF f.kdf \in {"scrypt", "pbkdf2"} THEN Err("InvalidField")
    ELSE Err("UnsupportedKdf")

\* The message authentication code covers the derived key and the ciphertext.
MacMatches(f, derived) == derived = f.sealed /\ f.ciphertext = "good" /\ f.mac = "good"
AesCtr(f, derived) ==
    IF derived = f.sealed /\ f.ciphertext = "good" /\ f.iv = "good" THEN f.key ELSE Garbled

\* Mutated form: no MAC.
DecryptUnauthenticated(f, password) ==
    IF f.cipher # "good" THEN Err("UnsupportedCipher")
    ELSE IF f.iv = "nothex" THEN Err("Hex")
    ELSE IF f.iv = "short" THEN Err("InvalidField")
    ELSE IF f.ciphertext = "nothex" \/ f.mac = "nothex" THEN Err("Hex")
    ELSE IF ~DeriveKey(f, password).ok THEN DeriveKey(f, password)
    ELSE IF f.ciphertext = "short" THEN Err("InvalidField")
    ELSE Ok(AesCtr(f, DeriveKey(f, password).v))
Decrypt(f, password) ==
    IF f.cipher # "good" THEN Err("UnsupportedCipher")
    ELSE IF f.iv = "nothex" THEN Err("Hex")
    ELSE IF f.iv = "short" THEN Err("InvalidField")
    ELSE IF f.ciphertext = "nothex" \/ f.mac = "nothex" THEN Err("Hex")
    ELSE IF ~DeriveKey(f, password).ok THEN DeriveKey(f, password)
    ELSE IF ~MacMatches(f, DeriveKey(f, password).v) THEN Err("InvalidPassword")
    ELSE IF f.ciphertext = "short" THEN Err("InvalidField")
    ELSE Ok(AesCtr(f, DeriveKey(f, password).v))
DecryptFromFile(f, password) == IF f.json = "torn" THEN Err("Json") ELSE Decrypt(f, password)

-------------------------------------------------------------------------------
(* The mnemonic.  A key derived from the phrase is named by its path.      *)

DeriveChild(key, index) == [key EXCEPT !.path = Append(@, index)]
Master == Key("hd", <<>>)

\* MnemonicBuilder::build
Build(phrase, path) == IF phrase THEN Ok(Key("hd", path)) ELSE Err("MissingPhrase")

\* Mutated form: the whole path.
BuildParentKeyWhole(phrase, path) == IF phrase THEN Ok(Key("hd", path)) ELSE Err("MissingPhrase")
\* build_parent_key: all but the last component, of more than one.
BuildParentKey(phrase, path) ==
    IF ~phrase THEN Err("MissingPhrase")
    ELSE IF Len(path) > 1 THEN Ok(Key("hd", SubSeq(path, 1, Len(path) - 1)))
    ELSE Ok(Master)

Active(key, next) == [state |-> "active", key |-> key, next |-> next, e |-> ""]
Failing(e) == [state |-> "error", key |-> Master, next |-> 0, e |-> e]
Ended == [state |-> "ended", key |-> Master, next |-> 0, e |-> ""]

\* into_iter: from the last component of the path.
IntoIter(phrase, path) ==
    LET parent == BuildParentKey(phrase, path)
    IN IF parent.ok THEN Active(parent.v, IF path = <<>> THEN 0 ELSE Last(path)) ELSE Failing(parent.e)

\* Iterator::next: the item, if any, and what is left of the iterator.
IterNext(iter) ==
    IF iter.state = "active" /\ iter.next = MaxIndex THEN [item |-> <<>>, rest |-> iter]
    ELSE IF iter.state = "active"
    THEN [item |-> <<Ok(DeriveChild(iter.key, iter.next))>>, rest |-> Active(iter.key, iter.next + 1)]
    ELSE IF iter.state = "error" THEN [item |-> <<Err(iter.e)>>, rest |-> Ended]
    ELSE [item |-> <<>>, rest |-> iter]
=============================================================================
