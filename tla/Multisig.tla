------------------------------- MODULE Multisig -------------------------------
(***************************************************************************)
(* One account, several keys.  Parties load their keys into wallets, read  *)
(* the account's permissions, sign one transaction after the other, pass   *)
(* it on as bytes, and ask whether it will do before they broadcast it;    *)
(* meanwhile the permissions change and the KMS alias is pointed at        *)
(* another key.                                                            *)
(*                                                                         *)
(* External: the node, KMS, the disk, and a tool of another make that      *)
(* signs too.                                                              *)
(***************************************************************************)
EXTENDS Permissions

CONSTANTS
    Parties,        \* clients, each with a wallet
    Kinds,          \* contract kinds of the transactions, as numbers
    Ids,            \* permission ids that are tried
    Paths,          \* derivation paths that are iterated from
    MaxLoads,       \* bound: credentials put into wallets
    MaxUpdates,     \* bound: permission updates
    MaxSigned       \* bound: signatures that the parties make

\* A component of a path is a u32.
ASSUME PathsAssumption == Paths \subseteq Seq(0..MaxIndex)
ASSUME MultisigAssumption ==
    /\ Parties # {} /\ Kinds \subseteq Nat /\ Ids \subseteq Int
    /\ MaxLoads \in Nat /\ MaxUpdates \in Nat /\ MaxSigned \in Nat

\* The keys at hand: one in memory, one from the phrase, two in KMS, and one
\* that only the tool has.
Own == Key("local", <<1>>)
Derived == Key("hd", <<44, 0>>)
Kms1 == Key("kms", <<1>>)
Kms2 == Key("kms", <<2>>)
Tools == Key("tool", <<1>>)
Passwords == {"right", "wrong"}

VARIABLES
    wallet,     \* [Parties -> TronWallet]
    loads,      \* how many credentials were loaded
    file,       \* <<>>, or <<the keystore file>>
    iter,       \* <<>>, or <<the iterator over the phrase's keys>>
    alias,      \* the key that the KMS alias names
    chain,      \* the account's permissions at the node, and how many updates made them
    known,      \* <<>>, or <<the permissions as they were last read>>
    tx,         \* <<>>, or <<the transaction that is being signed>>
    answer      \* what the last operation returned

vars == <<wallet, loads, file, iter, alias, chain, known, tx, answer>>

NoAnswer == [what |-> "none"]
Failed == [what |-> "error"]

-------------------------------------------------------------------------------
(* What the account's owner may ask for.                                   *)

K(key, weight) == PermissionKey(AddressOf(key), weight)
OwnerOf(p) == [owner |-> <<p>>, witness |-> <<>>, actives |-> <<>>]
Two == Permission(2, 2, <<K(Own, 1), K(Derived, 1), K(Kms1, 1)>>, {})
Three == Permission(3, 3, <<K(Kms1, 2), K(Tools, 1), K(Kms2, 2)>>, {})
Solo == Permission(0, 1, <<K(Own, 1)>>, {})

\* Each offer: the permissions, and the operation ids listed for each active one.
Offer(ps, lists) == [ps |-> ps, lists |-> lists]
Offers ==
    {Offer(OwnerOf(Solo), <<>>),
     Offer([OwnerOf(Permission(0, 2, <<K(Own, 1), K(Kms1, 1)>>, {})) EXCEPT !.actives = <<Two>>],
           << <<1, 31>> >>),
     Offer([OwnerOf(Solo) EXCEPT !.witness = <<Permission(1, 1, <<K(Kms2, 1)>>, {})>>,
                                 !.actives = <<Two, Three>>], << <<1>>, <<46, 255, 1>> >>),
     Offer([OwnerOf(Solo) EXCEPT !.actives = <<Two>>], << <<>> >>),
     Offer([OwnerOf(Solo) EXCEPT !.actives = <<Two>>], << <<1, 256>> >>),
     Offer(OwnerOf([Solo EXCEPT !.operations = {Bit(1)}]), <<>>)}

\* The operation sets are made of the lists, then the builder checks them.
Request(offer) ==
    LET sets == [i \in DOMAIN offer.lists |-> TryFromIter(offer.lists[i])]
        ps == [offer.ps EXCEPT !.actives = [i \in DOMAIN @ |-> [@[i] EXCEPT !.operations = sets[i].v]]]
    IN IF \E i \in DOMAIN sets : ~sets[i].ok THEN Err("OutOfRange")
       ELSE IF ~CheckOperations(ps) THEN Err("LocalUsage")
       ELSE Ok(UpdateToProto(ps))

Range1(seq) == {seq[i] : i \in DOMAIN seq}
Granted(offer) == [i \in DOMAIN offer.lists |-> Range1(offer.lists[i])]

Init ==
    /\ wallet = [p \in Parties |-> EmptyWallet] /\ loads = 0
    /\ file \in {<<>>, <<Encrypt(Own, "right", "pbkdf2")>>, <<Encrypt(Own, "right", "scrypt")>>}
    /\ iter = <<>> /\ alias = Kms1
    /\ \E offer \in Offers : /\ Request(offer).ok
                             /\ chain = [perms |-> Request(offer).v, granted |-> Granted(offer), updates |-> 0]
    /\ known = <<>> /\ tx = <<>> /\ answer = NoAnswer

-------------------------------------------------------------------------------
(* Keys into wallets, before the permissions are read and there is a       *)
(* transaction (bound: MaxLoads), from one source at a time.               *)

Preparing == tx = <<>> /\ known = <<>>
Loading == Preparing /\ loads < MaxLoads

\* A party's first credential is its default, until it sets another.
Register(p, c) ==
    wallet' = [wallet EXCEPT ![p] = IF DOMAIN @.signers = {} THEN RegisterDefaultSigner(@, c)
                                    ELSE RegisterSigner(@, c)]

\* encrypt_keystore, and a crash in the middle of the write.
SaveKeystore(p) ==
    /\ Loading /\ file = <<>> /\ iter = <<>> /\ AddressOf(Derived) \in DOMAIN wallet[p].signers
    /\ \E json \in {"good", "torn"} :
        file' = <<[Encrypt(Derived, "right", "scrypt") EXCEPT !.json = json]>>
    /\ answer' = NoAnswer
    /\ UNCHANGED <<wallet, loads, iter, alias, chain, known, tx>>

\* The file at rest: one field is not what it was.
Damage ==
    /\ Loading /\ file # <<>>
    /\ file[1] \in {Encrypt(file[1].key, "right", kdf) : kdf \in {"scrypt", "pbkdf2"}}
    /\ \E field \in DOMAIN Damages : \E v \in Damages[field] :
        file' = <<[file[1] EXCEPT ![field] = v]>>
    /\ answer' = NoAnswer
    /\ UNCHANGED <<wallet, loads, iter, alias, chain, known, tx>>

\* decrypt_keystore; the application registers the key it was after.
LoadKeystore(p) ==
    /\ Loading /\ file # <<>>
    /\ \E password \in Passwords :
        LET result == DecryptFromFile(file[1], password)
        IN /\ answer' = [what |-> "keystore", result |-> result, file |-> file[1], password |-> password]
           /\ IF result.ok /\ result.v # Garbled
              THEN Register(p, LocalSigner(result.v)) /\ loads' = loads + 1
              ELSE UNCHANGED <<wallet, loads>>
    /\ file' = <<>>
    /\ UNCHANGED <<iter, alias, chain, known, tx>>

\* MnemonicBuilder, with or without a phrase: into_iter.
NewIter ==
    /\ Loading /\ iter = <<>> /\ file = <<>>
    /\ \E phrase \in BOOLEAN, path \in Paths :
        iter' = <<[at |-> IntoIter(phrase, path), phrase |-> phrase, path |-> path, taken |-> 0]>>
    /\ answer' = NoAnswer
    /\ UNCHANGED <<wallet, loads, file, alias, chain, known, tx>>

\* next(); the application registers the key it was after.
NextSigner(p) ==
    /\ Loading /\ iter # <<>> /\ iter[1].taken < 3
    /\ LET step == IterNext(iter[1].at)
           wanted == step.item = <<Ok(Derived)>>
       IN /\ iter' = IF wanted THEN <<>> ELSE <<[iter[1] EXCEPT !.at = step.rest, !.taken = @ + 1]>>
          /\ answer' = [what |-> "iterated", item |-> step.item, iter |-> iter[1]]
          /\ IF wanted THEN Register(p, LocalSigner(Derived)) /\ loads' = loads + 1
             ELSE UNCHANGED <<wallet, loads>>
    /\ UNCHANGED <<file, alias, chain, known, tx>>

\* AwsSigner::new; GetPublicKey may fail.
LoadKms(p) ==
    /\ Loading
    /\ \/ Register(p, AwsSigner(alias)) /\ loads' = loads + 1 /\ answer' = NoAnswer
       \/ answer' = Failed /\ UNCHANGED <<wallet, loads>>
    /\ UNCHANGED <<file, iter, alias, chain, known, tx>>

\* The operator points the alias at a new key, after the key was loaded.
Repoint ==
    /\ tx # <<>> /\ alias = Kms1
    /\ alias' = Kms2 /\ answer' = NoAnswer
    /\ UNCHANGED <<wallet, loads, file, iter, chain, known, tx>>

SetDefault(p) ==
    /\ Preparing /\ Cardinality(DOMAIN wallet[p].signers) > 1
    /\ \E a \in {AddressOf(Own), AddressOf(Derived), AddressOf(Kms1)} :
        LET result == SetDefaultSigner(wallet[p], a)
        IN IF result.ok THEN wallet' = [wallet EXCEPT ![p] = result.v] /\ answer' = NoAnswer
           ELSE answer' = Failed /\ UNCHANGED wallet
    /\ UNCHANGED <<loads, file, iter, alias, chain, known, tx>>

-------------------------------------------------------------------------------
(* Permissions, which are read and changed while a transaction is signed.  *)

Executed(perms, granted) == chain' = [perms |-> perms, granted |-> granted, updates |-> chain.updates + 1]

\* An update by the owner, signed and executed.
UpdatePermissions ==
    /\ tx # <<>> /\ chain.updates < MaxUpdates
    /\ \E offer \in Offers :
        LET request == Request(offer)
        IN IF request.ok THEN Executed(request.v, Granted(offer)) /\ answer' = NoAnswer
           ELSE answer' = Failed /\ UNCHANGED chain
    /\ UNCHANGED <<wallet, loads, file, iter, alias, known, tx>>

\* What was read, with one operation more or one less in its first active
\* permission; only a reading without loss is amended.
AmendPermissions ==
    /\ tx # <<>> /\ chain.updates < MaxUpdates
    /\ known # <<>> /\ known[1].whole /\ known[1].perms.actives # <<>>
    /\ LET ps == known[1].perms
           change(set) == UpdateToProto([ps EXCEPT !.actives[1].operations = set])
       IN \/ \E id \in {1, 46} :
                Executed(change(OpInsert(ps.actives[1].operations, id).v),
                         [known[1].granted EXCEPT ![1] = @ \cup {id}])
          \/ \E id \in {-1, 31} :
                /\ OpRemove(ps.actives[1].operations, id) # {}
                /\ Executed(change(OpRemove(ps.actives[1].operations, id)),
                            [known[1].granted EXCEPT ![1] = @ \ {id}])
    /\ answer' = NoAnswer
    /\ UNCHANGED <<wallet, loads, file, iter, alias, known, tx>>

\* How a node may send a permission: trailing zero bytes left out or more of
\* them, a key that is no address, a bit that no operation has.
Forms(w) ==
    LET a == w.actives
        last(bits) == Max({b[1] : b \in bits})
        form(actives, whole) ==
            [w |-> [owner |-> w.owner, witness |-> w.witness, actives |-> actives], whole |-> whole]
    IN {form(a, TRUE),
        form([i \in DOMAIN a |-> [a[i] EXCEPT !.operations.len = last(a[i].operations.bits) + 1]], TRUE),
        form([i \in DOMAIN a |-> [a[i] EXCEPT !.operations.len = 40]], TRUE),
        form([i \in DOMAIN a |-> [a[i] EXCEPT !.keys[1].valid = FALSE]], a = <<>>),
        form([i \in DOMAIN a |-> [a[i] EXCEPT !.operations = [len |-> 33, bits |-> @.bits \cup {<<32, 0>>}]]],
             a = <<>>)}

\* get_account, again when there is something new to read.
GetAccount ==
    /\ tx # <<>> /\ (known # <<>> => known[1].of # chain.perms) /\ answer' = NoAnswer
    /\ \E form \in Forms(chain.perms) :
        known' = <<[perms |-> PermissionsFromProto(form.w), whole |-> form.whole,
                    granted |-> chain.granted, of |-> chain.perms]>>
    /\ UNCHANGED <<wallet, loads, file, iter, alias, chain, tx>>

-------------------------------------------------------------------------------
(* The transaction.                                                        *)

\* build() on an operation of the account; the keys are loaded by then.
BuildTransaction(p) ==
    /\ tx = <<>> /\ loads = MaxLoads
    /\ \E kind \in Kinds, id \in Ids :
        tx' = <<[kind |-> kind, id |-> id, at |-> p, sigs |-> <<>>, by |-> <<>>]>>
    /\ file' = <<>> /\ iter' = <<>> /\ answer' = NoAnswer
    /\ UNCHANGED <<wallet, loads, alias, chain, known>>

\* tx_id, the hash of the raw data: the contract and its permission id.
TxId(t) == TxHash(<<t.kind, t.id>>)
Recovered(t) == [i \in DOMAIN t.sigs |-> Recover(t.sigs[i], TxId(t))]

\* Who is asked to sign: one that is named twice, once.
Once(keys) == IF Len(keys) = 2 /\ keys[1] = keys[2] THEN <<keys[1]>> ELSE keys

\* What a wallet is asked for: two of its keys, its default, or one it may not have.
Asks(w) == {<<a, b>> : a, b \in DOMAIN w.signers} \cup {<<w.default>>, <<w.default, AddressOf(Kms2)>>}
\* How many signatures of the parties are still to come (bound: MaxSigned).
Room(t) == MaxSigned - Cardinality({i \in DOMAIN t.by : t.by[i] # AddressOf(Tools)})

\* sign_hash_with_many over the addresses asked for, or sign_hash with the
\* default.
Sign ==
    /\ tx # <<>>
    /\ LET t == tx[1]
           w == wallet[t.at]
       IN \E keys \in {k \in Asks(w) : Cardinality(Range1(k)) <= Room(t)}, kms \in KmsAnswers(alias, TxId(t)) :
            LET result == SignHashWithMany(w, keys, TxId(t), kms)
            IN IF result.ok
               THEN /\ tx' = <<[t EXCEPT !.sigs = @ \o result.v, !.by = @ \o Once(keys)]>>
                    /\ answer' = NoAnswer
               ELSE answer' = Failed /\ UNCHANGED tx
    /\ UNCHANGED <<wallet, loads, file, iter, alias, chain, known>>

\* encode, and SignedTransaction::decode by the next party: one signature that
\* does not parse fails it.  On the way a tool may have added its own.
HandOver(q) ==
    /\ tx # <<>> /\ tx[1].at # q
    /\ LET t == tx[1]
           tools == Signature(Tools, TxId(t), 1, "low", 1)
           wire == [i \in DOMAIN t.sigs |-> ToBytes(t.sigs[i])]
       IN \E added \in {<<>>, <<ToLegacyBytes(tools)>>, <<ToBytes(tools)>>, <<Bytes(tools, 29, 65)>>,
                        <<Bytes(tools, 1, 64)>>} :
            LET parsed == [i \in DOMAIN (wire \o added) |-> FromBytes((wire \o added)[i])]
            IN /\ added # <<>> => AddressOf(Tools) \notin Range1(t.by)
               /\ IF \A i \in DOMAIN parsed : parsed[i].ok
                  THEN /\ tx' = <<[t EXCEPT !.at = q, !.sigs = [i \in DOMAIN parsed |-> parsed[i].v],
                                            !.by = @ \o [i \in DOMAIN added |-> AddressOf(Tools)]]>>
                       /\ answer' = NoAnswer
                  ELSE answer' = Failed /\ UNCHANGED tx
    /\ UNCHANGED <<wallet, loads, file, iter, alias, chain, known>>

\* Every signature is of a key of the permission, and of another key.
EachOnce(p, addresses) ==
    /\ \A i \in DOMAIN addresses : WeightOf(p, addresses[i]) # <<>>
    /\ \A i, j \in DOMAIN addresses : addresses[i] = addresses[j] => i = j

\* get_transaction_sign_weight, and the same sum from the permissions read
\* before; next to them the weight that the keys on the transaction have.
AskWeight ==
    /\ tx # <<>> /\ known # <<>>
    /\ LET t == tx[1]
           mine == ById(known[1].perms, t.id)
           reply == NodeSignWeight(chain.perms, t.id, Recovered(t))
       IN answer' = [what |-> "weight", node |-> SignWeight(reply), found |-> reply.permission # <<>>,
                     mine |-> IF mine = <<>> THEN 0 ELSE WeightOfAll(mine[1], Recovered(t)),
                     held |-> IF reply.permission = <<>> THEN 0
                              ELSE NodeWeighs(reply.permission[1], Recovered(t)),
                     clean |-> mine # <<>> /\ EachOnce(mine[1], Recovered(t)),
                     current |-> known[1].of = chain.perms, whole |-> known[1].whole]
    /\ UNCHANGED <<wallet, loads, file, iter, alias, chain, known, tx>>

\* allows and is_satisfied_by, then broadcast.
Broadcast ==
    /\ tx # <<>> /\ known # <<>>
    /\ LET t == tx[1]
           mine == ById(known[1].perms, t.id)
       IN answer' = [what |-> "broadcast",
                     forecast |-> /\ Allows(known[1].perms, t.id, t.kind)
                                  /\ mine # <<>> /\ IsSatisfiedBy(mine[1], Recovered(t)),
                     clean |-> mine # <<>> /\ EachOnce(mine[1], Recovered(t)),
                     accepted |-> NodeAccepts(chain.perms, t.id, t.kind, Recovered(t)),
                     current |-> known[1].of = chain.perms, whole |-> known[1].whole]
    /\ tx' = <<>>
    /\ UNCHANGED <<wallet, loads, file, iter, alias, chain, known>>

\* sign_message or sign_typed_data with the default credential, sent in
\* either form of v.
SignMessage(p) ==
    /\ tx # <<>> /\ tx[1].sigs = <<>> /\ known = <<>>
    /\ \E hash \in {HashMessage(<<1>>), HashTypedData(<<1>>)}, legacy \in BOOLEAN :
       \E kms \in KmsAnswers(alias, hash) :
        LET a == wallet[p].default
            result == SignHashWith(wallet[p], a, hash, kms)
        IN answer' = IF result.ok
                     THEN [what |-> "message", by |-> a, hash |-> hash,
                           bytes |-> IF legacy THEN ToLegacyBytes(result.v) ELSE ToBytes(result.v)]
                     ELSE Failed
    /\ UNCHANGED <<wallet, loads, file, iter, alias, chain, known, tx>>

Next ==
    \/ \E p \in Parties : \/ SaveKeystore(p) \/ LoadKeystore(p) \/ NextSigner(p) \/ LoadKms(p)
                          \/ SetDefault(p) \/ BuildTransaction(p) \/ HandOver(p) \/ SignMessage(p)
    \/ Damage \/ NewIter \/ Repoint
    \/ UpdatePermissions \/ AmendPermissions \/ GetAccount
    \/ Sign \/ AskWeight \/ Broadcast

Spec == Init /\ [][Next]_vars

-------------------------------------------------------------------------------
(* Properties.                                                             *)

\* Every signature on a transaction, whoever made it, in whichever form of v
\* it travelled and whatever became of the KMS alias, recovers over the
\* transaction's id to the address that was asked to sign, once for each; and
\* a signed message verifies for its signer and its text and for nothing else
\* (sign_hash_with_many, sig_from_digest_bytes_trial_recovery, decode).
SignedByWhomAsked ==
    /\ \A i \in DOMAIN tx : Recovered(tx[i]) = tx[i].by /\ \A n \in DOMAIN tx[i].sigs : tx[i].sigs[n].s = "low"
    /\ answer.what = "message" =>
            LET sig == FromBytes(answer.bytes)
            IN /\ sig.ok /\ Recover(sig.v, answer.hash) = answer.by
               /\ VerifyMessage(<<1>>, sig.v, answer.by) <=> answer.hash = HashMessage(<<1>>)
               /\ ~VerifyMessage(<<2>>, sig.v, answer.by)
               /\ Recover(sig.v, TxHash(<<1>>)) # answer.by

\* A keystore gives the key that was put into it, or an error: not for another
\* password, not from a file cut short by a crash, not from a file with a
\* damaged field.  Only the iv is not covered by the code (decrypt).
KeystoreGivesItsKey ==
    answer.what = "keystore" =>
        LET f == answer.file
        IN /\ answer.result.ok => /\ answer.password = "right"
                                  /\ answer.result.v = f.key \/ f.iv = "other"
           /\ answer.password = "right" /\ f = Encrypt(f.key, "right", f.kdf) => answer.result.ok

\* A path with another last index; one without components gets its first.
AtIndex(path, index) == IF path = <<>> THEN <<index>> ELSE [path EXCEPT ![Len(path)] = index]
StartOf(path) == IF path = <<>> THEN 0 ELSE path[Len(path)]
\* Whatever next() yields is what build() gives for the configured path with
\* its last index counted on (for a path without components, counted from 0),
\* it yields something as long as there is an index to go on to, and without
\* a phrase there is one error and then nothing (into_iter, next).
IterationAgreesWithBuild ==
    answer.what = "iterated" =>
        LET path == answer.iter.path
            index == StartOf(path) + answer.iter.taken
        IN IF answer.iter.phrase
           THEN /\ answer.item # <<>> => answer.item = <<Build(TRUE, AtIndex(path, index))>>
                /\ index < MaxIndex => answer.item # <<>>
           ELSE answer.item = IF answer.iter.taken = 0 THEN <<Build(FALSE, path)>> ELSE <<>>

\* The documentation of MnemonicSignerIter: an infinite iterator.  At the last
\* child index, for which build() gives a key, the code yields nothing.
IterationIsInfinite == answer.what = "iterated" /\ answer.iter.phrase => answer.item # <<>>

\* The permissions an account was given, through the bitmap, the wire and the
\* node's own spelling of it, allow each operation that was listed and no
\* other, the owner's all and the witness's none; where a reading lost
\* something, it allows less and never more
\* (OperationSet, permission_to_proto, permission_from_proto, allows).
AllowsAsGranted ==
    known # <<>> =>
        \A kind \in {-1, 0, 1, 6, 31, 46, 255, 256} :
            /\ Allows(known[1].perms, 0, kind) /\ ~Allows(known[1].perms, 1, kind)
            /\ \A i \in DOMAIN known[1].granted :
                LET allowed == Allows(known[1].perms, i + 1, kind)
                IN /\ allowed => kind \in known[1].granted[i]
                   /\ known[1].whole => allowed = (kind \in known[1].granted[i])

\* What the permissions say before a broadcast is what the node does with it,
\* as long as they are the account's.  The weight is that of the keys on the
\* transaction, each once, or less when a key was lost in reading, and the
\* node's when every signature is of another key of the permission.  A
\* transaction so signed that is called sufficient and allowed is taken; and
\* when nothing was lost, no other is.  That each signature is of another key
\* is for the caller to see: weight_of_all passes over the others, the node
\* refuses them (weight_of_all, is_satisfied_by, allows, SignWeight).
ForecastHolds ==
    /\ answer.what = "weight" /\ answer.current /\ answer.found =>
            /\ answer.mine <= answer.held
            /\ answer.whole => answer.mine = answer.held
            /\ answer.clean => answer.node.current = answer.held
    /\ answer.what = "broadcast" /\ answer.current =>
            /\ answer.forecast /\ answer.clean => answer.accepted
            /\ answer.whole => (answer.accepted <=> answer.forecast /\ answer.clean)
=============================================================================
