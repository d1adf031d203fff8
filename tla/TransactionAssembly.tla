------------------------- MODULE TransactionAssembly -------------------------
(***************************************************************************)
(* How one request becomes signed bytes.  The node builds the transaction  *)
(* (transport/grpc/fullnode.rs, raw_from_extention_with), so its answer is *)
(* compared with what was asked; the id is derived from the bytes, never   *)
(* taken from the node (RawTransaction::from_encoded); the request's own   *)
(* fields are written over the node's and the id is derived again          *)
(* (apply_request_fields); keys sign the id one after the other, one for   *)
(* send_transaction and several for a multisig; the bytes and the          *)
(* signatures go out together (to_proto).                                  *)
(*                                                                         *)
(* The digest is injective: the id of raw_data is raw_data itself.  A      *)
(* contract's parameter is what the caller decides (`body`, the owner      *)
(* included), what a node may fill in when it deploys (`derived`), and     *)
(* fields this build does not know (`unknown`): the parameter is kept as   *)
(* bytes, and is compared by what decodes of it.                           *)
(* One endpoint, SetAccountId, exists only in the older form that answers  *)
(* a bare Transaction: raw_from_plain reads it without a comparison.       *)
(***************************************************************************)
EXTENDS Naturals, Sequences

CONSTANTS
    Kinds,      \* contract kinds; "deploy" lets the node derive fields
    Plain,      \* the kinds whose endpoint answers a bare Transaction
    Bodies,     \* what a caller can ask for
    Broken,     \* parameters that are absent or do not decode
    Fields,     \* optional request fields that override the node's
    Addresses,
    Zero,       \* Address::ZERO
    Held,       \* credentials of the wallet, by address
    DefaultKey, \* TronWallet::default
    KeyLists    \* the keys a multisig caller asks to sign, in order

Expiration == "expiration"
PermissionId == "permission_id"

ASSUME FieldsAssumption == Expiration \in Fields
ASSUME PlainAssumption == Plain \subseteq Kinds
ASSUME BodiesAssumption == Bodies \cap Broken = {}
ASSUME WalletAssumption ==
    /\ Zero \in Addresses /\ DefaultKey \in Addresses
    /\ Held \subseteq Addresses \ {Zero}
ASSUME KeysAssumption == KeyLists \subseteq Seq(Addresses)

VARIABLES
    pc,      \* idle, asked, answered, extracted, built, signing, sent, failed
    req,     \* the TransactionRequest
    answer,  \* the node's TransactionExtention
    raw,     \* the RawTransaction
    mode,    \* who signs: a strict or a lenient WalletFiller, or many keys
    todo,    \* keys that have not signed yet
    sigs,    \* the signatures collected: key and hash
    wire     \* the proto::Transaction that was broadcast

vars == <<pc, req, answer, raw, mode, todo, sigs, wire>>

Requests == [kind : Kinds, body : Bodies, owner : Addresses,
             fields : [Fields -> {"unset", "caller"}]]
Contracts == [kind : Kinds, body : Bodies \cup Broken, derived : {"no", "yes"},
              unknown : BOOLEAN]
ContractLists == {<<>>} \cup {<<c>> : c \in Contracts} \cup {<<c, c>> : c \in Contracts}

(***************************************************************************)
(* A TransactionExtention as prost decodes it: `result` of its Return,     *)
(* whether a transaction and its raw_data are there, the contracts in it,  *)
(* signatures it already carries, and how the txid it states relates to    *)
(* the digest of raw_data as this build encodes it.  What an answer that   *)
(* is refused for the first three holds besides is left out.               *)
(***************************************************************************)
Answers ==
    {a \in [result : BOOLEAN, present : BOOLEAN, raw_data : BOOLEAN,
            contracts : ContractLists, signature : {"none", "good", "bad"},
            claim : {"none", "right", "wrong"}] :
        ~(a.result /\ a.present /\ a.raw_data) =>
            a.contracts = <<>> /\ a.signature = "none" /\ a.claim = "none"}
RawData == [contracts : ContractLists, fields : [Fields -> {"node", "caller"}]]
Nothing == [nothing |-> TRUE]

Init ==
    /\ pc = "idle"
    /\ req = Nothing /\ answer = Nothing /\ raw = Nothing
    /\ mode = "none" /\ todo = <<>> /\ sigs = <<>> /\ wire = Nothing

Fail == pc' = "failed" /\ UNCHANGED <<req, answer, raw, mode, todo, sigs, wire>>

-------------------------------------------------------------------------------
(* The answer, and what is checked of it.                                  *)

\* send_transaction: a request that names no owner is refused at once.
Ask(r) ==
    /\ pc = "idle"
    /\ req' = r
    /\ pc' = IF r.owner = Zero THEN "failed" ELSE "asked"
    /\ UNCHANGED <<answer, raw, mode, todo, sigs, wire>>

\* A bare Transaction carries no Return and claims no txid.
Bare(a) == a.result /\ a.present /\ a.claim = "none"

NodeAnswers(a) ==
    /\ pc = "asked"
    /\ req.kind \in Plain => Bare(a)
    /\ answer' = a
    /\ pc' = "answered"
    /\ UNCHANGED <<req, raw, mode, todo, sigs, wire>>

\* allow_derived: create_smart_contract clears what the node derives.
AllowDerived(c) == IF c.kind = "deploy" THEN [c EXCEPT !.derived = "no"] ELSE c
Sent(r) == [kind |-> r.kind, body |-> r.body, derived |-> "no", unknown |-> FALSE]

\* M::decode of the parameter's bytes drops the fields it does not know.
AsRead(c) == [c EXCEPT !.unknown = FALSE]

\* Mutated form: the first contract is compared, the others are not counted.
SameFirstContract(cs, r) == Len(cs) >= 1 /\ AllowDerived(AsRead(cs[1])) = Sent(r)

\* Exactly one contract, of the kind asked, whose parameter reads as the one sent.
SameContract(cs, r) == Len(cs) = 1 /\ AllowDerived(AsRead(cs[1])) = Sent(r)

\* check_return, the presence tests, and raw_from_extention_with's comparison;
\* raw_from_plain compares nothing.
AsAsked(a, r) ==
    /\ a.result /\ a.present /\ a.raw_data
    /\ r.kind \in Plain \/ SameContract(a.contracts, r)

\* from_encoded, of the transaction as this build has encoded it again, so that
\* its raw_data is there once and re-encodes to itself: the signatures it carries
\* are well-formed, and its digest is the id the node claims, if it claims one.
Decodable(a) == a.signature # "bad" /\ a.claim # "wrong"

RawDataOf(a) == [contracts |-> a.contracts, fields |-> [f \in Fields |-> "node"]]
Digest(data) == data

\* RawTransaction: `attached` are signatures inside its bytes.
RawTransaction(data, attached) ==
    [data |-> data, id |-> Digest(data), expiration |-> data.fields[Expiration],
     attached |-> attached]

\* from_encoded drains them.
FromEncoded(a) == RawTransaction(RawDataOf(a), <<>>)

Extract ==
    /\ pc = "answered"
    /\ AsAsked(answer, req) /\ Decodable(answer)
    /\ raw' = FromEncoded(answer)
    /\ pc' = "extracted"
    /\ UNCHANGED <<req, answer, mode, todo, sigs, wire>>

\* NodeError, or Malformed.
Reject ==
    /\ pc = "answered"
    /\ ~(AsAsked(answer, req) /\ Decodable(answer))
    /\ Fail

-------------------------------------------------------------------------------
(* build_via_transport's last step.                                        *)

\* The caller's value where there is one, the node's where there is none.
Override(data, r) ==
    [data EXCEPT !.fields =
        [f \in Fields |-> IF r.fields[f] = "unset" THEN data.fields[f] ELSE r.fields[f]]]

\* Mutated form: the bytes change and the id does not.
ApplyStaleId(x, r) ==
    [x EXCEPT !.data = Override(x.data, r),
              !.expiration = Override(x.data, r).fields[Expiration]]

\* apply_request_fields; a request that sets nothing leaves it alone.
Apply(x, r) ==
    IF \A f \in Fields : r.fields[f] = "unset" THEN x
    ELSE RawTransaction(Override(x.data, r), x.attached)

\* The permission id goes into the first contract: Malformed when there is none.
Applicable(x, r) ==
    PermissionId \in Fields /\ r.fields[PermissionId] = "caller" => x.data.contracts # <<>>

Inapplicable == pc = "extracted" /\ ~Applicable(raw, req) /\ Fail

ApplyRequestFields ==
    /\ pc = "extracted" /\ Applicable(raw, req)
    /\ raw' = Apply(raw, req)
    /\ pc' = "built"
    /\ UNCHANGED <<req, answer, mode, todo, sigs, wire>>

-------------------------------------------------------------------------------
(* Signing.                                                                *)

\* Mutated form: the fallback also in strict mode.
SigningKeyLenient(owner, strict) == IF owner \in Held THEN owner ELSE DefaultKey

\* WalletFiller::sign_with
SigningKey(owner, strict) == IF strict \/ owner \in Held THEN owner ELSE DefaultKey

Start(how, keys) ==
    /\ pc = "built"
    /\ mode' = how
    /\ todo' = keys
    /\ pc' = "signing"
    /\ UNCHANGED <<req, answer, raw, sigs, wire>>

\* send_transaction signs with one key.
StartStrict == Start("strict", <<SigningKey(req.owner, TRUE)>>)
StartLenient == Start("lenient", <<SigningKey(req.owner, FALSE)>>)

\* A multisig caller takes the built transaction to sign_hash_with_many.
StartMany(keys) == Start("many", keys)

HasSigned(key) == \E i \in 1..Len(sigs) : sigs[i].key = key

\* A key that signed already is skipped.
SkipKey ==
    /\ pc = "signing" /\ todo # <<>> /\ HasSigned(Head(todo))
    /\ todo' = Tail(todo)
    /\ UNCHANGED <<pc, req, answer, raw, mode, sigs, wire>>

\* sign_hash_with(key, tx_id)
SignNext ==
    /\ pc = "signing" /\ todo # <<>> /\ ~HasSigned(Head(todo))
    /\ Head(todo) \in Held
    /\ sigs' = Append(sigs, [key |-> Head(todo), hash |-> raw.id])
    /\ todo' = Tail(todo)
    /\ UNCHANGED <<pc, req, answer, raw, mode, wire>>

\* "missing signing credential", or the signer's own failure: all are lost.
SignFails ==
    /\ pc = "signing" /\ todo # <<>> /\ ~HasSigned(Head(todo))
    /\ Fail

\* to_proto appends the signatures to the bytes, and broadcast sends them.
Broadcast ==
    /\ pc = "signing" /\ todo = <<>>
    /\ wire' = [data |-> raw.data, signatures |-> raw.attached \o sigs]
    /\ pc' = "sent"
    /\ UNCHANGED <<req, answer, raw, mode, todo, sigs>>

Done == pc \in {"sent", "failed"} /\ UNCHANGED vars

Next ==
    \/ \E r \in Requests : Ask(r)
    \/ \E a \in Answers : NodeAnswers(a)
    \/ Extract \/ Reject \/ ApplyRequestFields \/ Inapplicable
    \/ StartStrict \/ StartLenient \/ \E keys \in KeyLists : StartMany(keys)
    \/ SkipKey \/ SignNext \/ SignFails \/ Broadcast \/ Done

Spec == Init /\ [][Next]_vars

-------------------------------------------------------------------------------
RawTransactions == [data : RawData, id : RawData, expiration : {"node", "caller"},
                    attached : {<<>>}]

TypeOK ==
    /\ pc \in {"idle", "asked", "answered", "extracted", "built", "signing", "sent", "failed"}
    /\ req \in Requests \cup {Nothing}
    /\ answer \in Answers \cup {Nothing}
    /\ raw \in RawTransactions \cup {Nothing}
    /\ mode \in {"none", "strict", "lenient", "many"}
    /\ todo \in Seq(Addresses)
    /\ sigs \in Seq([key : Held, hash : RawData])

(***************************************************************************)
(* "The signature covers the updated payload": every signature that goes   *)
(* out was made over the digest of the very bytes it goes out with, by a   *)
(* key of this wallet, and no other signature goes with them.              *)
(***************************************************************************)
SignaturesCoverWire ==
    pc = "sent" => \A i \in 1..Len(wire.signatures) :
        /\ wire.signatures[i].hash = Digest(wire.data)
        /\ wire.signatures[i].key \in Held

\* The contracts are the one that was asked for.
OnlyTheRequest(cs) == Len(cs) = 1 /\ AllowDerived(AsRead(cs[1])) = Sent(req)

(***************************************************************************)
(* Every endpoint that answers a TransactionExtention: what goes out holds *)
(* one contract, and all this build can read of it is what was asked for,  *)
(* whatever the node answered (fields it does not know stay in the         *)
(* parameter's bytes); and for every endpoint each field the caller set is *)
(* the caller's.                                                           *)
(***************************************************************************)
WireIsRequested ==
    pc = "sent" =>
        /\ req.kind \notin Plain => OnlyTheRequest(wire.data.contracts)
        /\ \A f \in Fields : req.fields[f] = "caller" => wire.data.fields[f] = "caller"

(***************************************************************************)
(* The expiration a caller reads off the RawTransaction, which is when a   *)
(* lost broadcast may be replaced, is the one that was signed.             *)
(***************************************************************************)
ExpirationIsSigned ==
    raw # Nothing => raw.expiration = raw.data.fields[Expiration]

(***************************************************************************)
(* Each key signs at most once, however often a multisig caller names it.  *)
(***************************************************************************)
SignersAreDistinct ==
    \A i, j \in 1..Len(sigs) : sigs[i].key = sigs[j].key => i = j

(***************************************************************************)
(* A strict wallet never substitutes another key: whatever send_transaction *)
(* signs with is the owner's own (WalletFiller::strict).                   *)
(***************************************************************************)
StrictSignsAsOwner ==
    mode = "strict" => \A i \in 1..Len(sigs) : sigs[i].key = req.owner
===============================================================================
