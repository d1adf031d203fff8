------------------------------ MODULE Operations ------------------------------
(***************************************************************************)
(* One operation from its builder to the transaction a node built of it.   *)
(* A caller sets fields in any order; into_request resolves the owner and  *)
(* refuses what is incomplete; build_via_transport picks the method, which *)
(* makes the protobuf message and calls the node; the node's answer is     *)
(* compared with the message, takes the request's own fields, and can be   *)
(* read back with RawTransaction::details.  TransactionAssembly has what   *)
(* follows, and all a node may answer; here a node does as it is told or   *)
(* builds another kind of contract.                                        *)
(*                                                                         *)
(* Protobuf does not send a scalar that has its default value, which is 0  *)
(* here, and the receiver puts it back; what a field can be is as much as  *)
(* tells that apart.  A permission is 1 when it lists operations.          *)
(***************************************************************************)
EXTENDS OperationBuilders, ContractKinds, WireMessages, FiniteSets, SequencesExt

CONSTANTS
    Signer,       \* address of the provider's signer
    Other,        \* an address the caller names with `from`
    Now,          \* the clock, in minutes
    MaxOptional,  \* bound on the optional fields a caller changes
    MaxList       \* bound on the length of a list

AddressAssumption == {Signer, Other} \subseteq Nat \ {0, 1} /\ Signer # Other
BoundAssumption == Now \in Nat /\ MaxOptional \in Nat /\ MaxList \in Nat

VARIABLES
    pc,       \* idle, building, requested, asked, answered, accepted, read; failed, rejected
    signer,   \* TronProvider::signer_address: None or <<Signer>>
    op,       \* the builder
    held,     \* its fields
    owner,    \* the resolved owner
    sent,     \* the message on the wire, in the order of its tags
    built,    \* the contract the node answers with: type and parameter, and
              \* whether the node did as it was told
    applied,  \* the request's fields as the raw transaction has them
    details,  \* what RawTransaction::details reads
    error     \* why into_request failed

vars == <<pc, signer, op, held, owner, sent, built, applied, details, error>>

Nothing == [nothing |-> TRUE]

\* The fields of the operation's message.
WireFields == Message[op.contract]

Pushed == {"votes", "frozen_supply"}
Permissions == {"owner_permission", "witness"}
\* Lists and messages are sent as they are; a scalar is not when it is 0.
Scalar(f) == f \notin Pushed \cup Permissions \cup {"actives", "parameters", "abi"}

Required(b) == Range(b.required)
Changed(b, h) == {f \in DOMAIN b.optional : h[f] # b.optional[f]}
                 \cup {f \in b.request \cup {"owner"} : h[f] # None}

Init ==
    /\ pc = "idle"
    /\ signer \in {None, <<Signer>>}
    /\ op = Nothing /\ held = Nothing /\ owner = None /\ sent = <<>> /\ built = Nothing
    /\ applied = Nothing /\ details = Nothing /\ error = "none"

-------------------------------------------------------------------------------
(* The builder.                                                            *)

\* A provider's factory method, and the builder's `new`.
Start(b) ==
    /\ pc = "idle"
    /\ op' = b
    /\ held' = b.optional @@ [f \in Required(b) \cup b.request \cup {"owner"} |-> None]
    /\ pc' = "building"
    /\ UNCHANGED <<signer, owner, sent, built, applied, details, error>>

\* What a setter can be given.  `parameters` is a map of the proposal's ids,
\* here 1..n, to their values; adding its entries one at a time ends in the
\* same maps.
Values(f) ==
    CASE f \in Pushed \cup {"address", "data", "bytecode"} -> {}
      [] f = "owner" -> {<<Other>>}
      [] f \in {"to", "receiver", "account_address", "contract_address"} -> {<<1>>}
      [] f \in {"exchange_rate", "token"} -> {<<1, 2>>}
      [] f \in {"actives", "parameters"} -> SeqOf({0, 1}, MaxList)
      [] f = "abi" -> {<<0>>, <<1>>, <<2>>}
      [] OTHER -> {<<0>>, <<1>>}

Holding(h) ==
    /\ Cardinality(Changed(op, h)) <= MaxOptional
    /\ held' = h
    /\ UNCHANGED <<pc, signer, op, owner, sent, built, applied, details, error>>

\* A setter replaces what was there.
Set(f, v) == pc = "building" /\ Holding([held EXCEPT ![f] = v])

\* vote and freeze add to a list.
Push(f, v) ==
    /\ pc = "building" /\ f \in Pushed /\ Len(held[f]) < MaxList
    /\ Holding([held EXCEPT ![f] = Append(@, v)])

\* resolve_owner
ResolveOwner == IF held.owner # None THEN held.owner ELSE signer

\* Mutated form: an owner or witness permission may list operations.
CheckOperationsActivesOnly(h) ==
    op.contract = "AccountPermissionUpdate" => \A i \in 1..Len(h.actives) : h.actives[i] = 1

\* check_operations: owner and witness authorize by role, actives by their list.
CheckOperations(h) ==
    op.contract = "AccountPermissionUpdate" =>
        /\ \A f \in Permissions : h[f] # <<1>>
        /\ \A i \in 1..Len(h.actives) : h.actives[i] = 1

\* The deployment's Alloy ABI converts to TRON's.
AbiConverts(h) == op.contract = "CreateSmartContract" => h.abi # <<2>>

Missing == {i \in 1..Len(op.required) : held[op.required[i]] = None}
Complete == Missing = {}

IntoRequest ==
    /\ pc = "building"
    /\ ResolveOwner # None /\ Complete /\ CheckOperations(held) /\ AbiConverts(held)
    /\ owner' = ResolveOwner
    /\ pc' = "requested"
    /\ UNCHANGED <<signer, op, held, sent, built, applied, details, error>>

RequestFails(why) ==
    /\ error' = why
    /\ pc' = "failed"
    /\ UNCHANGED <<signer, op, held, owner, sent, built, applied, details>>

\* Error::no_signer; then missing_field, of the first one that is.
NoSigner == pc = "building" /\ ResolveOwner = None /\ RequestFails("no_signer")
MissingField ==
    /\ pc = "building" /\ ResolveOwner # None /\ ~Complete
    /\ RequestFails(op.required[Min(Missing)])

\* local_usage_str, or the conversion's error.
Unusable ==
    /\ pc = "building" /\ ResolveOwner # None /\ Complete
    /\ ~(CheckOperations(held) /\ AbiConverts(held))
    /\ RequestFails("usage")

-------------------------------------------------------------------------------
(* The message.                                                            *)

\* The message fields no setter names.
Derived(f, h) ==
    CASE f \in {"owner", "origin_address"} -> owner
      [] f = "lock" -> IF h.lock_period = None THEN <<0>> ELSE <<1>>
      [] f = "trx_num" -> <<h.exchange_rate[1]>>
      [] f = "num" -> <<h.exchange_rate[2]>>
      [] f = "start_time" -> <<Now + h.start_offset[1]>>
      [] f = "end_time" -> <<Now + h.start_offset[1] + h.duration[1]>>
      [] f = "call_token_value" -> <<h.token[2]>>
      [] f = "token_id" -> <<h.token[1]>>
      [] OTHER -> <<0>>

\* The codec's to_proto functions: permission_to_proto drops the operations of
\* an owner or witness, and an absent scalar becomes its default.
ToProto(f, h) ==
    CASE f = "owner" \/ f \notin DOMAIN h -> Derived(f, h)
      [] f \in Permissions -> [i \in DOMAIN h[f] |-> 0]
      [] Scalar(f) /\ h[f] = None -> <<0>>
      [] OTHER -> h[f]

Encode(f, v) == IF Scalar(f) /\ v = <<0>> THEN <<>> ELSE v
Decode(f, w) == IF Scalar(f) /\ w = <<>> THEN <<0>> ELSE w
Decoded(message) == [i \in DOMAIN message |-> Decode(WireFields[i], message[i])]

TransportMethod == GrpcMethods[Dispatch[op.contract]]

\* build_via_transport calls the method, and the method the node.
Ask ==
    /\ pc = "requested"
    /\ sent' = [i \in DOMAIN WireFields |-> Encode(WireFields[i], ToProto(WireFields[i], held))]
    /\ pc' = "asked"
    /\ UNCHANGED <<signer, op, held, owner, built, applied, details, error>>

\* The node decodes the message and builds the contract of the procedure.
NodeAnswers(kind, faithful) ==
    /\ built' = [type |-> KindId[kind], faithful |-> faithful,
                 parameter |-> [i \in DOMAIN sent |->
                                Encode(WireFields[i], Decode(WireFields[i], sent[i]))]]
    /\ pc' = "answered"
    /\ UNCHANGED <<signer, op, held, owner, sent, applied, details, error>>

NodeBuilds == pc = "asked" /\ NodeAnswers(ProcedureBuilds[TransportMethod.rpc], TRUE)
NodeBuildsOther ==
    /\ pc = "asked"
    /\ \E kind \in {"UpdateAccount", "WithdrawBalance"} \ {op.contract} :
          NodeAnswers(kind, FALSE)

\* raw_from_extention; set_account_id goes without.
Compares ==
    TransportMethod.compares # "nothing" =>
        /\ built.type = KindId[TransportMethod.compares]
        /\ Decoded(built.parameter) = Decoded(sent)

\* apply_request_fields: what the request has, else what the node put.
ApplyRequestFields ==
    [f \in {"memo", "fee_limit", "permission_id"} |->
        IF f \in op.request /\ held[f] # None THEN held[f] ELSE <<0>>]

Accept ==
    /\ pc = "answered" /\ Compares
    /\ applied' = ApplyRequestFields
    /\ pc' = "accepted"
    /\ UNCHANGED <<signer, op, held, owner, sent, built, details, error>>

Reject ==
    /\ pc = "answered" /\ ~Compares
    /\ pc' = "rejected"
    /\ UNCHANGED <<signer, op, held, owner, sent, built, applied, details, error>>

\* contract_details: the owner is read at the tag its kind has it.
ContractDetails(c) ==
    LET kind == FromId(c.type)
    IN  [kind |-> kind, owner |-> IF OwnerField(kind) = 0 THEN None
                                  ELSE c.parameter[OwnerField(kind)]]

ReadDetails ==
    /\ pc = "accepted"
    /\ details' = [contract |-> ContractDetails(built), memo |-> applied.memo,
                   fee_limit |-> applied.fee_limit]
    /\ pc' = "read"
    /\ UNCHANGED <<signer, op, held, owner, sent, built, applied, error>>

Done == pc \in {"read", "failed", "rejected"} /\ UNCHANGED vars

Next ==
    \/ \E b \in Builders : Start(b)
    \/ pc = "building" /\ \E f \in DOMAIN held : \E v \in Values(f) : Set(f, v)
    \/ pc = "building" /\ \E f \in DOMAIN held \cap Pushed, v \in {0, 1} : Push(f, v)
    \/ IntoRequest \/ NoSigner \/ MissingField \/ Unusable
    \/ Ask \/ NodeBuilds \/ NodeBuildsOther
    \/ Accept \/ Reject \/ ReadDetails \/ Done

Spec == Init /\ [][Next]_vars

-------------------------------------------------------------------------------
Asked == {"asked", "answered", "accepted", "read", "rejected"}

\* What the node reads in field f of the message.
Reads(f) == LET i == CHOOSE i \in DOMAIN WireFields : WireFields[i] = f IN Decode(f, sent[i])

(***************************************************************************)
(* Whatever was set, in whatever order, the node reads exactly that: each  *)
(* field a caller set or `new` preset as it is, nothing in the others, no  *)
(* required one without a value, a lock when a lock period was given, even *)
(* one of 0, and the caller's own address or the signer's as the owner     *)
(* (into_request and the to_proto functions).                              *)
(***************************************************************************)
NodeReadsWhatWasSet ==
    pc \in Asked =>
        /\ \A f \in (Range(WireFields) \cap DOMAIN held) \ {"owner"} :
              IF held[f] # None THEN Reads(f) = held[f]
              ELSE f \notin Required(op) /\ Reads(f) \in {None, <<0>>}
        /\ Reads("owner") = IF held.owner # None THEN held.owner ELSE <<Signer>>
        /\ op.contract = "DelegateResource" =>
              (Reads("lock") = <<1>> <=> held.lock_period # None)
        /\ op.contract = "AssetIssue" =>
              /\ Reads("trx_num") \o Reads("num") = held.exchange_rate
              /\ Reads("end_time")[1] - Reads("start_time")[1] = held.duration[1]

(***************************************************************************)
(* A node that does as it is told is never taken for one that does not:    *)
(* the ContractType, the method it is dispatched to, the procedure that    *)
(* method calls and the kind it compares with agree for every operation.   *)
(***************************************************************************)
HonestNodeAccepted == pc = "rejected" => ~built.faithful

(***************************************************************************)
(* What is read off the transaction before it is signed is what was asked  *)
(* for: the kind, the owner, the memo and the fee limit, for every         *)
(* operation whose answer is compared, and for the one that is not when    *)
(* the node did as it was told (RawTransaction::details).                  *)
(***************************************************************************)
ReadsBackAsAsked ==
    pc = "read" /\ (built.faithful \/ op.contract # "SetAccountId") =>
        /\ details.contract = [kind |-> op.contract, owner |-> owner]
        /\ \A f \in {"memo", "fee_limit"} :
              details[f] = IF f \in op.request /\ held[f] # None THEN held[f] ELSE <<0>>
===============================================================================
