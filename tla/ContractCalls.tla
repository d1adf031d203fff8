---------------------------- MODULE ContractCalls ----------------------------
(***************************************************************************)
(* Contracts from the client's side (the contract crate): a contract is    *)
(* deployed with its ABI, the ABI is read back from the chain by another   *)
(* client, and calls are built, simulated, sent and read in all the ways   *)
(* the crate offers.  The node executes what is in the calldata, whatever  *)
(* the client meant by it.                                                 *)
(*                                                                         *)
(* External: the contracts (OnChain), the node's execution and replies,    *)
(* alloy's decoding of words (Decoded, DecodeRawLog, DecodeLogParts).      *)
(***************************************************************************)
EXTENDS OnChain

\* The clients whose provider has a wallet are named by their addresses, Signers.
CONSTANTS
    Watcher,        \* a client without a wallet (or over a solidity node)
    Kinds,          \* which contracts: subset of {"trc20", "trc721", "vault"}
    Valued,         \* bound: the kinds whose callers attach TRX
    MaxSends        \* bound: calls that are broadcast, here and elsewhere

ASSUME ContractAssumption ==
    /\ Watcher \notin Signers /\ Zero \notin Signers \cup {Watcher}
    /\ Kinds \subseteq {"trc20", "trc721", "vault"}
    /\ Valued \subseteq Kinds /\ MaxSends \in Nat

Clients == Signers \cup {Watcher}

VARIABLES
    kind,       \* the contract this application is about
    there,      \* <<>>, or <<the contract on the chain>>: its ABI, creator, ledger
    deploying,  \* <<>>, or <<a deploy() that waits>>
    loaded,     \* was an Interface made of the ABI on the chain?
    builder,    \* <<>>, or <<the CallBuilder at hand>>
    pool,       \* transactions the node took
    receipt,    \* <<>>, or <<the last receipt>>
    answer,     \* what the last operation returned
    meant,      \* history: the ledger, had every sent call done what was asked
    sends       \* how many calls were broadcast

vars == <<kind, there, deploying, loaded, builder, pool, receipt, answer, meant, sends>>

-------------------------------------------------------------------------------
(* Encoding: the five ways to make a CallBuilder.  Each gives the calldata *)
(* and the types its result is decoded with.                               *)

Encoding(f, args, strict) ==
    [data |-> [selector |-> Signature(f), args |-> args], returns |-> Types(f.outputs), strict |-> strict]
Fields(names, p) == [i \in DOMAIN names |-> p[names[i]]]

TypedMethods == [trc20 |-> Trc20Reads @@ Trc20Writes, trc721 |-> Trc721Reads @@ Trc721Writes]
Encoders == [trc20 |-> Trc20Encoders, trc721 |-> Trc721Encoders]
Decoders == [trc20 |-> Trc20Decoders, trc721 |-> Trc721Decoders]

\* Trc20Instance and Trc721Instance: typed_call over call_raw.
TypedCall(k, m, p) ==
    LET call == TypedMethods[k][m]
    IN Ok(Encoding(CallType(Functions[k], call.type), Fields(call.fields, p), TRUE))

\* encode_... with call_raw, and the decode_..._return of the result's type.
RawEncoding(fs, f, args, decoders) ==
    [Encoding(f, args, FALSE) EXCEPT
        !.returns = IF f.outputs # <<>> /\ f.outputs[1].ty[1] \in DOMAIN decoders
                    THEN Types(CallType(fs, decoders[f.outputs[1].ty[1]]).outputs) ELSE <<>>]
RawCall(k, m, p) ==
    LET call == Encoders[k][m]
    IN Ok(RawEncoding(Functions[k], CallType(Functions[k], call.type), Fields(call.fields, p), Decoders[k]))

\* function and function_from_selector: arguments are checked against the inputs.
EncodeInput(found, args) ==
    CASE ~found.ok -> found
      [] Len(args) # Len(found.v.inputs) -> Err("Abi")
      [] OTHER -> Ok(Encoding(found.v, args, FALSE))
FunctionCall(ifc, k, m, p) ==
    EncodeInput(GetByName(ifc, SelectorOf(k, m)[1]), Fields(ParamsOf(k, m), p))
FunctionFromSelector(ifc, k, m, p) ==
    EncodeInput(GetBySelector(ifc, SelectorOf(k, m)), Fields(ParamsOf(k, m), p))

\* The method that tron_sol! generated for the function.
FillFields(type, fields, given) ==
    Encoding(type, [n \in DOMAIN type.inputs |->
                      given[CHOOSE j \in DOMAIN fields : fields[j] = FieldOf(type, n)]], TRUE)
MethodFor(fs, selector) == Generated(fs)[CHOOSE i \in DOMAIN fs : Signature(fs[i]) = selector]
GeneratedCall(k, m, p) ==
    LET gen == MethodFor(Functions[k], SelectorOf(k, m))
    IN Ok(FillFields(CallType(Functions[k], gen.type), gen.fields, Fields(ParamsOf(k, m), p)))

\* What is made of a method and its arguments, in every way there is for it;
\* the dynamic ones need an Interface.
Encodings(k, ifc, m, p) ==
    (IF k \in DOMAIN TypedMethods THEN {TypedCall(k, m, p)} ELSE {})
    \cup (IF k \in DOMAIN Encoders /\ m \in DOMAIN Encoders[k] THEN {RawCall(k, m, p)} ELSE {})
    \cup (IF ifc.ok THEN {FunctionCall(ifc.v, k, m, p), FunctionFromSelector(ifc.v, k, m, p)} ELSE {})
    \cup (IF Compiles(Functions[k]) THEN {GeneratedCall(k, m, p)} ELSE {})

-------------------------------------------------------------------------------
(* CallBuilder.                                                            *)

\* new, with the instance's caller when it has one (call_raw).
CallRaw(c, instanceCaller, encoding, m, p) ==
    [client |-> c, caller |-> instanceCaller, value |-> 0, data |-> encoding.data,
     returns |-> encoding.returns, strict |-> encoding.strict,
     m |-> m, p |-> p, asked |-> instanceCaller, estimate |-> "none"]

\* The provider's account: its signer's, both for reads and for writes.
SignerAddress(c) == IF c \in Signers THEN <<c>> ELSE <<>>
DefaultCaller(c) == SignerAddress(c)

OrElse(option, other) == IF option # <<>> THEN option ELSE other

\* Mutated form: only an explicit caller counts.
ResolvedCallerExplicit(b) == OrElse(b.caller, <<Zero>>)[1]
ResolvedCaller(b) == OrElse(OrElse(b.caller, DefaultCaller(b.client)), <<Zero>>)[1]

\* to_request: the owner is the caller, else the signer, else there is none.
\* Mutated form: the signer before the caller.
RequestOwnerSignerFirst(b) == OrElse(SignerAddress(b.client), b.caller)
RequestOwner(b) == OrElse(b.caller, SignerAddress(b.client))

-------------------------------------------------------------------------------
(* Replies to a constant call, and what becomes of them.                   *)

Reply(ret, out) == [ret |-> ret, out |-> out]

\* constant_result_from_extention: a failed Return without output is the
\* node's error, with output it is the contract's revert.
ConstantResult(reply) ==
    IF reply.ret = "false" /\ reply.out.shape = "empty" THEN Err("NodeError")
    ELSE Ok([output |-> reply.out, reverted |-> reply.ret = "false"])

\* Mutated form: the output whether or not it is a revert's.
CallOutputAlways(result) == IF result.ok THEN Ok(result.v.output) ELSE result
\* CallBuilder::call
CallOutput(result) ==
    IF ~result.ok THEN result
    ELSE IF result.v.reverted THEN Err("Revert") ELSE Ok(result.v.output)

\* Words against types.  A revert's bytes have words in them too; only a
\* validating decoder notices that they are not the encoding of the result.
Garbage == 99
Decoded(types, out, strict) ==
    CASE types = <<>> /\ (out.shape = "empty" \/ ~strict) -> Ok(<<>>)
      [] types # <<>> /\ out.shape = "data" /\ out.types = types -> Ok(out.v)
      [] out.shape = "revert" /\ ~strict -> Ok([i \in DOMAIN types |-> Garbage])
      [] OTHER -> Err("Abi")

\* ContractError::decode_err
DecodeErr(out) == IF out.shape = "empty" THEN "ZeroData" ELSE "Abi"

\* TronCallBuilder::call and decode_output: the raw output, then the types.
Returned(b, reply) ==
    LET output == CallOutput(ConstantResult(reply))
        decoded == Decoded(b.returns, output.v, b.strict)
    IN IF ~output.ok THEN output ELSE IF decoded.ok THEN decoded ELSE Err(DecodeErr(output.v))
-------------------------------------------------------------------------------
(* Logs: contract/src/event.rs for a type known at compile time, and       *)
(* Interface::decode_logs for an ABI known at run time.                    *)

\* The topics an event type expects, the signature's included, and what its
\* parameters are in a log: words and topics beyond them are not looked at.
IndexedOf(e) == SelectSeq(e.inputs, LAMBDA p : p.indexed)
Skipped(e) == IF e.anonymous THEN 0 ELSE 1
TopicCount(e) == Skipped(e) + Len(IndexedOf(e))
DataCount(e) == Len(e.inputs) - Len(IndexedOf(e))
Parameters(e, log) ==
    [topics |-> SubSeq(log.topics, Skipped(e) + 1, TopicCount(e)), data |-> SubSeq(log.data, 1, DataCount(e))]

\* SolEvent::decode_raw_log takes what it needs and ignores the rest;
\* decode_log_parts, for an event of an ABI, insists on the number of topics.
DecodeRawLog(e, log) ==
    IF Len(log.topics) >= TopicCount(e) /\ Len(log.data) >= DataCount(e)
    THEN Ok(Parameters(e, log)) ELSE Err("Abi")
DecodeLogParts(e, log) ==
    IF Len(log.topics) = TopicCount(e) THEN DecodeRawLog(e, log) ELSE Err("Abi")

LogMatches(e, log) == e.anonymous \/ (log.topics # <<>> /\ log.topics[1] = Signature(e))
DecodeLogs(e, logs) ==
    LET matching == SelectSeq(logs, LAMBDA log : LogMatches(e, log))
    IN [i \in DOMAIN matching |-> DecodeRawLog(e, matching[i])]

\* decode_logs: a log whose topic is no event of the interface is skipped,
\* one that is and does not decode is an error.
InterfaceDecodeLog(ifc, log) ==
    LET event == GetEventByTopic(ifc, log.topics[1])
    IN IF event.ok THEN DecodeLogParts(event.v, log) ELSE event
InterfaceDecodeLogs(ifc, logs) ==
    LET known == SelectSeq(logs, LAMBDA log : log.topics # <<>> /\ log.topics[1] \in DOMAIN ifc.events)
    IN [i \in DOMAIN known |-> InterfaceDecodeLog(ifc, known[i])]

-------------------------------------------------------------------------------
(* Deployment.                                                             *)

Legacy(entries) == [i \in DOMAIN entries |-> [entries[i] EXCEPT !.mutability = Unknown[0]]]
OddEntry == TronAbiEntry(Unknown[9], "odd", <<>>, <<>>, Unknown[0], FALSE, FALSE, FALSE)

\* What a deployer may hand over: the compiler's JSON, or one with a bad name
\* or a tuple without components; TRON metadata, possibly from an old tool
\* (flags, no mutability), with an entry of an unknown kind, or none at all.
OfferOf(json, tron) ==
    LET with(f) == [json EXCEPT !.functions = Append(@, f)]
    IN [compiled |-> [form |-> "json", abi |-> json],
        badName |-> [form |-> "json", abi |-> with(Fn("2fast", <<>>, <<>>, "View"))],
        bareTuple |-> [form |-> "json",
                       abi |-> with(Fn("f", <<TronAbiParam("t", <<"tuple">>, FALSE)>>, <<>>, "View"))],
        legacy |-> [form |-> "tron", abi |-> Legacy(tron)],
        odd |-> [form |-> "tron", abi |-> Append(tron, OddEntry)],
        none |-> [form |-> "tron", abi |-> <<>>]]
Offer(k) == OfferOf(Compiled(k), TryFromJsonAbi(Compiled(k)).v)
OfferNames == {"compiled", "badName", "bareTuple", "legacy", "odd", "none"}
Faithful == {"compiled", "legacy"}

\* The state names an ABI by what was offered; these tables are the ABI that
\* each becomes in the request, and the Interface that is read back from it.
AbiRequested(offer) ==
    LET abi == IF offer.form = "json" THEN TryFromJsonAbi(offer.abi) ELSE Ok(offer.abi)
    IN IF abi.ok THEN Ok(ToProto(abi.v)) ELSE Err("AbiMetadata")
AbiReadBack(proto) ==
    AndThen(TryToJsonAbi(FromProto(proto)), LAMBDA abi : Ok(NewInterface(abi)))
OnWire == [k \in Kinds |-> [n \in OfferNames |-> AbiRequested(Offer(k)[n])]]
ReadBack ==
    [k \in Kinds |-> [n \in OfferNames |-> AndThen(OnWire[k][n], AbiReadBack)]]
NoContract == "no contract"
Calls ==
    [k \in Kinds |-> [n \in OfferNames \cup {NoContract} |->
        UNION {UNION {{[m |-> m, p |-> p, encoding |-> e] :
                        e \in Encodings(k, IF n = NoContract THEN Err("") ELSE ReadBack[k][n], m, p)} :
                      p \in Params(k, m)} : m \in Methods(k)}]]

-------------------------------------------------------------------------------
(* What the tables have to agree on for calls to mean what they say.  All  *)
(* of it is about constants: the bindings, the encoders and the ABIs.      *)

\* Calldata that the virtual machine takes for this method with these arguments.
Says(k, data, m, p) ==
    /\ data.selector \in DOMAIN Dispatch[k]
    /\ Dispatch[k][data.selector][1] = m
    /\ ByName(Dispatch[k][data.selector][2], data.args) = p

\* Every way to encode a call, with or without an Interface from any of the
\* ABIs, encodes that call or fails.
EncodersAgree ==
    \A k \in Kinds : \A n \in OfferNames \cup {NoContract} : \A call \in Calls[k][n] :
        call.encoding.ok => Says(k, call.encoding.v.data, call.m, call.p)

\* The types a result is decoded with are the method's, or there are none and
\* the result is ignored.
Reads(k, m, returns, strict) ==
    /\ m \in DOMAIN Results[k]
    /\ returns = ResultTypes(k, m) \/ (returns = <<>> /\ ~strict)
DecodersAgree ==
    \A k \in Kinds : \A n \in OfferNames \cup {NoContract} : \A call \in Calls[k][n] :
        call.encoding.ok => Reads(k, call.m, call.encoding.v.returns, call.encoding.v.strict)

\* The ABI that is read back from the chain is the one the compiler wrote: each
\* function is found by its selector, the names are those on the wire, and a
\* name finds its first overload.
AbiSurvives(k, n) ==
    LET ifc == ReadBack[k][n]
        entries == FromProto(OnWire[k][n].v)
        fs == ItemsOf(entries, "Function")
    IN /\ ifc.ok /\ ifc.v.abi = Compiled(k)
       /\ \A i \in DOMAIN Functions[k] :
             GetBySelector(ifc.v, Signature(Functions[k][i])) = Ok(Functions[k][i])
       /\ DOMAIN ifc.v.functions = {EntrySignature(fs[i])[1] : i \in DOMAIN fs}
       /\ \A i \in DOMAIN fs :
             GetByName(ifc.v, fs[i].name).v.inputs = ItemsNamed(entries, "Function", fs[i].name)[1].inputs

\* DeployBuilder::to_request: the owner, then the ABI.
DeployRequest(c, from, n) ==
    LET owner == OrElse(from, SignerAddress(c))
    IN IF owner = <<>> THEN Err("NoSigner")
       ELSE AndThen(OnWire[kind][n], LAMBDA abi : Ok([owner |-> owner[1], abi |-> n]))

NoAnswer == [what |-> "none"]
Error(e) == [what |-> "error", e |-> e]

\* A node takes a transaction that its owner signed.
Taken(c, owner) == c = owner

Init ==
    /\ kind \in Kinds
    /\ there = <<>> /\ deploying = <<>> /\ loaded = FALSE /\ builder = <<>>
    /\ pool = {} /\ receipt = <<>> /\ answer = NoAnswer
    /\ meant = NewLedger(kind, Zero) /\ sends = 0

\* DeployBuilder::send, and the deploy() that waits for it.
Deploy(c) ==
    /\ receipt = <<>> /\ deploying = <<>> /\ pool = {}
    /\ \E offer \in OfferNames, holder \in Signers, from \in {<<>>} \cup {<<x>> : x \in Signers} :
        LET request == DeployRequest(c, from, offer)
            bytecode == DeployBytecode(kind, <<holder>>)
        IN IF request.ok /\ c \in Signers /\ Taken(c, request.v.owner)
           THEN /\ pool' = {[type |-> "create", owner |-> request.v.owner, abi |-> request.v.abi,
                             bytecode |-> bytecode, holder |-> holder]}
                /\ deploying' = <<[client |-> c, from |-> from, holder |-> holder]>>
                /\ answer' = NoAnswer
           ELSE /\ answer' = Error(IF request.ok THEN "Provider" ELSE request.e)
                /\ UNCHANGED <<pool, deploying>>
    /\ UNCHANGED <<kind, there, loaded, builder, receipt, meant, sends>>

\* The node runs the constructor; it can run out of energy, and the receipt of
\* a failed deployment may still name the address it was meant for.
ExecuteCreate(tx) ==
    /\ tx.type = "create"
    /\ pool' = pool \ {tx}
    /\ \/ /\ there' = <<[abi |-> tx.abi, creator |-> tx.owner,
                          ledger |-> NewLedger(tx.bytecode.code, tx.bytecode.args[1])]>>
          /\ meant' = NewLedger(kind, tx.holder)
          /\ receipt' = <<[type |-> "create", ok |-> TRUE, address |-> TRUE]>>
       \/ /\ \E named \in BOOLEAN : receipt' = <<[type |-> "create", ok |-> FALSE, address |-> named]>>
          /\ UNCHANGED <<there, meant>>
    /\ UNCHANGED <<kind, deploying, loaded, builder, answer, sends>>

\* DeployBuilder::deploy: the receipt's contract address, or there is none.
\* The receipt's status is not looked at.
DeployAddress(r) == IF r.address THEN Ok(r) ELSE Err("ContractNotDeployed")
DeployReturns ==
    /\ deploying # <<>> /\ receipt # <<>>
    /\ answer' = IF DeployAddress(receipt[1]).ok
                 THEN [what |-> "deployed", client |-> deploying[1].client, from |-> deploying[1].from,
                       holder |-> deploying[1].holder]
                 ELSE Error("ContractNotDeployed")
    /\ deploying' = <<>>
    /\ UNCHANGED <<kind, there, loaded, builder, pool, receipt, meant, sends>>

\* The wait ends first; the transaction may still be executed.
DeployTimesOut ==
    /\ deploying # <<>>
    /\ deploying' = <<>>
    /\ answer' = Error("ConfirmationTimeout")
    /\ UNCHANGED <<kind, there, loaded, builder, pool, receipt, meant, sends>>

\* get_contract, the TRON metadata as JSON, Interface::new.
LoadInterface ==
    /\ there # <<>> /\ ~loaded
    /\ loaded' = TRUE
    /\ answer' = IF ReadBack[kind][there[1].abi].ok THEN NoAnswer ELSE Error("AbiMetadata")
    /\ UNCHANGED <<kind, there, deploying, builder, pool, receipt, meant, sends>>

-------------------------------------------------------------------------------
(* Calls.                                                                  *)

\* Calls are made one after the other, once the interface is loaded; what
\* others do in the meantime is Elsewhere.
Looked == <<[type |-> "looked"]>>

\* The application has seen what came back, and goes on.
Look ==
    /\ receipt # <<>> /\ deploying = <<>> /\ builder = <<>> /\ pool = {}
    /\ receipt # Looked \/ answer # NoAnswer
    /\ receipt' = Looked /\ answer' = NoAnswer
    /\ UNCHANGED <<kind, there, deploying, loaded, builder, pool, meant, sends>>

NewCall(c) ==
    /\ receipt = Looked /\ answer = NoAnswer /\ deploying = <<>> /\ builder = <<>> /\ pool = {}
    /\ there # <<>> => loaded
    /\ \E call \in Calls[kind][IF there = <<>> THEN NoContract ELSE there[1].abi],
          instanceCaller \in {<<>>} \cup {<<x>> : x \in Signers} :
        IF call.encoding.ok
        THEN /\ builder' = <<CallRaw(c, instanceCaller, call.encoding.v, call.m, call.p)>>
             /\ answer' = NoAnswer
        ELSE builder' = <<>> /\ answer' = Error(call.encoding.e)
    /\ UNCHANGED <<kind, there, deploying, loaded, pool, receipt, meant, sends>>

\* value and caller, on the builder; what was estimated before is void.
SetValue ==
    /\ builder # <<>> /\ builder[1].value = 0 /\ kind \in Valued
    /\ builder' = <<[builder[1] EXCEPT !.value = 1, !.estimate = "none"]>>
    /\ UNCHANGED <<kind, there, deploying, loaded, pool, receipt, answer, meant, sends>>
SetCaller(x) ==
    /\ builder # <<>> /\ builder[1].caller # <<x>>
    /\ builder' = <<[builder[1] EXCEPT !.caller = <<x>>, !.asked = <<x>>, !.estimate = "none"]>>
    /\ UNCHANGED <<kind, there, deploying, loaded, pool, receipt, answer, meant, sends>>

\* estimate_energy keeps the builder: the simulation of what it describes.
Estimate ==
    /\ builder # <<>> /\ there # <<>> /\ builder[1].estimate = "none"
    /\ LET b == builder[1]
           run == Run(kind, b.data, ResolvedCaller(b), b.value, there[1].ledger)
       IN builder' = <<[b EXCEPT !.estimate = IF run.ok THEN "ok" ELSE "reverts"]>>
    /\ UNCHANGED <<kind, there, deploying, loaded, pool, receipt, answer, meant, sends>>

\* What a node may reply to a constant call.  The bytes of a revert come with
\* a failed Return, with a successful one or with none.
Replies(b) ==
    IF there = <<>> THEN {Reply("false", Empty), Reply("true", Empty)}
    ELSE LET run == Run(kind, b.data, ResolvedCaller(b), b.value, there[1].ledger)
         IN {Reply("false", Empty)}
            \cup (IF run.ok THEN {Reply("true", run.out), Reply("none", run.out)}
                  ELSE {Reply(ret, RevertData) : ret \in {"false", "true", "none"}})

\* Who was meant to call: the caller that was set, else the client.
AskedBy(b) == OrElse(OrElse(b.asked, SignerAddress(b.client)), <<Zero>>)[1]

CallConstant ==
    /\ builder # <<>>
    /\ LET b == builder[1]
       IN \E reply \in Replies(b) :
            LET result == Returned(b, reply)
                truth == IF there = <<>> THEN Failed(meant)
                         ELSE Effect(kind, b.m, b.p, AskedBy(b), b.value, there[1].ledger)
            IN answer' = [what |-> "read", void |-> b.returns = <<>>, strict |-> b.strict,
                          result |-> result, truth |-> [ok |-> truth.ok, v |-> truth.out.v],
                          told |-> there # <<>> /\ reply.ret # "false"]
    /\ builder' = <<>>
    /\ UNCHANGED <<kind, there, deploying, loaded, pool, receipt, meant, sends>>

\* send: to_request, then the provider fills, signs and broadcasts.
Send ==
    /\ builder # <<>> /\ sends < MaxSends
    /\ LET b == builder[1]
           owner == RequestOwner(b)
       IN IF owner # <<>> /\ b.client \in Signers /\ Taken(b.client, owner[1])
          THEN /\ pool' = pool \cup {[type |-> "call", owner |-> owner[1], data |-> b.data, value |-> b.value,
                                      m |-> b.m, p |-> b.p, by |-> AskedBy(b), estimate |-> b.estimate,
                                      id |-> sends]}
               /\ sends' = sends + 1
               /\ answer' = NoAnswer
          ELSE /\ answer' = Error("Provider")
               /\ UNCHANGED <<pool, sends>>
    /\ builder' = <<>>
    /\ UNCHANGED <<kind, there, deploying, loaded, receipt, meant>>

\* The ledger moves on: estimates made before are stale.
Aged(x) == [x EXCEPT !.estimate = IF @ = "none" THEN "none" ELSE "stale"]

\* A transaction in a block.
Execute(tx) ==
    /\ tx.type = "call" /\ there # <<>>
    /\ LET run == Run(kind, tx.data, tx.owner, tx.value, there[1].ledger)
       IN /\ there' = <<[there[1] EXCEPT !.ledger = run.ledger]>>
          /\ meant' = Effect(kind, tx.m, tx.p, tx.by, tx.value, meant).ledger
          /\ receipt' = <<[type |-> "call", ok |-> run.ok, logs |-> run.logs, estimate |-> tx.estimate]>>
    /\ pool' = pool \ {tx}
    /\ UNCHANGED <<kind, deploying, loaded, builder, answer, sends>>

Deeds == [k \in Kinds |-> UNION {{[m |-> m, p |-> p] : p \in Params(k, m)} : m \in Methods(k)}]

\* Other software calls the same contract while a call of ours is estimated
\* or waits for its block.
Elsewhere(x) ==
    /\ there # <<>> /\ sends < MaxSends
    /\ (\E i \in DOMAIN builder : builder[i].estimate # "none") \/ pool # {}
    /\ \E deed \in Deeds[kind] :
        LET effect(l) == Effect(kind, deed.m, deed.p, x, IF kind = "vault" THEN 1 ELSE 0, l).ledger
        IN /\ effect(meant) # meant
           /\ there' = <<[there[1] EXCEPT !.ledger = effect(@)]>>
           /\ meant' = effect(meant)
    /\ builder' = [i \in DOMAIN builder |-> Aged(builder[i])]
    /\ pool' = {Aged(t) : t \in pool}
    /\ sends' = sends + 1
    /\ UNCHANGED <<kind, deploying, loaded, receipt, answer>>

Next ==
    \/ \E c \in Clients : Deploy(c) \/ NewCall(c)
    \/ \E tx \in pool : ExecuteCreate(tx) \/ Execute(tx)
    \/ DeployReturns \/ DeployTimesOut \/ LoadInterface \/ Look
    \/ SetValue \/ \E x \in Signers : SetCaller(x) \/ Elsewhere(x)
    \/ Estimate \/ CallConstant \/ Send

Spec == Init /\ [][Next]_vars

-------------------------------------------------------------------------------
(* Properties.                                                             *)

\* Whichever way a call was made (typed instance, free encoder, name,
\* selector, generated method) and whatever caller and value were set on the
\* way, once executed it has done to the ledger what its name says, with the
\* arguments it was given, for the account it was made as.
LedgerAsAsked == there # <<>> => there[1].ledger = meant

\* An energy estimate and the transaction sent from the same builder are made
\* as the same account, with the same value and calldata: when no block came
\* in between, a call that the estimate ran through is executed, and one that
\* it saw revert is not.
EstimateForesees ==
    \A i \in DOMAIN receipt :
        receipt[i].type = "call" =>
            /\ receipt[i].estimate = "ok" => receipt[i].ok
            /\ receipt[i].estimate = "reverts" => ~receipt[i].ok

\* A read gives the contract's value or an error, never a value out of a node's
\* failure or of an address without a contract, and never an error when the
\* contract ran and the node told its result.  A revert is the Revert error, or
\* another error, unless the node told it as a success (told, yet the contract
\* did not run through): then a decoder that does not validate takes the
\* revert's bytes for the result, and that is the only way to a wrong value
\* (constant_result_from_extention, CallBuilder::call, TronCallBuilder::call).
ReadsTellTheLedger ==
    answer.what = "read" =>
        /\ answer.result.ok /\ ~answer.void =>
              \/ answer.truth.ok /\ answer.result.v = answer.truth.v
              \/ ~answer.truth.ok /\ answer.told /\ ~answer.strict
        /\ answer.told /\ answer.truth.ok => answer.result.ok
        /\ ~answer.result.ok /\ answer.result.e = "Revert" => ~answer.truth.ok /\ ~answer.told

\* What deploy() reports is on the chain, when the receipt it read was of a
\* deployment that went through.
DeployReport ==
    answer.what = "deployed" /\ receipt[1].ok =>
        /\ there # <<>>
        /\ there[1].creator = OrElse(answer.from, <<answer.client>>)[1]
        /\ there[1].ledger.keeper = answer.holder
\* When the deployment went through, what deploy() reports is on the chain,
\* created by the account it was deployed from with the constructor's
\* arguments; and the ABI that another client reads back there, through TRON
\* metadata and protobuf, is the one the compiler wrote, or is refused.
DeployedAsGiven ==
    DeployReport /\ (loaded /\ there[1].abi \in Faithful => AbiSurvives(kind, there[1].abi))

\* The documentation of DeployBuilder::deploy: an error, ContractNotDeployed,
\* when the deployment transaction reverted, so that an address it returns is
\* a contract's.  The code takes the address from any receipt that has one.
DeployErrsOnRevert == answer.what = "deployed" => there # <<>>

\* A receipt's logs decode to what was emitted.  A named event type reads the
\* values of that event's own logs and of no other, although TRC20 and TRC721
\* share the topics of Transfer and of Approval and the decoder ignores topics
\* it does not need.  An anonymous type matches every log: its own are among
\* what it reads, with their values.  With the ABI from the chain, every log
\* but an anonymous one is read as what it is (event.rs, Interface::decode_logs).
LogsReadAsEmitted ==
    \A r \in DOMAIN receipt :
        receipt[r].type = "call" =>
            LET logs == receipt[r].logs
                values(log) == [topics |-> IF log.of.anonymous THEN log.topics ELSE Tail(log.topics),
                                data |-> log.data]
                emitted(e) == SelectSeq(logs, LAMBDA log : log.of = e)
                good(results) == SelectSeq(results, LAMBDA x : x.ok)
                named == SelectSeq(logs, LAMBDA log : ~log.of.anonymous)
            IN /\ \A k \in DOMAIN Events : \A i \in DOMAIN Events[k] :
                    LET e == Events[k][i]
                    IN IF e.anonymous
                       THEN /\ Len(DecodeLogs(e, logs)) = Len(logs)
                            /\ \A j \in DOMAIN logs : logs[j].of = e => DecodeLogs(e, logs)[j] = Ok(values(logs[j]))
                       ELSE good(DecodeLogs(e, logs)) = [j \in DOMAIN emitted(e) |-> Ok(values(emitted(e)[j]))]
               /\ loaded /\ there[1].abi \in Faithful =>
                    InterfaceDecodeLogs(ReadBack[kind][there[1].abi].v, logs) = [j \in DOMAIN named |-> Ok(values(named[j]))]
=============================================================================
