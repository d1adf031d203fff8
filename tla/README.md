# tronz in TLA+

tronz is a Rust SDK for the TRON blockchain: a provider that talks gRPC to
FullNodes and SolidityNodes, fillers and signers that turn a request into a
signed transaction, and contract helpers, an event watcher among them. It keeps
money safe only if a number of asynchronous pieces fit together: a broadcast
whose answer is lost, a shared cache read by concurrent sends, a poll dropped by
a timeout, a cursor persisted between two crashes. This directory models those
pieces, checks them with TLC on small instances, and proves the most important
results with TLAPS for every instance.

Paths below are relative to the repository; `provider/` stands for
`crates/provider/src/`, `rpc-types/`, `contract/`, `signer/` likewise.

## 1. Inventory

| Component | State it keeps | Operations | Interacts with | What is hard |
|---|---|---|---|---|
| gRPC call path (`provider/transport/grpc/{core,middleware,mod}.rs`, `provider/error.rs`) | retry configuration, middleware chain; per call: how much middleware was entered, attempts, back-off | `call_with_retry`, `retry`, `map_status`, `is_retryable` | every endpoint; application middleware; the node | concurrent calls inside shared middleware, refusal half-way in, retries, dropped futures |
| Sending (`provider/provider/{builder,mod}.rs`, `provider/error.rs`) | nothing of its own; the transaction under way | `send_transaction`, `build_transaction`, `broadcast`, `RpcError::broadcast` | fillers, wallet, endpoints, the caller's recovery | lost answers, late requests, duplicate bytes, telling "refused" from "unknown" |
| Waiting (`provider/provider/{pending,solidity}.rs`) | remaining budget, last error | `get_receipt`, `get_solidified_receipt`, `wait_for_transaction_with`, `wait_for_success_with` | call path; the chain | timeout racing an answer, reorganizations, transient errors |
| Fillers (`provider/fillers/mod.rs`) | block cache, price cache, "node will not estimate" flag, shared by clones | `fill_sync`, `fill`, `estimate`, `energy_needed`, `energy_price` | provider queries; other builds through the shared caches | mutex held over a request, stale flag, overflow, two synchronous passes |
| Assembly and signing (`fullnode.rs`, `rpc-types/types/transaction.rs`, `signer/wallet.rs`) | `RawTransaction`: bytes, id, expiration | `raw_from_extention_with`, `from_encoded`, `apply_request_fields`, `sign_with`, `sign_hash_with_many`, `to_proto` | the node that builds the bytes; the wallet | bytes built by an untrusted node and rewritten after their id was derived |
| Event watcher (`contract/event_filter.rs`) | cursor `next_block`, `caught_up`; the stream's queue | `poll`, `query_range`, `into_stream` | pool of nodes; the application's storage | concurrent fetches, partial failure, reorganizations, lagging nodes, crash and resume |
| Endpoints (`fullnode.rs`, `grpc/solidity.rs`, `transport/`) | the channel | about 130 calls | call path | which answer means "absent"; what is left out of a list; what is compared with the request; a list fetched piece by piece from a pool of peers |
| Provider, layers (`provider/provider/`, `provider/layers.rs`) | endpoints and layers of the builder; an inner provider each | `layer`, `connect`, `erased`, every provider method | the layer below | a method that bypasses a layer; a send that is filled or traced twice |
| Builders and extensions (`provider/builders`, `provider/ext`) | the fields set so far | setters, `into_request`, `build`, `send` | provider, endpoints | 37 operations through tables that must agree; what protobuf does not send; validation |
| Contract calls, deployment, tokens (`contract/`) | ABI, address, caller, value | `call`, `send`, `estimate_energy`, `deploy`, `function`, event decoding | provider, watcher | look-alike methods, who the caller is, reverts told as successes, receipts of failed deployments, an ABI that went through the chain, topics that standards share |
| Types and codec (`rpc-types/`) | none | conversions | endpoints | sign, width and absence of fields |
| Account permissions (`rpc-types/types/{account,contract}.rs`, `builders/permission.rs`) | permissions as read | `contains`, `insert`, `weight_of_all`, `allows`, `is_satisfied_by` | codec, wallet, the node | bitmap order and bounds, repeated and stray signatures, lossy and stale readings |
| Signers, keystore, mnemonic, KMS (`signer/`, `signer-aws/`) | keys by address, a default | register, sign, encrypt and decrypt a keystore, iterate over a phrase's keys | disk, KMS, other wallets' signatures | a damaged or cut-off file, an alias that moves, the last index, the parity of a signature |
| ABI and `sol!` macro (`abi/`, `sol-macro/`) | none | conversions, generated instances | contract calls, the chain | overloads, names that are taken, tuples whose components are lost |
| Amounts, addresses (`primitives/`) | none | parse, format, checked arithmetic | everything | overflow, rounding |
| Generated code, mock transport, fixture capture | - | - | - | - |

The properties that make each modelled component correct are listed with its
module in section 3. The hazards, each at its line, are in `PROJECT.json`.

## 2. Plan

Order: what can lose or repeat a payment first, then what can lose an event, then
the sequential parts.

1. *Done.* `TransportErrors`, `GrpcCore` (implements `LogicalRpc`),
   `SendTransaction`, `PendingTx`, `EventWatcher`, `Fillers`,
   `TransactionAssembly`; proofs of `GrpcCore`, `SendTransaction`,
   `PendingTx` and `TransactionAssembly`.
2. *Done.* `Operations` over the tables `OperationBuilders`, `WireMessages` and
   `ContractKinds`: every builder, from its setters to the transaction it becomes.
3. *Done.* Reads: `ProviderStack` over the tables `ProviderRoutes`, `Endpoints` and
   `Replies`: the builders, the layers, and every query of both transports.
4. *Done.* Contracts: `ContractCalls` over `OnChain`, `SolBindings` and `TronAbi`.
5. *Done.* `Multisig` over `Permissions` and `Keys`: keys, permissions, and
   signatures of several parties.
6. *Done.* Proofs of `EventWatcher`, `Fillers`, the rest of `SendTransaction`,
   `ContractCalls` (calls, reads, estimates, deployment) and `Multisig` (keys,
   signatures, operation bitmaps, the forecast).
7. A proof that could still be made: `LogsReadAsEmitted`, with the filtering of a
   receipt's logs as the hard part.

Abstract specification: `LogicalRpc` (one logical call). A stack of layers is not
shown to implement a single provider, since it does not: four methods are defined
by another method of the same provider, and a layer below sees that one. The run
`layers` shows it.

## 3. Modules and the code

Every module names what it models in its header, and `PROJECT.json` maps each
definition to its lines. Definitions introduced by "Mutated form" are deliberate
slips: a property is only kept if one of them breaks it. Actions of the node, the
chain, the network and the caller are environment and marked external in the map.

**TransportErrors** - the variants of `TransportErrorKind` and `RpcError`,
`map_status`, `is_retryable`, `is_worth_reasking`, and `RpcError::broadcast`'s
decision whether a failed broadcast is a refusal or open. Pure operators used by
three modules.

**GrpcCore / LogicalRpc** - a call's future and where it is suspended (`pc`), how
many middleware it entered, attempts and back-off; `holders` is the state a
limiter middleware would keep. `broadcast_transaction` goes around all of it, as
in the code. `LogicalRpc` is what a caller relies on: a call is executed at most
so many times, never after it was answered, not at all when refused, and its
answer stays.
The trait documents middleware that "observes and paces every call a gRPC transport
makes" (`provider/transport/grpc/middleware.rs:44`); a broadcast passes none.
Properties: `OwedAfter`, `ResendOnlyTransient`, `EveryCallReturns`,
`ImplementsLogicalRpc`; proved besides: `NestedBrackets`.

**SendTransaction** - senders that fill, build, sign and broadcast; requests and
answers travel separately, so both can be lost or late; the node takes, refuses,
includes and expires. The caller follows what `RpcError::Broadcast` documents:
retry after an error without an id, look up, replace after the expiry, and
(optionally) re-broadcast. A transaction is its payload and reference block,
since nothing else in the bytes varies.
Properties: `NoIdNotTaken`, `NeverPaidTwice`, `PendingWasTaken`, and the last again
of callers with equal payloads (`SharedPendingWasTaken`); as documented but not so:
`NodeErrorMeansNotTaken`.

**PendingTx** - the three ways to wait (a wall-clock budget on a FullNode, the same
on solidified state, a number of attempts), with explicit countdowns, against a
chain that includes, orphans and solidifies.
Properties: `SolidReceiptIsFinal`, `NoEarlyTimeout`, `EveryWaitEnds`; proved
besides: `TransientNeverFatal`, `TimeoutCarriesReason`. The last holds of the two
waits that keep the reason. The solidified one runs under `deadline`, which drops
the poll and the error with it (`provider/provider/pending.rs:198`), although the
variant says that this "is where the reason for it survives" (`pending.rs:25`).

**EventWatcher** - cursor, a window of blocks fetched `Concurrency` at a time from
nodes that may lag and taken in block order (`TakeBlock` moves `at`, and what it
decoded is in `acc`), the queue of the stream, and an application that persists the
cursor and crashes. `FinalityAssumption` states what the confirmations are for:
no reorganization and no lag reaches deeper than `Confirmations`.
A block holds an event, nothing, or a log that does not decode; the last one fails
every poll over it, so events in its window wait as well.
Properties: `NoneMissed`, `NoneReverted`, `InOrderOnce`, `ResumeLosesNothing`,
`EventuallyDelivered`.

**Fillers** - `FilledProvider::build_transaction` for concurrent builds that share
the block cache, the price cache and the flag; a build holds a cache's mutex over
its request. Amounts keep scaled-down widths, so that the checked multiplications
matter.
`refusals` remembers which builds were told that the node does not estimate;
`EstimateAskedUntilRefused` compares with it what the next builds do, several steps
and other builds' failures later: a flag that is set for another reason, or cleared
by a request that was under way, breaks it.
Properties: `Coalesced`, `NeverGuessed`, `EstimateAskedUntilRefused`,
`EveryBuildEnds`.

**TransactionAssembly** - one request, every answer a node could give to it, the
comparison, the derived id, the overrides, the keys, the wire transaction. An
answer is what the protobuf decoder makes of it, so that foreign or repeated bytes
around `raw_data` are gone, while the parameter is compared as it reads to this
build, without the fields it does not know. The digest is taken to be injective. Fields the request leaves unset (fee limit, memo,
permission, TAPOS) are the node's: the code trusts it for those, and
`WireIsRequested` claims only what the caller set.
Kinds in `Plain` (`set_account_id`) are answered with a bare transaction
and compared with nothing, although the comparison is documented of "everything the
caller authorised" (`fullnode.rs:185`); `WireIsRequested` leaves them out.
Properties: `SignaturesCoverWire`, `WireIsRequested`, `StrictSignsAsOwner`; proved
besides: `ExpirationIsSigned`, `SignersAreDistinct`.

**Operations** - one builder at a time, any of the 37: setters in any order,
`into_request` with its refusals in the order the code makes them, the message on
the wire, an honest node or one that builds another kind, the comparison, the
request's own fields, and what `RawTransaction::details` reads. The facts it works
on are tables, one row per function of the code: `OperationBuilders` (required
fields, presets, request fields), `WireMessages` (the fields of each protobuf
message by tag), `ContractKinds` (numbers, owner tags, `build_via_transport`'s
dispatch, and the procedure and kind of each method). A field is a sequence:
empty for None or an empty list. The wire leaves out scalars that are 0, as
protobuf does, so None and Some(0) really do look the same to the node.
Properties: `NodeReadsWhatWasSet`, `HonestNodeAccepted`, `ReadsBackAsAsked`.

**ProviderStack / ProviderRoutes / Endpoints / Replies** - three builders (full,
read-only, solidity); the connection, eager to one endpoint and lazy to several;
wrappers given to the builder or put on by hand, `DynProvider` among them; and one
call of any method, run down the stack version by version to the node and its reply.
`ProviderRoutes` says of each provider method where its default goes, `Endpoints`
holds the other tables the code keeps by hand (shape of the result, procedure and
conversion), `Replies` what each conversion does with a field that is empty or cannot
be read. Pending transactions are listed by one peer and fetched from others while
pools change. Of a builder's settings only the endpoints matter here; the others are
plain assignments on their way to the transport.
The code says that "a call `Outer` says nothing about still reaches `Inner`'s version
of it" (`provider/layers.rs:11`), that "every default method below asks [inner]
first" (`provider/provider/mod.rs:188`) and that "everything a wrapped provider does
survives erasure" (`provider/provider/erased.rs:16`). Of four methods this is not so:
`get_transaction_info`, `get_transaction_info_by_block_num`, `estimate_energy` and
`get_energy_price` are written in terms of another method of `self`, and a wrapper that
does not override them sends the call on as that other method.
Properties: `LayersRunOutsideIn` (of the methods whose default asks `inner`),
`SentOnceTracedOnce`, `AbsentMeansEmpty`, `ListsLoseNothing`; as documented but not so:
`EveryCallReachesInner`.

**ContractCalls / SolBindings / TronAbi / OnChain** - one contract of three (a
token, an NFT, a vault with payable and overloaded functions): deployed with its
ABI, read back by another client, called by typed instances, by name, by selector,
by raw calldata and by generated methods, by two signers and a client without a key.
The node executes what is in the calldata; `meant` is the ledger had every call done
what its name says. `TronAbi` has the three forms of an ABI and the conversions,
`SolBindings` the tables of the instances and what `tron_sol!` generates,
`OnChain` (external) the contracts themselves.
The node answers a constant call in every way: well, with a revert told as one, told
as a success or with no result at all, and with an error. Receipts of failed
deployments name an address or do not.
What a reader should know of the code. Only `result = false` counts as a revert
(`rpc-types/codec/mod.rs:357`): a revert told otherwise is decoded as the output
(`contract/call.rs:144`), and a decoder that does not validate makes a value of it;
`ReadsTellTheLedger` says that this is the only way to a wrong value. A typed call
without outputs to an address without a contract succeeds when the node answers an
empty success. `deploy()` is documented to fail when the deployment reverted
(`contract/deploy.rs:162`), but takes the address of any receipt that has one (run
`deploy`); `DeployedAsGiven` is about receipts that are successes. The typed decoder
ignores topics beyond those it needs and an anonymous event type matches every log,
so that `LogsReadAsEmitted` says "its own and no other" of named types, and of anonymous
ones that their own logs are read as emitted. The generated setter for the caller is
documented "for read-only calls" (`sol-macro/lib.rs:562`) and also decides who sends.
Properties: `LedgerAsAsked`, `EstimateForesees`, `ReadsTellTheLedger`,
`DeployedAsGiven`, `LogsReadAsEmitted`; as documented but not so:
`DeployErrsOnRevert`.

**Multisig / Permissions / Keys** - cryptography is symbolic: a key is a name, a
signature remembers its key, its hash and the parity that recovers it, a derived key
is what it was derived from. `Keys` has the byte forms of signatures, the wallet,
the keystore file with everything that can have become of a field of it, the
mnemonic's iterator and the KMS signer; `Permissions` the bitmap, weights and
thresholds and their way to the node and back; `Multisig` lets parties load keys,
read permissions, sign in turn, hand the bytes over (with a signature of another
tool, in either form of v) and forecast the broadcast. The node refuses a transaction
with a signature by no key of its permission or with two by one key, and answers
`getTransactionSignWeight` about it with `PERMISSION_ERROR` and no weight
(`NodeTakes`, `NodeSignWeight`, after `api.proto`'s result codes).
What a reader should know of the code: the MAC of a keystore does not cover the iv,
and the decrypted key is not compared with the file's address, so a damaged iv gives
another key without an error. The iterator, documented as infinite
(`signer/mnemonic.rs:288`), never yields the index `u32::MAX`, for which `build` gives
a key (run `iterator`); for an empty path it starts at `m/0` while `build` gives `m`.
`weight_of_all` passes over stray and repeated signatures, of the repeated ones
"the same as on-chain" (`rpc-types/types/contract.rs:858`); since the node refuses both,
`ForecastHolds` calls a forecast good of transactions whose signatures are of
different keys of the permission (`clean`). `sign_weight_from_proto` keeps the message
of the node's result and drops its code. For a
permission id the account does not have, the node sends no permission and the
required weight reads as 0, so that the documented test `current_weight >=
required_weight` (`crates/provider/README.md:205`) passes. A reading of permissions
that lost something, sent back as an update, would make the loss permanent;
`AmendPermissions` only amends readings without loss.
Properties: `SignedByWhomAsked`, `KeystoreGivesItsKey`, `IterationAgreesWithBuild`,
`AllowsAsGranted`, `ForecastHolds`; as documented but not so: `IterationIsInfinite`.

## 4. Runs

| Run | Instance | Shows |
|---|---|---|
| `grpc` | two reads and a broadcast, two one-slot limiters, three attempts, a transient and a final status | all of GrpcCore's properties, dropped futures included |
| `send` | one sender, three broadcasts, six ticks, expiry 2, two kinds of loss and a proxy's refusal; or two senders with equal payloads, two broadcasts each, re-broadcasting | an error without an id is final and one intent pays once, of the first; of both, a `PendingTransaction` was really taken |
| `send_rebroadcast` (violation) | one sender that re-broadcasts | the refusal of a duplicate reads as "not taken" |
| `pending` | waiters in all modes, one status and one unreadable answer | all of PendingTx's properties |
| `events` | four blocks, window 2, two fetches in flight, one reorganization, lag 1, two faults | all of EventWatcher's properties |
| `fillers` | two builds, each one of four jobs; energies and prices that are negative, small, clamped and overflowing; TTL 2 within two ticks | all of Fillers' properties |
| `requests` | *assembly*: three kinds, one of them not compared, two bodies, unreadable and unknown parts, every combination of answer flags; wallet with two of three keys, key lists with a duplicate and a missing key. *operations*: all 37 builders, with and without a signer, up to two optional fields changed, lists of up to two. *stack*: two wrappers, layers that override a read, a derived method and the broadcast, replies with up to two odd fields, lists of two, two pending transactions at two peers | all properties of TransactionAssembly, Operations and ProviderStack |
| `layers` (violation) | *stack* of the above | a call goes around an inner layer's version of a method that is defined by another of `self` |
| `contracts` | each of three contracts, two accounts, two broadcast calls, here or from other software, deployments that succeed and fail | all of ContractCalls' properties, and that all its encoders and decoders agree with the contracts (`EncodersAgree`, `DecodersAgree`, evaluated as assumptions) |
| `deploy` (violation) | the same | `deploy()` returns the address in the receipt of a deployment that reverted |
| `multisig` | two parties, two keys loaded, two signatures of theirs and one of a tool, one change of permissions, permission ids 0, 2 and 3, `u32::MAX` scaled to 50 | all of Multisig's properties |
| `iterator` (violation) | the same | an iterator at the last index ends without having yielded it |

`MCSendTransaction` and `MCRequests` each explore several specifications that have no
variable in common: a behaviour runs one of them, chosen in its first state, and the
others stay in an initial state. What is checked of each is what a run of its own
would check.

Why the bounds are enough. Two calls and one slot already make a call wait for
another at each of two depths, the smallest instance with a nested wait; three
attempts separate the first, a middle and the last. Two senders are the smallest
instance with shared bytes, and three broadcasts let a replacement be replaced.
Windows of two blocks over three confirmable ones give a full and a partial
window, and two faults allow a failure before or after a crash. Caches are filled,
used, expired and refilled within one TTL plus one tick. The assembly has no
unbounded part except the key list, which only matters by duplicates and by keys
that are missing. Its two bodies are interchangeable and form a symmetry
set. A builder's setters write one field each, so two changed optional fields
give every pair together with all required ones; values are 0, which
protobuf drops, and 1, which it sends. Two wrappers give every order of two layers,
the fillers and an erased provider. Each reply differs from a good one in at most two fields,
which is one more than any conversion looks at together to decide absence. Two
broadcast calls let the second meet what the first did (an allowance, an approval,
an owner). In `multisig`, two keys and two signatures give one key twice, two keys of
one party and one of each; thresholds of 1, 2 and 3 with weights 1 and 2 are met, just
missed and exceeded; one contract kind (46) is enough since it is granted, not granted
or added later, and `AllowsAsGranted` asks about eight. The parties, like the
accounts in `contracts`, are interchangeable and form a symmetry set.

Deadlock is not checked where the system may rest: `send*` when everything is
settled or expired, `events` when the chain has reached its bound, `contracts` and
`multisig`, and `deploy` and `iterator` after them, when their bounds are used up. All other runs check it.

**Fairness.** `GrpcCore`, `Fillers`: a future that is polled goes on - a
request is answered or ends by the channel's timeout, a sleep ends, and a free slot
or mutex is taken by a waiter (tokio's mutex is fair, so weak fairness per build is
less than what it gives). Nobody has to refuse or drop. `PendingTx`: time
passes and timers fire; only the mode without a deadline needs its calls
answered. `EventWatcher`: the stream is polled. `SendTransaction`,
`TransactionAssembly`, `Operations`, `ProviderStack`, `ContractCalls` and
`Multisig` make no liveness claim.

## 5. Proofs

tlapm checks `GrpcCoreProofs`, `SendTransactionProofs`, `PendingTxProofs`,
`TransactionAssemblyProofs`, `EventWatcherProofs`, `FillersProofs`,
`ContractCallsProofs` and `MultisigProofs`. All results hold for every value of the
constants that satisfies the named assumptions.

*GrpcCore.* The inductive invariant says that what a call holds is exactly the
prefix of the chain it entered (`HeldInv`), how deep it is by where it is suspended
(`EnteredInv`), and what is known of its attempts and last outcome (`AttemptInv`).
`OwedAfter` alone is not inductive: it says nothing of calls that are still
unwinding. From it follow type correctness, `OwedAfter`, `NestedBrackets`,
`ResendOnlyTransient`, and the refinement of `LogicalRpc`.

*SendTransaction.* Type correctness and `PendingWasTaken` hold for all callers, equal
payloads and re-broadcasts included. The latter rests on the matching of answers with
requests (`AnswersMatch`): a request in the inbox that carries the sender's newest
number carries its current transaction, every answer belongs to the broadcast under
way, and a positive one says that the node has the transaction or had it until it
expired. `NeverPaidTwice` and `NoIdNotTaken` are proved under `OneOwner` (payloads of
different senders differ) and `~MayRebroadcast`. `send_rebroadcast` shows that the
second is needed. So is the first: within the cache's TTL equal requests of two
senders become the same bytes, one refused as a duplicate of the other. No document
of the code promises otherwise. The invariant says that of all the transactions a
sender signed at most one is *live* - on the chain or still able to get there - and
that it is the current one while it is open; it needs the bookkeeping of requests and
replies (every reply belongs to a request that left the inbox) to be inductive.

*PendingTx.* The invariant ties a result to the end of the wait, bounds the
questions by the attempts, and equates "a question failed" with "an error is
kept". It gives `SolidReceiptIsFinal`, `TransientNeverFatal`, `NoEarlyTimeout` and
`TimeoutCarriesReason` for any number of waiters, budgets and faults.

*TransactionAssembly.* The invariant says that from extraction on the raw
transaction holds the requested contract alone, its id and expiration are those of
its bytes, and its signatures are over that id; it gives `SignaturesCoverWire`,
`WireIsRequested`, `ExpirationIsSigned`, `SignersAreDistinct` and
`StrictSignsAsOwner` for any wallet, request and answer.

*EventWatcher.* Everything rests on finality: a block that has its confirmations is
never replaced, by `FinalityAssumption`. The invariant
says that the cursors stay behind what is final (`Cursors`), that a scan under way
reads a final window, what it fetched is what the chain holds, and what it took so
far is complete, ascending and within the window (`Scan`), and that what was handed
out or queued is complete up to the cursor, what was handed out alone complete up to
the persisted one, and ascending as long as nothing crashed (`Told`). Fetches that
complete out of order leave `Scan` alone, since blocks are taken in order; a failed or
dropped scan leaves the cursor. It gives `NoneMissed`, `NoneReverted`, `InOrderOnce`
and `ResumeLosesNothing` for any window, concurrency, number of confirmations and
length of the chain.

*Fillers.* `Coalesced` needs to know that who fetches holds the mutex and found the
cache stale (`Locked`), that the cache holds the latest answer (`Latest`), and that
answers are spaced (`Spaced`). `NeverGuessed` needs what each place in the filler
chain has established of the build's energy, price and limit (`BuildOK`), and the
arithmetic of the checked multiplication and the clamp. `EstimateAskedUntilRefused`
needs that the flag is set exactly when some build was refused. All three hold for any
builds, lifetimes, bounds and numbers.

*ContractCalls.* Four invariants, all about what passes from a builder to the pool
and on to a block. `EstimateForesees`: the contract's code is an opaque function of
calldata, caller, value and ledger, and the estimate and the transaction are the same
question asked twice. `EstimateInv` keeps, for a builder and for a call in the pool,
that an estimate that is not stale is what execution would give now; the owner of a
request is the caller of the simulation. `LedgerAsAsked`: `MeantInv` keeps that the
calldata of every builder and of every call in the pool says the method and the
arguments that were asked for, and that a pooled call's owner is the account it was
made as; executing it then does to `ledger` and to `meant` the same. `ReadInv` keeps
the same of the types that a builder decodes with, which gives `ReadsTellTheLedger`
for every reply of a node, reverts told as successes included. `DeployInv` follows a deployment from the request to the
receipt and its report. What is proved is what the client does with the tables; what
the tables themselves say is a hypothesis on constants: that every encoding of a call
says that call (`EncodersAgree`), that every result is decoded with the method's types
(`DecodersAgree`), and that an ABI survives metadata and protobuf (`AbiSurvives`). TLC
evaluates the first two as assumptions of `contracts` and the third as part of
`DeployedAsGiven`, over all three contracts and all ABIs there are.

*Multisig.* Five invariants, since the properties are about separate pieces of state.
`KeystoreInv` says that a file is sealed with the key and the password it names,
whatever single field was damaged. `IterInv` says where an iterator stands, by
how often it was asked, for any set of paths over `0..MaxIndex`, the empty path
included. `SignInv` says
that a wallet keeps each key under its own address, that the alias names a KMS key,
and that signature number n of the transaction is by the nth address that was asked,
with a low s; both byte forms keep this, trial recovery refuses the key an alias moved
to, and the list of signers is taken without its repetitions. `GrantInv` says that
the account's permissions at the node spell, bit by bit, the ids that were granted, and
that a reading of them does as well or has lost them and is marked so. It is an
invariant of the two together: an amended reading is written back. Requests name at
most two keys and an account has at most two active permissions in this model, and the
lemmas on lists use this: what a list of any length is filtered to would need an
induction over the list. `ForecastInv` adds to `GrantInv` that every permission of the
account has at most three keys, of different addresses, and that a reading of it has
the same threshold and operations and the same keys, or all keys but the first, or was
lost, and says so in the last two cases. The client's weight is then that of the keys
on the transaction, each once, or a part of it, and the node's is the same when it
takes the transaction at all. Weights are sums over sets of signers, which are folds; for any length
equating two of them would be an induction over data, so the proof unfolds the sum for
three keys (`TotalOfThree`), as many as this model's accounts give a permission. The
lemmas on a forecast take any weights, thresholds, addresses and signatures; the
theorem is about the permissions this model offers (`Offers`), amended and read in any
order, for any parties, kinds, permission ids and number of signatures.

Only model-checked. All liveness (`EveryCallReturns`, `EveryWaitEnds`,
`EveryBuildEnds`, `EventuallyDelivered`): the prover has no fairness.
`LogsReadAsEmitted` compares lists of logs that are filtered by their event, with and
without an ABI: what a filter leaves of a list is an induction over the list, and the
rest is a computation on tables of events, which TLC does. The same goes
for `Operations` and `ProviderStack`, whose properties say that tables of the code
agree with each other. The four properties that are violated are shown by TLC's
counterexamples. Type correctness is proved for the five modules that state it
in a theorem and not checked again.

## 6. Not modelled

What cryptography computes (it is symbolic), byte-level encoding, base58 and the
arithmetic of amounts: pure functions of their arguments. Numbers and texts that the
codec copies from one field to another. Parsing of Solidity and of attributes by the
`sol!` macro, alloy's own decoders, and generated code. Making a random phrase and
writing it to a file. The mock transport and the capture of fixtures, which only
serve tests. Jitter of the back-off, which scales the sleep and decides nothing. Log
messages.
