------------------------------- MODULE Replies -------------------------------
(***************************************************************************)
(* What the codec makes of a node's answer.  A protobuf message is known   *)
(* here by the fields a conversion looks at, each empty (absent, or of no  *)
(* bytes), ok, or bad: bytes of the wrong length, an address without its   *)
(* prefix, raw_data this build cannot preserve.  Numbers and texts that    *)
(* are carried over unread are left out.                                   *)
(*                                                                         *)
(* A conversion is told by what it does with its fields:                   *)
(*   absent    when all of these are empty the answer is "no such thing"   *)
(*   skip      one of these not ok, and the entry is passed over           *)
(*   required  one of these not ok, and the answer is malformed            *)
(*   strict    one of these bad, and the answer is malformed               *)
(*   lenient   a bad one is reported as an empty one                       *)
(***************************************************************************)
EXTENDS Integers, Sequences

FieldStates == {"empty", "ok", "bad"}

Absent == [kind |-> "absent"]
Malformed == [kind |-> "Malformed"]
Found(m) == [kind |-> "found", value |-> m]

Conversion(absent, skip, required, strict, lenient) ==
    [absent |-> absent, skip |-> skip, required |-> required, strict |-> strict,
     lenient |-> lenient]

FieldsOf(c) == UNION {c[part] : part \in DOMAIN c}
\* A field of a message that is not there is not there either.
Nested == {<<"raw_data", "block_header">>, <<"parent_hash", "raw_data">>,
           <<"tx_trie_root", "raw_data">>, <<"witness_address", "raw_data">>,
           <<"raw_data", "transaction">>, <<"signature", "transaction">>}
Messages(c) ==
    {m \in [FieldsOf(c) -> FieldStates] :
        \A n \in Nested :
            {n[1], n[2]} \subseteq FieldsOf(c) /\ m[n[2]] = "empty" => m[n[1]] = "empty"}
Empty(m) == \A f \in DOMAIN m : m[f] = "empty"

Lenient(c, m) ==
    [f \in DOMAIN m |-> IF f \in c.lenient /\ m[f] = "bad" THEN "empty" ELSE m[f]]

Convert(c, m) ==
    CASE c.absent # {} /\ \A f \in c.absent : m[f] = "empty" -> Absent
      [] \E f \in c.skip : m[f] # "ok" -> Absent
      [] \E f \in c.required : m[f] # "ok" -> Malformed
      [] \E f \in c.strict : m[f] = "bad" -> Malformed
      [] OTHER -> Found(Lenient(c, m))

\* A list is read entry by entry: absent ones are filtered out and the first
\* malformed one fails it.
ConvertAll(c, ms) ==
    IF \E i \in DOMAIN ms : Convert(c, ms[i]) = Malformed THEN Malformed
    ELSE Found(SelectSeq([i \in DOMAIN ms |-> Convert(c, ms[i])], LAMBDA r : r # Absent))

-------------------------------------------------------------------------------
(* Mutated forms.                                                          *)

\* A transaction without raw_data is one that is not there.
SignedTxLookupByRawData ==
    Conversion({"raw_data"}, {}, {"raw_data"}, {"signature"}, {"ret"})
\* A receipt with an unreadable log is passed over.
TransactionInfoSkipping ==
    Conversion({"id"}, {"log_address"}, {"id"}, {"internal_hash"}, {"contract_address", "topics"})

-------------------------------------------------------------------------------
(* The conversions, by the function that makes them.                       *)

\* light_block.rs, a view of a block without its transactions.  A block asked for by its id may leave the id out, and the
\* id of the answer is not compared with the one asked for.
BlockInfo ==
    Conversion({}, {}, {"block_header", "raw_data", "block_id"},
               {"parent_hash", "tx_trie_root", "witness_address"}, {})
BlockLookup == [BlockInfo EXCEPT !.absent = {"block_header", "block_id"}]
BlockLookupById ==
    [BlockLookup EXCEPT !.required = @ \ {"block_id"}, !.strict = @ \cup {"block_id"}]

\* Transactions.  raw_data is bad when it hashes to another id than the one asked
\* for too, and an extention's tx_id when it is not the hash of its raw_data.
SignedTxLookup ==
    Conversion({"raw_data", "signature", "ret"}, {}, {"raw_data"}, {"signature"}, {})
RawFromPlain == Conversion({}, {}, {"raw_data"}, {"signature"}, {})
RawFromQueriedExtention ==
    Conversion({}, {}, {"transaction", "raw_data"}, {"tx_id", "signature"}, {})

\* Receipts.  A log's address is 20 bytes or an address; a topic of the wrong
\* length becomes zero.
TransactionInfo ==
    Conversion({"id"}, {}, {"id"}, {"log_address", "internal_hash"},
               {"contract_address", "topics", "caller_address", "transfer_to_address"})

Account ==
    Conversion({}, {}, {}, {"address"},
               {"frozen_v2", "votes", "permission_operations", "permission_keys"})
SmartContract == Conversion({}, {}, {}, {}, {"contract_address", "origin_address"})
Witness == Conversion({}, {"address"}, {}, {}, {})
DelegatedResource == Conversion({}, {}, {"from", "to"}, {}, {})
DelegatedResourceIndex == Conversion({}, {}, {"account"}, {}, {"from_accounts", "to_accounts"})
Asset == Conversion({"id"}, {}, {"owner_address"}, {}, {})
Proposal == Conversion({}, {}, {}, {}, {"proposer_address", "approvals"})
Exchange == Conversion({}, {}, {"creator_address"}, {}, {})
ExchangeLookup == [Exchange EXCEPT !.absent = {"exchange_id", "creator_address"}]
MarketOrder == Conversion({}, {}, {"order_id", "owner_address"}, {}, {})
MarketOrderLookup == [MarketOrder EXCEPT !.absent = {"order_id"}]
ApprovedAddress == Conversion({}, {}, {"address"}, {}, {})
SignWeight == Conversion({}, {}, {}, {"approved_list"}, {})
NodeAddress == Conversion({}, {"address"}, {}, {}, {})
\* Answers whose numbers and texts are carried over as they come: resources,
\* prices, counters, parameters, market pairs and prices, node and chain info.
Verbatim == Conversion({}, {}, {}, {}, {"content"})

\* A count is an int64 on the wire and `as u64` to the caller, at width W.
AsUnsigned(n, W) == IF n < 0 THEN n + 2^W ELSE n

-------------------------------------------------------------------------------
(* The verdict of a receipt: the top-level result, and the contract's own  *)
(* code, of which all but Default and Success are failures.                *)

ContractResult == 0..16     \* 16 for a code this build does not know
IsFailure(code) == code \notin {0, 1}
Status(result, code) == IF result # 0 \/ IsFailure(code) THEN "Failed" ELSE "Success"

\* A constant call: the node's Return, when there is one, says whether the
\* call went through; a refusal with an output is a revert, without one an error.
ConstantResult(return, output) ==
    CASE return = "none" \/ return = "true" -> [kind |-> "output", value |-> output]
      [] output = "empty" -> [kind |-> "NodeError"]
      [] OTHER -> [kind |-> "revert", value |-> output]
===============================================================================
