---------------------------- MODULE WireMessages ----------------------------
(***************************************************************************)
(* The protobuf message each contract becomes, as the builder fields its   *)
(* tags hold, in the order of the tags (rpc-types/src/codec/mod.rs, and    *)
(* the staking methods of transport/grpc/fullnode.rs, which make their     *)
(* own).  A field that no builder has is derived: `owner`, `lock`,         *)
(* `start_time` and the like.                                              *)
(***************************************************************************)
EXTENDS TLC

\* transfer_to_proto, account_permission_update_to_proto,
\* create_smart_contract_to_proto: the nested SmartContract in place.
CoreMessages ==
    [Transfer |-> <<"owner", "to", "amount">>,
     AccountPermissionUpdate |-> <<"owner", "owner_permission", "witness", "actives">>,
     CreateSmartContract |-> <<"owner", "origin_address", "abi", "bytecode", "value",
        "consume_user_resource_percent", "name", "origin_energy_limit">>]

\* trigger_smart_contract_to_proto.
CallMessages ==
    [TriggerSmartContract |-> <<"owner", "address", "value", "data", "call_token_value",
        "token_id">>]

\* The messages the staking methods make themselves.
StakingMessages ==
    [FreezeBalanceV1 |-> <<"owner", "amount", "frozen_duration", "resource", "receiver">>,
     UnfreezeBalanceV1 |-> <<"owner", "resource", "receiver">>,
     FreezeBalanceV2 |-> <<"owner", "amount", "resource">>,
     UnfreezeBalanceV2 |-> <<"owner", "amount", "resource">>,
     DelegateResource |-> <<"owner", "resource", "amount", "to", "lock", "lock_period">>,
     UnDelegateResource |-> <<"owner", "resource", "amount", "receiver">>,
     WithdrawExpireUnfreeze |-> <<"owner">>,
     CancelAllUnfreezeV2 |-> <<"owner">>,
     WithdrawBalance |-> <<"owner">>]

\* asset_issue_to_proto to update_asset_to_proto.
AssetMessages ==
    [AssetIssue |-> <<"owner", "name", "abbr", "total_supply", "frozen_supply", "trx_num",
        "precision", "num", "start_time", "end_time", "description", "url",
        "free_asset_net_limit", "public_free_asset_net_limit">>,
     TransferAsset |-> <<"token_id", "owner", "to", "amount">>,
     ParticipateAssetIssue |-> <<"owner", "to", "token_id", "amount">>,
     UnfreezeAsset |-> <<"owner">>,
     UpdateAsset |-> <<"owner", "description", "url", "new_limit", "new_public_limit">>]

\* create_account_to_proto, vote_witness_to_proto, update_account_to_proto.
AccountMessages ==
    [CreateAccount |-> <<"owner", "account_address", "type">>,
     VoteWitness |-> <<"owner", "votes", "support">>,
     UpdateAccount |-> <<"name", "owner">>]

\* proposal_create_to_proto to proposal_delete_to_proto.
ProposalMessages ==
    [ProposalCreate |-> <<"owner", "parameters">>,
     ProposalApprove |-> <<"owner", "proposal_id", "approve">>,
     ProposalDelete |-> <<"owner", "proposal_id">>]

\* create_witness_to_proto to update_brokerage_to_proto.
WitnessMessages ==
    [CreateWitness |-> <<"owner", "url">>,
     UpdateWitness |-> <<"owner", "url">>,
     UpdateBrokerage |-> <<"owner", "brokerage">>]

\* set_account_id_to_proto to update_energy_limit_to_proto.
SettingMessages ==
    [SetAccountId |-> <<"account_id", "owner">>,
     ClearContractAbi |-> <<"owner", "contract_address">>,
     UpdateSetting |-> <<"owner", "contract_address", "consume_user_resource_percent">>,
     UpdateEnergyLimit |-> <<"owner", "contract_address", "origin_energy_limit">>]

\* exchange_create_to_proto to exchange_transaction_to_proto.
ExchangeMessages ==
    [ExchangeCreate |-> <<"owner", "first_token_id", "first_token_balance",
        "second_token_id", "second_token_balance">>,
     ExchangeInject |-> <<"owner", "exchange_id", "token_id", "quant">>,
     ExchangeWithdraw |-> <<"owner", "exchange_id", "token_id", "quant">>,
     ExchangeTransaction |-> <<"owner", "exchange_id", "token_id", "quant", "expected">>]

\* market_sell_asset_to_proto, market_cancel_order_to_proto.
MarketMessages ==
    [MarketSellAsset |-> <<"owner", "sell_token_id", "sell_token_quantity", "buy_token_id",
        "buy_token_quantity">>,
     MarketCancelOrder |-> <<"owner", "order_id">>]

Message ==
    CoreMessages @@ CallMessages @@ StakingMessages @@ AssetMessages @@ AccountMessages
    @@ ProposalMessages @@ WitnessMessages @@ SettingMessages @@ ExchangeMessages @@ MarketMessages
===============================================================================
