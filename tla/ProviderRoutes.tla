---------------------------- MODULE ProviderRoutes ----------------------------
(***************************************************************************)
(* Where the default of each provider method goes: "inner" is the same     *)
(* method one step down, and `to` on the transport at the root; "self" is  *)
(* the method `to` of the same provider; "transport" is the transport at   *)
(* once, whatever lies between.                                            *)
(***************************************************************************)
EXTENDS Endpoints

Route(via, to) == [via |-> via, to |-> to]
ByInner(names) == [m \in names |-> Route("inner", m)]

-------------------------------------------------------------------------------
(* The default methods of TronProvider, in its order, with the transport   *)
(* method each reaches.                                                    *)

ChainRoutes ==
    ByInner({"get_now_block", "get_block_by_number", "get_account", "get_account_resource"})
    @@ [get_transaction |-> Route("inner", "get_transaction_by_id"),
        get_transaction_info |-> Route("self", "transaction_info")]
StakingRoutes ==
    ByInner({"get_delegated_resource_v1", "get_delegated_resource_index_v1",
             "get_delegated_resource", "get_delegated_resource_index", "get_can_delegate_max",
             "get_reward", "get_contract_info", "list_witnesses",
             "get_paginated_now_witness_list"})
    @@ [chain_parameters |-> Route("inner", "get_chain_parameters")]
NetworkRoutes ==
    ByInner({"get_bandwidth_prices", "get_energy_prices", "get_memo_fee",
             "get_next_maintenance_time", "get_burn_trx", "get_total_transactions",
             "get_node_info", "list_nodes", "get_dynamic_properties"})
    @@ [get_energy_price |-> Route("self", "get_energy_prices")]
BlockRoutes ==
    ByInner({"get_block_by_id", "get_blocks_by_latest_num", "get_blocks_by_limit",
             "get_transaction_count_by_block_num", "get_transactions_from",
             "get_transactions_to"})
    @@ [get_transaction_info_by_block_num |-> Route("self", "transaction_infos_by_block")]
PoolRoutes ==
    ByInner({"get_pending_size", "get_transaction_from_pending", "get_pending_transactions",
             "get_transaction_sign_weight", "get_transaction_approved_list", "get_account_net",
             "get_brokerage", "get_reward_info"})
UnfreezeRoutes ==
    ByInner({"get_can_withdraw_unfreeze_amount", "get_available_unfreeze_count"})
    @@ [estimate_energy |-> Route("self", "estimate_contract_energy")]
\* Who the provider speaks for: signer_address, and default_caller of reads.
IdentityRoutes == ByInner({"signer_address", "default_caller"})
\* send_transaction has no transport to reach: at the root there is no signer.
SendRoutes ==
    [send_transaction |-> Route("inner", "no_signer"),
     build_transaction |-> Route("inner", "build"),
     broadcast |-> Route("inner", "broadcast_transaction")]
\* ContractReadProvider: inner_read plays the part of inner.
ContractRoutes ==
    [call_contract |-> Route("inner", "trigger_constant_contract"),
     estimate_contract_energy |-> Route("inner", "estimate_energy"),
     transaction_info |-> Route("inner", "get_transaction_info"),
     transaction_infos_by_block |-> Route("inner", "get_transaction_info_by_block_num")]

(* The extension traits, implemented for every provider.                   *)

Trc10Api ==
    [get_asset_info |-> Route("transport", "get_asset_issue_by_id"),
     get_asset_issue_by_account |-> Route("transport", "get_asset_issue_by_account"),
     get_asset_issue_list |-> Route("transport", "get_paginated_asset_issue_list"),
     trc10_balance |-> Route("self", "get_account"),
     get_asset_issue_by_name |-> Route("transport", "get_asset_issue_by_name"),
     get_asset_issue_list_by_name |-> Route("transport", "get_asset_issue_list_by_name")]
ExchangeApi ==
    [m \in {"list_exchanges", "get_paginated_exchange_list", "get_exchange_by_id"} |->
        Route("transport", m)]
MarketApi ==
    [m \in {"get_market_order_by_id", "get_market_order_by_account",
            "get_market_price_by_pair", "get_market_order_list_by_pair",
            "get_market_pair_list"} |-> Route("transport", m)]
GovernanceApi ==
    [m \in {"list_proposals", "get_paginated_proposal_list", "get_proposal_by_id"} |->
        Route("transport", m)]
WitnessApi ==
    [witness_list_witnesses |-> Route("self", "list_witnesses"),
     witness_get_brokerage |-> Route("transport", "get_brokerage"),
     witness_get_reward_info |-> Route("transport", "get_reward_info")]

\* SolidityProvider: no stack, every method goes to its transport.
SolidityRoutes ==
    [m \in DOMAIN Solidity \ {"get_transaction_by_id"} |-> m]
    @@ [get_transaction |-> "get_transaction_by_id", call_contract |-> "trigger_constant_contract",
        estimate_contract_energy |-> "estimate_energy", transaction_info |-> "get_transaction_info",
        transaction_infos_by_block |-> "get_transaction_info_by_block_num"]

Defaults == ChainRoutes @@ StakingRoutes @@ NetworkRoutes @@ BlockRoutes @@ PoolRoutes
            @@ UnfreezeRoutes @@ IdentityRoutes @@ SendRoutes @@ ContractRoutes
Extensions == Trc10Api @@ ExchangeApi @@ MarketApi @@ GovernanceApi @@ WitnessApi
Routes == Defaults @@ Extensions
===============================================================================
