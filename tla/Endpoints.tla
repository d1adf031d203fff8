------------------------------ MODULE Endpoints ------------------------------
(***************************************************************************)
(* The reads a node offers, in the three places that say so by hand:       *)
(*   - the traits TronTransport and SolidityTransport give each method the *)
(*     shape of its result: a value, a lookup (Option) or a list (Vec);    *)
(*   - their gRPC implementations name the procedure and the conversion;   *)
(*   - the provider's methods and extensions say how a call gets there.    *)
(* The methods that build transactions are in Operations.                  *)
(***************************************************************************)
EXTENDS Replies, TLC

\* TronTransport, and the shapes in its order.
AccountShapes ==
    [get_now_block |-> "value", get_block_by_number |-> "lookup", get_account |-> "value",
     get_account_resource |-> "value", get_transaction_by_id |-> "lookup",
     get_transaction_info |-> "lookup", trigger_constant_contract |-> "value",
     estimate_energy |-> "value"]
StakingShapes ==
    [get_delegated_resource_v1 |-> "list", get_delegated_resource_index_v1 |-> "value",
     get_delegated_resource |-> "list", get_delegated_resource_index |-> "value",
     get_can_delegate_max |-> "value", get_reward |-> "value", get_chain_parameters |-> "value",
     get_contract |-> "value", get_contract_info |-> "value", list_witnesses |-> "list",
     get_paginated_now_witness_list |-> "list", list_proposals |-> "list",
     get_paginated_proposal_list |-> "list", get_proposal_by_id |-> "value"]
AssetShapes ==
    [get_asset_issue_by_id |-> "lookup", get_asset_issue_by_account |-> "list",
     get_paginated_asset_issue_list |-> "list", get_asset_issue_by_name |-> "lookup",
     get_asset_issue_list_by_name |-> "list"]
NetworkShapes ==
    [get_can_withdraw_unfreeze_amount |-> "value", get_available_unfreeze_count |-> "value",
     get_bandwidth_prices |-> "value", get_energy_prices |-> "value", get_memo_fee |-> "value",
     get_next_maintenance_time |-> "value", get_burn_trx |-> "value",
     get_total_transactions |-> "value", get_node_info |-> "value", list_nodes |-> "list",
     get_dynamic_properties |-> "value", get_block_by_id |-> "lookup",
     get_blocks_by_latest_num |-> "list", get_blocks_by_limit |-> "list",
     get_transaction_count_by_block_num |-> "value", get_transactions_from |-> "list",
     get_transactions_to |-> "list", get_transaction_info_by_block_num |-> "list",
     get_pending_size |-> "value", get_transaction_from_pending |-> "value",
     get_pending_transactions |-> "list", get_transaction_sign_weight |-> "value",
     get_transaction_approved_list |-> "list", get_account_net |-> "value",
     get_brokerage |-> "value", get_reward_info |-> "value"]
MarketShapes ==
    [list_exchanges |-> "list", get_paginated_exchange_list |-> "list",
     get_exchange_by_id |-> "lookup", get_market_order_by_id |-> "lookup",
     get_market_order_by_account |-> "list", get_market_price_by_pair |-> "list",
     get_market_order_list_by_pair |-> "list", get_market_pair_list |-> "list"]
Shape == AccountShapes @@ StakingShapes @@ AssetShapes @@ NetworkShapes @@ MarketShapes

-------------------------------------------------------------------------------
(* GrpcTransport: the procedure each method calls, and the conversion.     *)

Read(procedure, conversion) == [procedure |-> procedure, conversion |-> conversion]

AccountReads ==
    [get_now_block |-> Read("GetNowBlock2", BlockInfo),
     get_block_by_number |-> Read("GetBlockByNum2", BlockLookup),
     get_account |-> Read("GetAccount", Account),
     get_account_resource |-> Read("GetAccountResource", Verbatim)]
TransactionReads ==
    [get_transaction_by_id |-> Read("GetTransactionById", SignedTxLookup),
     get_transaction_info |-> Read("GetTransactionInfoById", TransactionInfo)]
ContractReads ==
    [trigger_constant_contract |-> Read("TriggerConstantContract", Verbatim),
     estimate_energy |-> Read("EstimateEnergy", Verbatim)]
StakingReads ==
    [get_delegated_resource_v1 |-> Read("GetDelegatedResource", DelegatedResource),
     get_delegated_resource_index_v1 |->
        Read("GetDelegatedResourceAccountIndex", DelegatedResourceIndex),
     get_delegated_resource |-> Read("GetDelegatedResourceV2", DelegatedResource),
     get_delegated_resource_index |->
        Read("GetDelegatedResourceAccountIndexV2", DelegatedResourceIndex),
     get_can_delegate_max |-> Read("GetCanDelegatedMaxSize", Verbatim),
     get_reward |-> Read("GetRewardInfo", Verbatim),
     get_chain_parameters |-> Read("GetChainParameters", Verbatim),
     get_contract |-> Read("GetContract", SmartContract),
     get_contract_info |-> Read("GetContractInfo", SmartContract),
     list_witnesses |-> Read("ListWitnesses", Witness),
     get_paginated_now_witness_list |-> Read("GetPaginatedNowWitnessList", Witness)]
ProposalReads ==
    [list_proposals |-> Read("ListProposals", Proposal),
     get_paginated_proposal_list |-> Read("GetPaginatedProposalList", Proposal),
     get_proposal_by_id |-> Read("GetProposalById", Proposal)]
AssetReads ==
    [get_asset_issue_by_id |-> Read("GetAssetIssueById", Asset),
     get_asset_issue_by_account |-> Read("GetAssetIssueByAccount", Asset),
     get_paginated_asset_issue_list |-> Read("GetPaginatedAssetIssueList", Asset),
     get_asset_issue_by_name |-> Read("GetAssetIssueByName", Asset),
     get_asset_issue_list_by_name |-> Read("GetAssetIssueListByName", Asset)]
NetworkReads ==
    [get_can_withdraw_unfreeze_amount |-> Read("GetCanWithdrawUnfreezeAmount", Verbatim),
     get_available_unfreeze_count |-> Read("GetAvailableUnfreezeCount", Verbatim),
     get_bandwidth_prices |-> Read("GetBandwidthPrices", Verbatim),
     get_energy_prices |-> Read("GetEnergyPrices", Verbatim),
     get_memo_fee |-> Read("GetMemoFee", Verbatim),
     get_next_maintenance_time |-> Read("GetNextMaintenanceTime", Verbatim),
     get_burn_trx |-> Read("GetBurnTrx", Verbatim),
     get_total_transactions |-> Read("TotalTransaction", Verbatim),
     get_node_info |-> Read("GetNodeInfo", Verbatim),
     list_nodes |-> Read("ListNodes", NodeAddress),
     get_dynamic_properties |-> Read("GetDynamicProperties", Verbatim)]
BlockReads ==
    [get_block_by_id |-> Read("GetBlockById", BlockLookupById),
     get_blocks_by_latest_num |-> Read("GetBlockByLatestNum2", BlockInfo),
     get_blocks_by_limit |-> Read("GetBlockByLimitNext2", BlockInfo),
     get_transaction_count_by_block_num |-> Read("GetTransactionCountByBlockNum", Verbatim),
     get_transactions_from |-> Read("GetTransactionsFromThis2", RawFromQueriedExtention),
     get_transactions_to |-> Read("GetTransactionsToThis2", RawFromQueriedExtention),
     get_transaction_info_by_block_num |-> Read("GetTransactionInfoByBlockNum", TransactionInfo)]
PoolReads ==
    [get_pending_size |-> Read("GetPendingSize", Verbatim),
     get_transaction_from_pending |-> Read("GetTransactionFromPending", RawFromPlain),
     get_pending_transactions |-> Read("GetTransactionListFromPending", RawFromPlain),
     get_transaction_sign_weight |-> Read("GetTransactionSignWeight", SignWeight),
     get_transaction_approved_list |-> Read("GetTransactionApprovedList", ApprovedAddress),
     get_account_net |-> Read("GetAccountNet", Verbatim)]
WitnessReads ==
    [get_brokerage |-> Read("GetBrokerageInfo", Verbatim),
     get_reward_info |-> Read("GetRewardInfo", Verbatim)]
ExchangeReads ==
    [list_exchanges |-> Read("ListExchanges", Exchange),
     get_paginated_exchange_list |-> Read("GetPaginatedExchangeList", Exchange),
     get_exchange_by_id |-> Read("GetExchangeById", ExchangeLookup)]
MarketReads ==
    [get_market_order_by_id |-> Read("GetMarketOrderById", MarketOrderLookup),
     get_market_order_by_account |-> Read("GetMarketOrderByAccount", MarketOrder),
     get_market_price_by_pair |-> Read("GetMarketPriceByPair", Verbatim),
     get_market_order_list_by_pair |-> Read("GetMarketOrderListByPair", MarketOrder),
     get_market_pair_list |-> Read("GetMarketPairList", Verbatim)]
FullNode == AccountReads @@ TransactionReads @@ ContractReads @@ StakingReads @@ ProposalReads
            @@ AssetReads @@ NetworkReads @@ BlockReads @@ PoolReads @@ WitnessReads
            @@ ExchangeReads @@ MarketReads
-------------------------------------------------------------------------------
(* SolidityTransport and SolidityGrpcTransport: the reads of solidified    *)
(* state, over the service WalletSolidity.                                 *)

SolidityShapes ==
    [get_now_block |-> "value", get_block_by_number |-> "lookup", get_account |-> "value",
     get_transaction_by_id |-> "lookup", get_transaction_info |-> "lookup",
     get_transaction_info_by_block_num |-> "list",
     get_transaction_count_by_block_num |-> "value", trigger_constant_contract |-> "value",
     estimate_energy |-> "value", list_witnesses |-> "list",
     get_paginated_now_witness_list |-> "list", get_delegated_resource_v1 |-> "list",
     get_delegated_resource_index_v1 |-> "value", get_delegated_resource |-> "list",
     get_delegated_resource_index |-> "value", get_can_delegate_max |-> "value",
     get_available_unfreeze_count |-> "value", get_can_withdraw_unfreeze_amount |-> "value"]
SolidityChainReads ==
    [get_now_block |-> Read("GetNowBlock2", BlockInfo),
     get_block_by_number |-> Read("GetBlockByNum2", BlockLookup),
     get_account |-> Read("GetAccount", Account),
     get_transaction_by_id |-> Read("GetTransactionById", SignedTxLookup),
     get_transaction_info |-> Read("GetTransactionInfoById", TransactionInfo),
     get_transaction_info_by_block_num |-> Read("GetTransactionInfoByBlockNum", TransactionInfo),
     get_transaction_count_by_block_num |-> Read("GetTransactionCountByBlockNum", Verbatim),
     trigger_constant_contract |-> Read("TriggerConstantContract", Verbatim),
     estimate_energy |-> Read("EstimateEnergy", Verbatim),
     list_witnesses |-> Read("ListWitnesses", Witness)]
SolidityStakingReads ==
    [get_paginated_now_witness_list |-> Read("GetPaginatedNowWitnessList", Witness),
     get_delegated_resource_v1 |-> Read("GetDelegatedResource", DelegatedResource),
     get_delegated_resource_index_v1 |->
        Read("GetDelegatedResourceAccountIndex", DelegatedResourceIndex),
     get_delegated_resource |-> Read("GetDelegatedResourceV2", DelegatedResource),
     get_delegated_resource_index |->
        Read("GetDelegatedResourceAccountIndexV2", DelegatedResourceIndex),
     get_can_delegate_max |-> Read("GetCanDelegatedMaxSize", Verbatim),
     get_available_unfreeze_count |-> Read("GetAvailableUnfreezeCount", Verbatim),
     get_can_withdraw_unfreeze_amount |-> Read("GetCanWithdrawUnfreezeAmount", Verbatim)]
Solidity == SolidityChainReads @@ SolidityStakingReads

\* The traits promise what the implementations give, and the node of
\* solidified state is asked for nothing the full node does not offer.
ASSUME ShapesAreServed == DOMAIN Shape = DOMAIN FullNode
ASSUME SolidityIsServed ==
    /\ DOMAIN SolidityShapes = DOMAIN Solidity
    /\ \A m \in DOMAIN Solidity : Solidity[m] = FullNode[m] /\ SolidityShapes[m] = Shape[m]
===============================================================================
