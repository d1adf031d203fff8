---------------------------- MODULE ContractKinds ----------------------------
(***************************************************************************)
(* The tables an operation passes through: the number of its contract kind *)
(* (rpc-types/src/types/contract.rs), the transport method that builds it  *)
(* (build_via_transport), the remote procedure that method calls and the   *)
(* kind it compares the answer with (transport/grpc/fullnode.rs).  Each    *)
(* was written on its own in the code, and they have to agree.             *)
(***************************************************************************)
EXTENDS Naturals, TLC

\* ContractKind::id
KindId ==
    [CreateAccount |-> 0, Transfer |-> 1, TransferAsset |-> 2, VoteAsset |-> 3,
     VoteWitness |-> 4, CreateWitness |-> 5, AssetIssue |-> 6, UpdateWitness |-> 8,
     ParticipateAssetIssue |-> 9, UpdateAccount |-> 10, FreezeBalanceV1 |-> 11,
     UnfreezeBalanceV1 |-> 12, WithdrawBalance |-> 13, UnfreezeAsset |-> 14,
     UpdateAsset |-> 15, ProposalCreate |-> 16, ProposalApprove |-> 17,
     ProposalDelete |-> 18, SetAccountId |-> 19, Custom |-> 20,
     CreateSmartContract |-> 30, TriggerSmartContract |-> 31, GetContract |-> 32,
     UpdateSetting |-> 33, ExchangeCreate |-> 41, ExchangeInject |-> 42,
     ExchangeWithdraw |-> 43, ExchangeTransaction |-> 44, UpdateEnergyLimit |-> 45,
     AccountPermissionUpdate |-> 46, ClearContractAbi |-> 48, UpdateBrokerage |-> 49,
     ShieldedTransfer |-> 51, MarketSellAsset |-> 52, MarketCancelOrder |-> 53,
     FreezeBalanceV2 |-> 54, UnfreezeBalanceV2 |-> 55, WithdrawExpireUnfreeze |-> 56,
     DelegateResource |-> 57, UnDelegateResource |-> 58, CancelAllUnfreezeV2 |-> 59]

ContractKind == DOMAIN KindId

\* From<i32>: the same pairs read backwards, and a number nobody has is kept.
FromId(n) ==
    IF \E k \in ContractKind : KindId[k] = n
    THEN CHOOSE k \in ContractKind : KindId[k] = n
    ELSE "Unknown"

\* Mutated form: every message is taken to start with its owner.
OwnerFieldFirst(kind) == 1

\* ContractKind::owner_field: the tag of the owner in the kind's message, 0
\* when there is none.
OwnerField(kind) ==
    CASE kind \in {"TransferAsset", "UpdateAccount", "SetAccountId"} -> 2
      [] kind \in {"ShieldedTransfer", "Custom", "GetContract", "Unknown"} -> 0
      [] OTHER -> 1

-------------------------------------------------------------------------------
\* build_via_transport: the transport method for each ContractType.
Dispatch ==
    [Transfer |-> "transfer_trx", TriggerSmartContract |-> "trigger_smart_contract",
     FreezeBalanceV1 |-> "freeze_balance_v1", UnfreezeBalanceV1 |-> "unfreeze_balance_v1",
     FreezeBalanceV2 |-> "freeze_balance_v2", UnfreezeBalanceV2 |-> "unfreeze_balance_v2",
     DelegateResource |-> "delegate_resource", UnDelegateResource |-> "undelegate_resource",
     WithdrawExpireUnfreeze |-> "withdraw_expire_unfreeze",
     CancelAllUnfreezeV2 |-> "cancel_all_unfreeze_v2", WithdrawBalance |-> "withdraw_balance",
     AccountPermissionUpdate |-> "account_permission_update",
     CreateSmartContract |-> "create_smart_contract", AssetIssue |-> "create_asset_issue",
     TransferAsset |-> "transfer_asset", ParticipateAssetIssue |-> "participate_asset_issue",
     UnfreezeAsset |-> "unfreeze_asset", UpdateAsset |-> "update_asset",
     CreateAccount |-> "create_account", VoteWitness |-> "vote_witness_account",
     UpdateAccount |-> "update_account", ProposalCreate |-> "proposal_create",
     ProposalApprove |-> "proposal_approve", ProposalDelete |-> "proposal_delete",
     CreateWitness |-> "create_witness", UpdateWitness |-> "update_witness",
     UpdateBrokerage |-> "update_brokerage", SetAccountId |-> "set_account_id",
     ClearContractAbi |-> "clear_contract_abi", UpdateSetting |-> "update_setting",
     UpdateEnergyLimit |-> "update_energy_limit", ExchangeCreate |-> "exchange_create",
     ExchangeInject |-> "exchange_inject", ExchangeWithdraw |-> "exchange_withdraw",
     ExchangeTransaction |-> "exchange_transaction", MarketSellAsset |-> "market_sell_asset",
     MarketCancelOrder |-> "market_cancel_order"]

ContractType == DOMAIN Dispatch

(***************************************************************************)
(* The methods of GrpcTransport: the procedure each one calls and the kind *)
(* it compares the answer with.                                            *)
(***************************************************************************)
Method(rpc, kind) == [rpc |-> rpc, compares |-> kind]

CoreMethods ==
    [transfer_trx |-> Method("create_transaction2", "Transfer"),
     account_permission_update |-> Method("account_permission_update", "AccountPermissionUpdate"),
     create_smart_contract |-> Method("deploy_contract", "CreateSmartContract"),
     trigger_smart_contract |-> Method("trigger_contract", "TriggerSmartContract")]

StakingMethods ==
    [freeze_balance_v1 |-> Method("freeze_balance2", "FreezeBalanceV1"),
     unfreeze_balance_v1 |-> Method("unfreeze_balance2", "UnfreezeBalanceV1"),
     freeze_balance_v2 |-> Method("freeze_balance_v2", "FreezeBalanceV2"),
     unfreeze_balance_v2 |-> Method("unfreeze_balance_v2", "UnfreezeBalanceV2"),
     delegate_resource |-> Method("delegate_resource", "DelegateResource"),
     undelegate_resource |-> Method("un_delegate_resource", "UnDelegateResource"),
     withdraw_expire_unfreeze |-> Method("withdraw_expire_unfreeze", "WithdrawExpireUnfreeze"),
     cancel_all_unfreeze_v2 |-> Method("cancel_all_unfreeze_v2", "CancelAllUnfreezeV2"),
     withdraw_balance |-> Method("withdraw_balance2", "WithdrawBalance")]

ProposalMethods ==
    [proposal_create |-> Method("proposal_create", "ProposalCreate"),
     proposal_approve |-> Method("proposal_approve", "ProposalApprove"),
     proposal_delete |-> Method("proposal_delete", "ProposalDelete")]

AssetMethods ==
    [create_asset_issue |-> Method("create_asset_issue2", "AssetIssue"),
     transfer_asset |-> Method("transfer_asset2", "TransferAsset")]

AssetSaleMethods ==
    [participate_asset_issue |-> Method("participate_asset_issue2", "ParticipateAssetIssue"),
     unfreeze_asset |-> Method("unfreeze_asset2", "UnfreezeAsset"),
     update_asset |-> Method("update_asset2", "UpdateAsset")]

\* set_account_id compares nothing: raw_from_plain.
AccountMethods ==
    [create_account |-> Method("create_account2", "CreateAccount"),
     vote_witness_account |-> Method("vote_witness_account2", "VoteWitness"),
     update_account |-> Method("update_account2", "UpdateAccount"),
     set_account_id |-> Method("set_account_id", "nothing"),
     clear_contract_abi |-> Method("clear_contract_abi", "ClearContractAbi"),
     update_setting |-> Method("update_setting", "UpdateSetting"),
     update_energy_limit |-> Method("update_energy_limit", "UpdateEnergyLimit")]

WitnessMethods ==
    [create_witness |-> Method("create_witness2", "CreateWitness"),
     update_witness |-> Method("update_witness2", "UpdateWitness"),
     update_brokerage |-> Method("update_brokerage", "UpdateBrokerage")]

ExchangeMethods ==
    [exchange_create |-> Method("exchange_create", "ExchangeCreate"),
     exchange_inject |-> Method("exchange_inject", "ExchangeInject"),
     exchange_withdraw |-> Method("exchange_withdraw", "ExchangeWithdraw"),
     exchange_transaction |-> Method("exchange_transaction", "ExchangeTransaction")]

MarketMethods ==
    [market_sell_asset |-> Method("market_sell_asset", "MarketSellAsset"),
     market_cancel_order |-> Method("market_cancel_order", "MarketCancelOrder")]

\* Mutated form: undelegating calls the procedure that delegates.
GrpcMethodsCopied ==
    [undelegate_resource |-> Method("delegate_resource", "UnDelegateResource")]
    @@ CoreMethods @@ StakingMethods @@ ProposalMethods @@ AssetMethods @@ AssetSaleMethods
    @@ AccountMethods @@ WitnessMethods @@ ExchangeMethods @@ MarketMethods

GrpcMethods ==
    CoreMethods @@ StakingMethods @@ ProposalMethods @@ AssetMethods @@ AssetSaleMethods
    @@ AccountMethods @@ WitnessMethods @@ ExchangeMethods @@ MarketMethods

\* The node: the kind of contract each of its procedures builds.
ProcedureBuilds ==
    [create_transaction2 |-> "Transfer", account_permission_update |-> "AccountPermissionUpdate",
     deploy_contract |-> "CreateSmartContract", trigger_contract |-> "TriggerSmartContract",
     freeze_balance2 |-> "FreezeBalanceV1", unfreeze_balance2 |-> "UnfreezeBalanceV1",
     freeze_balance_v2 |-> "FreezeBalanceV2", unfreeze_balance_v2 |-> "UnfreezeBalanceV2",
     delegate_resource |-> "DelegateResource", un_delegate_resource |-> "UnDelegateResource",
     withdraw_expire_unfreeze |-> "WithdrawExpireUnfreeze",
     cancel_all_unfreeze_v2 |-> "CancelAllUnfreezeV2", withdraw_balance2 |-> "WithdrawBalance",
     proposal_create |-> "ProposalCreate", proposal_approve |-> "ProposalApprove",
     proposal_delete |-> "ProposalDelete", create_asset_issue2 |-> "AssetIssue",
     transfer_asset2 |-> "TransferAsset", participate_asset_issue2 |-> "ParticipateAssetIssue",
     unfreeze_asset2 |-> "UnfreezeAsset", update_asset2 |-> "UpdateAsset",
     create_account2 |-> "CreateAccount", vote_witness_account2 |-> "VoteWitness",
     update_account2 |-> "UpdateAccount", set_account_id |-> "SetAccountId",
     clear_contract_abi |-> "ClearContractAbi", update_setting |-> "UpdateSetting",
     update_energy_limit |-> "UpdateEnergyLimit", create_witness2 |-> "CreateWitness",
     update_witness2 |-> "UpdateWitness", update_brokerage |-> "UpdateBrokerage",
     exchange_create |-> "ExchangeCreate", exchange_inject |-> "ExchangeInject",
     exchange_withdraw |-> "ExchangeWithdraw", exchange_transaction |-> "ExchangeTransaction",
     market_sell_asset |-> "MarketSellAsset", market_cancel_order |-> "MarketCancelOrder"]
===============================================================================
