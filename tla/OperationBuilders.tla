-------------------------- MODULE OperationBuilders --------------------------
(***************************************************************************)
(* The typed builders (provider/src/builders, provider/src/ext, and the    *)
(* contract crate's call and deploy), one definition each:                 *)
(*   contract   the ContractType it describes                              *)
(*   required   what into_request insists on, in the order it looks        *)
(*   optional   its other fields and what `new` puts in them               *)
(*   request    the TransactionRequest fields it can set                   *)
(* A field holds a sequence: <<>> is None or an empty list, <<v>> a value. *)
(* `from` is there in all of them and is not listed.                       *)
(***************************************************************************)
EXTENDS Sequences

Builder(contract, required, optional, request) ==
    [contract |-> contract, required |-> required, optional |-> optional, request |-> request]

None == <<>>
NoFields == [f \in {} |-> None]
Energy == <<1>>             \* ResourceCode::Energy; Bandwidth is the default, 0
Permission == {"permission_id"}
Noted == {"permission_id", "memo"}
Limited == {"permission_id", "fee_limit"}

-------------------------------------------------------------------------------
(* provider/src/builders                                                   *)

TransferBuilder ==
    Builder("Transfer", <<"to", "amount">>, NoFields, Noted)
CreateAccountBuilder ==
    Builder("CreateAccount", <<"account_address">>, NoFields, Noted)
UpdateAccountBuilder ==
    Builder("UpdateAccount", <<"name">>, NoFields, Noted)
SetAccountIdBuilder ==
    Builder("SetAccountId", <<"account_id">>, NoFields, Noted)
ClearContractAbiBuilder ==
    Builder("ClearContractAbi", <<"contract_address">>, NoFields, Noted)
UpdateContractSettingBuilder ==
    Builder("UpdateSetting", <<"contract_address", "consume_user_resource_percent">>, NoFields, Noted)
UpdateContractEnergyLimitBuilder ==
    Builder("UpdateEnergyLimit", <<"contract_address", "origin_energy_limit">>, NoFields, Noted)
DelegateBuilder ==
    Builder("DelegateResource", <<"to", "amount">>, [resource |-> Energy, lock_period |-> None], Permission)
UndelegateBuilder ==
    Builder("UnDelegateResource", <<"receiver", "amount">>, [resource |-> Energy], Permission)
FreezeV1Builder ==
    Builder("FreezeBalanceV1", <<"amount">>,
            [resource |-> Energy, frozen_duration |-> <<3>>, receiver |-> None], Permission)
UnfreezeV1Builder ==
    Builder("UnfreezeBalanceV1", <<>>, [resource |-> Energy, receiver |-> None], Permission)
FreezeBuilder ==
    Builder("FreezeBalanceV2", <<"amount">>, [resource |-> Energy], Permission)
UnfreezeBuilder ==
    Builder("UnfreezeBalanceV2", <<"amount">>, [resource |-> Energy], Permission)
AccountPermissionUpdateBuilder ==
    Builder("AccountPermissionUpdate", <<>>,
            [owner_permission |-> None, witness |-> None, actives |-> None], Permission)
WithdrawBalanceBuilder ==
    Builder("WithdrawBalance", <<>>, NoFields, Permission)
VoteBuilder ==
    Builder("VoteWitness", <<>>, [votes |-> None], Noted)
WithdrawExpireBuilder ==
    Builder("WithdrawExpireUnfreeze", <<>>, NoFields, Permission)
CancelAllUnfreezeBuilder ==
    Builder("CancelAllUnfreezeV2", <<>>, NoFields, Permission)

-------------------------------------------------------------------------------
(* provider/src/ext                                                        *)

TransferTrc10Builder ==
    Builder("TransferAsset", <<"to", "token_id", "amount">>, NoFields, Noted)
\* Times in minutes.
IssueTrc10Builder ==
    Builder("AssetIssue", <<"name", "abbr", "url", "total_supply">>,
            [description |-> <<0>>, precision |-> <<0>>, exchange_rate |-> <<1, 1>>,
             start_offset |-> <<5>>, duration |-> <<43200>>, free_asset_net_limit |-> <<0>>,
             public_free_asset_net_limit |-> <<0>>, frozen_supply |-> None], Permission)
ParticipateTrc10Builder ==
    Builder("ParticipateAssetIssue", <<"to", "token_id", "amount">>, NoFields, Noted)
UnfreezeTrc10Builder ==
    Builder("UnfreezeAsset", <<>>, NoFields, Noted)
UpdateTrc10Builder ==
    Builder("UpdateAsset", <<"url">>,
            [description |-> <<0>>, new_limit |-> <<0>>, new_public_limit |-> <<0>>], Noted)
ExchangeCreateBuilder ==
    Builder("ExchangeCreate",
            <<"first_token_id", "first_token_balance", "second_token_id", "second_token_balance">>,
            NoFields, Noted)
ExchangeInjectBuilder ==
    Builder("ExchangeInject", <<"exchange_id", "token_id", "quant">>, NoFields, Noted)
ExchangeWithdrawBuilder ==
    Builder("ExchangeWithdraw", <<"exchange_id", "token_id", "quant">>, NoFields, Noted)
ExchangeTradeBuilder ==
    Builder("ExchangeTransaction", <<"exchange_id", "token_id", "quant", "expected">>, NoFields, Noted)
MarketSellBuilder ==
    Builder("MarketSellAsset",
            <<"sell_token_id", "sell_token_quantity", "buy_token_id", "buy_token_quantity">>,
            NoFields, Noted)
MarketCancelBuilder ==
    Builder("MarketCancelOrder", <<"order_id">>, NoFields, Noted)
SubmitProposalBuilder ==
    Builder("ProposalCreate", <<"parameters">>, NoFields, Noted)
ApproveProposalBuilder ==
    Builder("ProposalApprove", <<"proposal_id">>, [approve |-> <<1>>], Noted)
CancelProposalBuilder ==
    Builder("ProposalDelete", <<"proposal_id">>, NoFields, Noted)
BecomeWitnessBuilder ==
    Builder("CreateWitness", <<"url">>, NoFields, Noted)
UpdateWitnessBuilder ==
    Builder("UpdateWitness", <<"url">>, NoFields, Noted)
UpdateBrokerageBuilder ==
    Builder("UpdateBrokerage", <<"brokerage">>, NoFields, Noted)

-------------------------------------------------------------------------------
(* The contract crate.  `address`, `data` and `bytecode` are arguments of  *)
(* `new` and have no setter.                                               *)

CallBuilder ==
    Builder("TriggerSmartContract", <<>>,
            [address |-> <<1>>, data |-> <<1>>, value |-> <<0>>, token |-> <<0, 0>>], Limited)
DeployBuilder ==
    Builder("CreateSmartContract", <<>>,
            [bytecode |-> <<1>>, abi |-> <<0>>, value |-> <<0>>,
             consume_user_resource_percent |-> <<100>>, name |-> <<0>>,
             origin_energy_limit |-> <<10000000>>], Limited)

Builders ==
    {TransferBuilder, CreateAccountBuilder, UpdateAccountBuilder, SetAccountIdBuilder,
     ClearContractAbiBuilder, UpdateContractSettingBuilder, UpdateContractEnergyLimitBuilder,
     DelegateBuilder, UndelegateBuilder, FreezeV1Builder, UnfreezeV1Builder, FreezeBuilder,
     UnfreezeBuilder, AccountPermissionUpdateBuilder, WithdrawBalanceBuilder, VoteBuilder,
     WithdrawExpireBuilder, CancelAllUnfreezeBuilder, TransferTrc10Builder, IssueTrc10Builder,
     ParticipateTrc10Builder, UnfreezeTrc10Builder, UpdateTrc10Builder, ExchangeCreateBuilder,
     ExchangeInjectBuilder, ExchangeWithdrawBuilder, ExchangeTradeBuilder, MarketSellBuilder,
     MarketCancelBuilder, SubmitProposalBuilder, ApproveProposalBuilder, CancelProposalBuilder,
     BecomeWitnessBuilder, UpdateWitnessBuilder, UpdateBrokerageBuilder, CallBuilder,
     DeployBuilder}
===============================================================================
