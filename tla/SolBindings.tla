----------------------------- MODULE SolBindings -----------------------------
(***************************************************************************)
(* How a call becomes calldata: the interfaces ITRC20 and ITRC721 and the  *)
(* instances written by hand over them, the free encoders and decoders,    *)
(* and the instance that tron_sol! generates for a contract.               *)
(* Calldata is [selector, args]; a selector stands for its signature.      *)
(***************************************************************************)
EXTENDS TronAbi

Addr(name) == TronAbiParam(name, <<"address">>, FALSE)
Uint(name) == TronAbiParam(name, <<"uint256">>, FALSE)
Of(ty) == <<TronAbiParam("", <<ty>>, FALSE)>>
Indexed(p) == [p EXCEPT !.indexed = TRUE]

Fn(name, inputs, outputs, mutability) ==
    [name |-> name, inputs |-> inputs, outputs |-> outputs, mutability |-> mutability, anonymous |-> FALSE]
Event(name, inputs, anonymous) ==
    [name |-> name, inputs |-> inputs, outputs |-> <<>>, mutability |-> Unknown[0], anonymous |-> anonymous]

-------------------------------------------------------------------------------
(* The two token interfaces, as sol! reads them.                           *)

ITRC20 ==
    [functions |->
        <<Fn("name", <<>>, Of("string"), "View"), Fn("symbol", <<>>, Of("string"), "View"),
          Fn("decimals", <<>>, Of("uint8"), "View"), Fn("totalSupply", <<>>, Of("uint256"), "View"),
          Fn("balanceOf", <<Addr("account")>>, Of("uint256"), "View"),
          Fn("transfer", <<Addr("to"), Uint("amount")>>, Of("bool"), "NonPayable"),
          Fn("approve", <<Addr("spender"), Uint("amount")>>, Of("bool"), "NonPayable"),
          Fn("allowance", <<Addr("owner"), Addr("spender")>>, Of("uint256"), "View"),
          Fn("transferFrom", <<Addr("from"), Addr("to"), Uint("amount")>>, Of("bool"), "NonPayable")>>,
     events |->
        <<Event("Transfer", <<Indexed(Addr("from")), Indexed(Addr("to")), Uint("value")>>, FALSE),
          Event("Approval", <<Indexed(Addr("owner")), Indexed(Addr("spender")), Uint("value")>>, FALSE)>>]

ITRC721 ==
    [functions |->
        <<Fn("balanceOf", <<Addr("owner")>>, Of("uint256"), "View"),
          Fn("ownerOf", <<Uint("tokenId")>>, Of("address"), "View"),
          Fn("transferFrom", <<Addr("from"), Addr("to"), Uint("tokenId")>>, <<>>, "NonPayable"),
          Fn("approve", <<Addr("to"), Uint("tokenId")>>, <<>>, "NonPayable"),
          Fn("getApproved", <<Uint("tokenId")>>, Of("address"), "View"),
          Fn("setApprovalForAll", <<Addr("operator"), TronAbiParam("approved", <<"bool">>, FALSE)>>,
             <<>>, "NonPayable"),
          Fn("isApprovedForAll", <<Addr("owner"), Addr("operator")>>, Of("bool"), "View"),
          Fn("safeTransferFrom", <<Addr("from"), Addr("to"), Uint("tokenId")>>, <<>>, "NonPayable"),
          Fn("safeTransferFrom", <<Addr("from"), Addr("to"), Uint("tokenId"),
                                   TronAbiParam("data", <<"bytes">>, FALSE)>>, <<>>, "NonPayable"),
          Fn("name", <<>>, Of("string"), "View"), Fn("symbol", <<>>, Of("string"), "View"),
          Fn("tokenURI", <<Uint("tokenId")>>, Of("string"), "View")>>,
     events |->
        <<Event("Transfer", <<Indexed(Addr("from")), Indexed(Addr("to")), Indexed(Uint("tokenId"))>>, FALSE),
          Event("Approval", <<Indexed(Addr("owner")), Indexed(Addr("approved")), Indexed(Uint("tokenId"))>>,
                FALSE),
          Event("ApprovalForAll", <<Indexed(Addr("owner")), Indexed(Addr("operator")),
                                    TronAbiParam("approved", <<"bool">>, FALSE)>>, FALSE)>>]

\* sol! names a function's Call type after it, with _0, _1, ... when it is
\* overloaded, and gives an unnamed parameter the field _i.
Suffix == <<"_0", "_1", "_2", "_3">>
Rank(fs, i) == Cardinality({j \in 1 .. i - 1 : fs[j].name = fs[i].name})
CallTypeName(fs, i) ==
    IF Len(Overloads(fs, fs[i].name)) > 1 THEN <<fs[i].name, Suffix[Rank(fs, i) + 1]>>
    ELSE <<fs[i].name>>
CallType(fs, name) == fs[CHOOSE i \in DOMAIN fs : CallTypeName(fs, i) = name]
FieldOf(f, i) == IF f.inputs[i].name # "" THEN f.inputs[i].name ELSE Suffix[i]

-------------------------------------------------------------------------------
(* The instances written by hand: each method's Call type, and which of    *)
(* the method's parameters goes into each of its fields.                   *)

Call(type, fields) == [type |-> type, fields |-> fields]

Trc20Reads ==
    [name |-> Call(<<"name">>, <<>>), symbol |-> Call(<<"symbol">>, <<>>),
     decimals |-> Call(<<"decimals">>, <<>>), total_supply |-> Call(<<"totalSupply">>, <<>>),
     balance_of |-> Call(<<"balanceOf">>, <<"account">>),
     allowance |-> Call(<<"allowance">>, <<"owner", "spender">>)]
Trc20Writes ==
    [transfer |-> Call(<<"transfer">>, <<"to", "amount">>),
     approve |-> Call(<<"approve">>, <<"spender", "amount">>),
     transfer_from |-> Call(<<"transferFrom">>, <<"from", "to", "amount">>)]
Trc20Encoders ==
    [transfer |-> Call(<<"transfer">>, <<"to", "amount">>),
     approve |-> Call(<<"approve">>, <<"spender", "amount">>),
     transfer_from |-> Call(<<"transferFrom">>, <<"from", "to", "amount">>),
     balance_of |-> Call(<<"balanceOf">>, <<"account">>),
     allowance |-> Call(<<"allowance">>, <<"owner", "spender">>)]
\* decode_uint256_return, decode_decimals_return, decode_string_return: the
\* Call type whose return each decodes.
Trc20Decoders == [uint256 |-> <<"balanceOf">>, uint8 |-> <<"decimals">>, string |-> <<"name">>]

Trc721Reads ==
    [name |-> Call(<<"name">>, <<>>), symbol |-> Call(<<"symbol">>, <<>>),
     token_uri |-> Call(<<"tokenURI">>, <<"token_id">>),
     balance_of |-> Call(<<"balanceOf">>, <<"owner">>),
     owner_of |-> Call(<<"ownerOf">>, <<"token_id">>),
     get_approved |-> Call(<<"getApproved">>, <<"token_id">>),
     is_approved_for_all |-> Call(<<"isApprovedForAll">>, <<"owner", "operator">>)]
Trc721Writes ==
    [transfer_from |-> Call(<<"transferFrom">>, <<"from", "to", "token_id">>),
     safe_transfer_from |-> Call(<<"safeTransferFrom", "_0">>, <<"from", "to", "token_id">>),
     safe_transfer_from_with_data |->
        Call(<<"safeTransferFrom", "_1">>, <<"from", "to", "token_id", "data">>),
     approve |-> Call(<<"approve">>, <<"to", "token_id">>),
     set_approval_for_all |-> Call(<<"setApprovalForAll">>, <<"operator", "approved">>)]
Trc721Encoders ==
    [transfer_from |-> Call(<<"transferFrom">>, <<"from", "to", "token_id">>),
     safe_transfer_from |-> Call(<<"safeTransferFrom", "_0">>, <<"from", "to", "token_id">>),
     safe_transfer_from_with_data |->
        Call(<<"safeTransferFrom", "_1">>, <<"from", "to", "token_id", "data">>),
     approve |-> Call(<<"approve">>, <<"to", "token_id">>),
     balance_of |-> Call(<<"balanceOf">>, <<"owner">>),
     owner_of |-> Call(<<"ownerOf">>, <<"token_id">>)]
Trc721Decoders ==
    [uint256 |-> <<"balanceOf">>, address |-> <<"ownerOf">>, string |-> <<"name">>,
     bool |-> <<"isApprovedForAll">>]

-------------------------------------------------------------------------------
(* tron_sol!: from a contract's items to the methods of its Instance.      *)

\* The callable functions of the body: named functions, and the getters of
\* public state variables, in the order of their declaration.
CallableItems(items) ==
    LET called == SelectSeq(items, LAMBDA x : x.item = "function" \/ (x.item = "variable" /\ x.public))
    IN [i \in DOMAIN called |-> called[i].fn]

\* Overloads are numbered in the order in which they are met.
EffectiveName(fs, i) ==
    IF Cardinality({j \in DOMAIN fs : fs[j].name = fs[i].name}) > 1
    THEN <<fs[i].name, Suffix[Cardinality({j \in 1 .. i - 1 : fs[j].name = fs[i].name}) + 1]>>
    ELSE <<fs[i].name>>

ReservedMethods ==
    {"new", "deploy", "deploy_builder", "address", "set_address", "at", "caller", "set_caller",
     "provider", "call_builder", "event_filter"}
MethodName(effective) ==
    IF Len(effective) = 1 /\ effective[1] \in ReservedMethods THEN Append(effective, "_call") ELSE effective

\* collect_params: one declaration and one value for each parameter.
CollectParams(f) == [i \in DOMAIN f.inputs |-> FieldOf(f, i)]

\* Mutated form: the method is found by its base name alone.
ExpandMethodByBase(fs, i) ==
    [method |-> MethodName(EffectiveName(fs, i)),
     type |-> CallTypeName(fs, CHOOSE j \in DOMAIN fs :
                                  fs[j].name = fs[i].name /\ \A k \in 1 .. j - 1 : fs[k].name # fs[i].name),
     fields |-> CollectParams(fs[i])]
\* expand_method: the Call type is named by the effective name, the method by
\* the name that reserved words have changed.
ExpandMethod(fs, i) ==
    [method |-> MethodName(EffectiveName(fs, i)), type |-> EffectiveName(fs, i),
     fields |-> CollectParams(fs[i])]
Generated(fs) == [i \in DOMAIN fs |-> ExpandMethod(fs, i)]

\* What rustc refuses: two methods of one name, or a Call type that is not there.
Compiles(fs) ==
    /\ \A i, j \in DOMAIN fs : Generated(fs)[i].method = Generated(fs)[j].method => i = j
    /\ \A i \in DOMAIN fs : \E k \in DOMAIN fs : CallTypeName(fs, k) = Generated(fs)[i].type

\* The creation code: the bytecode, with the constructor's arguments after it.
DeployBytecode(code, ctorArgs) == [code |-> code, args |-> ctorArgs]
=============================================================================
