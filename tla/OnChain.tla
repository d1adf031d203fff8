------------------------------- MODULE OnChain -------------------------------
(***************************************************************************)
(* The contracts that calls are made to, as the standards and the virtual  *)
(* machine have them: what a signature means, what its arguments are, and  *)
(* what it does to the ledger.  External to the repository: a token, an    *)
(* NFT, and a vault with what the tokens lack (payable and overloaded      *)
(* functions, a getter, a name that is reserved, an anonymous event).      *)
(***************************************************************************)
EXTENDS SolBindings, TLC

CONSTANTS
    Signers,        \* accounts
    Zero            \* Address::ZERO

Holders == Signers \cup {Zero}

-------------------------------------------------------------------------------
(* The contracts.                                                          *)

Vault ==
    [items |->
        <<[item |-> "constructor", public |-> TRUE, fn |-> Fn("", <<Addr("holder")>>, <<>>, "NonPayable")],
          [item |-> "function", public |-> TRUE, fn |-> Fn("deposit", <<>>, <<>>, "Payable")],
          [item |-> "variable", public |-> FALSE, fn |-> Fn("secret", <<>>, Of("uint256"), "View")],
          [item |-> "function", public |-> TRUE, fn |-> Fn("deposit", <<Addr("to")>>, <<>>, "Payable")],
          [item |-> "function", public |-> TRUE, fn |-> Fn("at", <<Addr("")>>, Of("uint256"), "View")],
          [item |-> "variable", public |-> TRUE, fn |-> Fn("keeper", <<>>, Of("address"), "View")]>>,
     events |-> <<Event("Deposited", <<Indexed(Addr("who")), Uint("amount")>>, FALSE),
                  Event("Trace", <<Uint("amount")>>, TRUE)>>,
     errors |-> <<Event("Refused", <<TronAbiParam("what", <<"tuple", "address", "uint256">>, FALSE)>>, FALSE)>>]

Functions == [trc20 |-> ITRC20.functions, trc721 |-> ITRC721.functions,
              vault |-> CallableItems(Vault.items)]
Events == [trc20 |-> ITRC20.events, trc721 |-> ITRC721.events, vault |-> Vault.events]

\* The ABI the compiler wrote.
Compiled(k) ==
    [constructor |-> <<Fn("", <<Addr("holder")>>, <<>>, "NonPayable")>>, fallback |-> <<>>,
     receive |-> IF k = "vault" THEN <<Fn("", <<>>, <<>>, "Payable")>> ELSE <<>>,
     functions |-> Functions[k], events |-> Events[k],
     errors |-> IF k = "vault" THEN Vault.errors ELSE <<>>]

\* What the standards say of each signature: the method, and what its
\* arguments are, in order.
Std(name, types, method, params) == <<name, [i \in DOMAIN types |-> <<types[i]>>]>> :> <<method, params>>
Dispatch ==
    [trc20 |->
        Std("name", <<>>, "name", <<>>) @@ Std("symbol", <<>>, "symbol", <<>>)
        @@ Std("decimals", <<>>, "decimals", <<>>) @@ Std("totalSupply", <<>>, "total_supply", <<>>)
        @@ Std("balanceOf", <<"address">>, "balance_of", <<"account">>)
        @@ Std("allowance", <<"address", "address">>, "allowance", <<"owner", "spender">>)
        @@ Std("transfer", <<"address", "uint256">>, "transfer", <<"to", "amount">>)
        @@ Std("approve", <<"address", "uint256">>, "approve", <<"spender", "amount">>)
        @@ Std("transferFrom", <<"address", "address", "uint256">>, "transfer_from", <<"from", "to", "amount">>),
     trc721 |->
        Std("name", <<>>, "name", <<>>) @@ Std("symbol", <<>>, "symbol", <<>>)
        @@ Std("tokenURI", <<"uint256">>, "token_uri", <<"token_id">>)
        @@ Std("balanceOf", <<"address">>, "balance_of", <<"owner">>)
        @@ Std("ownerOf", <<"uint256">>, "owner_of", <<"token_id">>)
        @@ Std("getApproved", <<"uint256">>, "get_approved", <<"token_id">>)
        @@ Std("isApprovedForAll", <<"address", "address">>, "is_approved_for_all", <<"owner", "operator">>)
        @@ Std("transferFrom", <<"address", "address", "uint256">>, "transfer_from", <<"from", "to", "token_id">>)
        @@ Std("safeTransferFrom", <<"address", "address", "uint256">>, "safe_transfer_from",
               <<"from", "to", "token_id">>)
        @@ Std("safeTransferFrom", <<"address", "address", "uint256", "bytes">>,
               "safe_transfer_from_with_data", <<"from", "to", "token_id", "data">>)
        @@ Std("approve", <<"address", "uint256">>, "approve", <<"to", "token_id">>)
        @@ Std("setApprovalForAll", <<"address", "bool">>, "set_approval_for_all", <<"operator", "approved">>),
     vault |->
        Std("deposit", <<>>, "deposit", <<>>) @@ Std("deposit", <<"address">>, "deposit_to", <<"to">>)
        @@ Std("at", <<"address">>, "at", <<"account">>) @@ Std("keeper", <<>>, "keeper", <<>>)]

Methods(k) == {Dispatch[k][s][1] : s \in DOMAIN Dispatch[k]}
SelectorOf(k, m) == CHOOSE s \in DOMAIN Dispatch[k] : Dispatch[k][s][1] = m
ParamsOf(k, m) == Dispatch[k][SelectorOf(k, m)][2]

Tokens == {1, 2}        \* token 2 was never minted
ParamValues(m, n) ==
    CASE n \in {"amount", "data"} -> {1}
      [] n = "token_id" -> IF m \in {"owner_of", "get_approved", "token_uri"} THEN Tokens ELSE {1}
      [] n = "approved" -> {0, 1}
      [] OTHER -> Signers
Params(k, m) ==
    LET names == {ParamsOf(k, m)[i] : i \in DOMAIN ParamsOf(k, m)}
    IN {p \in [names -> Signers \cup {0, 1, 2}] : \A n \in names : p[n] \in ParamValues(m, n)}

NewLedger(k, holder) ==
    [keeper |-> holder,
     bal |-> [x \in Holders |-> IF x = holder /\ k = "trc20" THEN 1 ELSE 0],
     allow |-> [x \in Holders \X Holders |-> 0],
     owner |-> [t \in Tokens |-> IF t = 1 THEN holder ELSE Zero],
     approved |-> [t \in Tokens |-> Zero],
     operators |-> {}]

\* Events as they are emitted: topics, then the words of the data.
LogOf(e, topics, data) ==
    [topics |-> IF e.anonymous THEN topics ELSE <<Signature(e)>> \o topics, data |-> data, of |-> e]
Named(items, name) == items[CHOOSE i \in DOMAIN items : items[i].name = name]
Log(k, name, topics, data) == LogOf(Named(Events[k], name), topics, data)

Word(ty, v) == [shape |-> "data", types |-> << <<ty>> >>, v |-> <<v>>]
Empty == [shape |-> "empty", types |-> <<>>, v |-> <<>>]
RevertData == [shape |-> "revert", types |-> <<>>, v |-> <<>>]

Done(l, out, logs) == [ok |-> TRUE, ledger |-> l, out |-> out, logs |-> logs]
Failed(l) == [ok |-> FALSE, ledger |-> l, out |-> RevertData, logs |-> <<>>]
If(cond, l, effect) == IF cond THEN effect ELSE Failed(l)

Trc20Effect(m, p, who, l) ==
    LET moved(from, to) ==
            [l EXCEPT !.bal[from] = @ - p.amount, !.bal[to] = @ + p.amount]
        logs(from, to) == <<Log("trc20", "Transfer", <<from, to>>, <<p.amount>>)>>
        yes == Word("bool", 1)
    IN CASE m \in {"name", "symbol"} -> Done(l, Word("string", 3), <<>>)
         [] m = "decimals" -> Done(l, Word("uint8", 6), <<>>)
         [] m = "total_supply" -> Done(l, Word("uint256", 1), <<>>)
         [] m = "balance_of" -> Done(l, Word("uint256", l.bal[p.account]), <<>>)
         [] m = "allowance" -> Done(l, Word("uint256", l.allow[<<p.owner, p.spender>>]), <<>>)
         [] m = "transfer" -> If(l.bal[who] >= p.amount, l, Done(moved(who, p.to), yes, logs(who, p.to)))
         [] m = "approve" ->
                If(who # Zero, l, Done([l EXCEPT !.allow[<<who, p.spender>>] = p.amount], yes,
                                       <<Log("trc20", "Approval", <<who, p.spender>>, <<p.amount>>)>>))
         [] m = "transfer_from" ->
                If(l.bal[p.from] >= p.amount /\ l.allow[<<p.from, who>>] >= p.amount, l,
                   Done([moved(p.from, p.to) EXCEPT !.allow[<<p.from, who>>] = @ - p.amount], yes,
                        logs(p.from, p.to)))

Trc721Effect(m, p, who, l) ==
    LET minted == l.owner[p.token_id] # Zero
        runs(x) == who = x \/ <<x, who>> \in l.operators
    IN CASE m \in {"name", "symbol"} -> Done(l, Word("string", 3), <<>>)
         [] m = "token_uri" -> If(minted, l, Done(l, Word("string", 3), <<>>))
         [] m = "balance_of" ->
                Done(l, Word("uint256", Cardinality({t \in Tokens : l.owner[t] = p.owner})), <<>>)
         [] m = "owner_of" -> If(minted, l, Done(l, Word("address", l.owner[p.token_id]), <<>>))
         [] m = "get_approved" -> If(minted, l, Done(l, Word("address", l.approved[p.token_id]), <<>>))
         [] m = "is_approved_for_all" ->
                Done(l, Word("bool", IF <<p.owner, p.operator>> \in l.operators THEN 1 ELSE 0), <<>>)
         [] m \in {"transfer_from", "safe_transfer_from", "safe_transfer_from_with_data"} ->
                If(l.owner[p.token_id] = p.from /\ (runs(p.from) \/ l.approved[p.token_id] = who), l,
                   Done([l EXCEPT !.owner[p.token_id] = p.to, !.approved[p.token_id] = Zero], Empty,
                        <<Log("trc721", "Transfer", <<p.from, p.to, p.token_id>>, <<>>)>>))
         [] m = "approve" ->
                If(minted /\ runs(l.owner[p.token_id]), l,
                   Done([l EXCEPT !.approved[p.token_id] = p.to], Empty,
                        <<Log("trc721", "Approval", <<l.owner[p.token_id], p.to, p.token_id>>, <<>>)>>))
         [] m = "set_approval_for_all" ->
                If(who # Zero, l,
                   Done([l EXCEPT !.operators = IF p.approved = 1 THEN @ \cup {<<who, p.operator>>}
                                                ELSE @ \ {<<who, p.operator>>}], Empty,
                        <<Log("trc721", "ApprovalForAll", <<who, p.operator>>, <<p.approved>>)>>))

VaultEffect(m, p, who, value, l) ==
    LET deposit(to) == Done([l EXCEPT !.bal[to] = @ + value], Empty,
                            <<Log("vault", "Trace", <<>>, <<value>>),
                              Log("vault", "Deposited", <<to>>, <<value>>)>>)
    IN CASE m = "deposit" -> If(value > 0, l, deposit(who))
         [] m = "deposit_to" -> If(value > 0, l, deposit(p.to))
         [] m = "at" -> Done(l, Word("uint256", l.bal[p.account]), <<>>)
         [] m = "keeper" -> Done(l, Word("address", l.keeper), <<>>)

\* A function that is not payable refuses TRX.
Effect(k, m, p, who, value, l) ==
    IF value > 0 /\ m \notin {"deposit", "deposit_to"} THEN Failed(l)
    ELSE CASE k = "trc20" -> Trc20Effect(m, p, who, l)
           [] k = "trc721" -> Trc721Effect(m, p, who, l)
           [] k = "vault" -> VaultEffect(m, p, who, value, l)

\* What the virtual machine does with calldata: by selector and position.
ByName(names, args) ==
    [n \in {names[i] : i \in DOMAIN names} |-> args[CHOOSE i \in DOMAIN names : names[i] = n]]
Run(k, data, who, value, l) ==
    IF data.selector \notin DOMAIN Dispatch[k] THEN Failed(l)
    ELSE LET method == Dispatch[k][data.selector]
         IN Effect(k, method[1], ByName(method[2], data.args), who, value, l)

\* What a method that runs through returns.
Results ==
    [trc20 |-> [name |-> "string", symbol |-> "string", decimals |-> "uint8", total_supply |-> "uint256",
                balance_of |-> "uint256", allowance |-> "uint256",
                transfer |-> "bool", approve |-> "bool", transfer_from |-> "bool"],
     trc721 |-> [name |-> "string", symbol |-> "string", token_uri |-> "string", balance_of |-> "uint256",
                 owner_of |-> "address", get_approved |-> "address", is_approved_for_all |-> "bool",
                 transfer_from |-> "nothing", safe_transfer_from |-> "nothing",
                 safe_transfer_from_with_data |-> "nothing", approve |-> "nothing",
                 set_approval_for_all |-> "nothing"],
     vault |-> [deposit |-> "nothing", deposit_to |-> "nothing", at |-> "uint256", keeper |-> "address"]]
ResultTypes(k, m) == IF Results[k][m] = "nothing" THEN <<>> ELSE << <<Results[k][m]>> >>
=============================================================================
