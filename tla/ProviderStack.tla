---------------------------- MODULE ProviderStack ----------------------------
(***************************************************************************)
(* A provider is a stack: wrappers over a RootProvider, which holds the    *)
(* transport.  ProviderBuilder puts layers on the root and a               *)
(* FilledProvider over them; more layers, and the erasing DynProvider, can *)
(* be put on by hand.  A wrapper overrides the methods it names; all       *)
(* others are the traits' defaults, and each default says where it goes:   *)
(*   inner       the same method one step down, the transport at the root  *)
(*   self        another method of the same provider                       *)
(*   transport   straight to the transport                                 *)
(* A call travels down, and at the bottom the node's answer is converted.  *)
(* A send is several calls: the fillers' reads, the build, the broadcast.  *)
(***************************************************************************)
EXTENDS ProviderRoutes, FiniteSets

CONSTANTS
    LayerMethods,  \* what a layer of an application may override
    FillerReads,   \* what a filler chain may ask of the provider, in order
    Pending,       \* ids of transactions a node may hold
    MaxWrappers,   \* bound on the wrappers beside the FilledProvider
    OddDepth,      \* wrappers up to which every answer of a node is tried
    MaxOdd,        \* bound on the fields of a message that are out of line
    MaxListOdd,    \* the same, of an entry of a list
    MaxList        \* bound on the length of a list

\* Assumptions on the constants, and on the tables: a route ends at a method
\* that some transport, or the root itself, answers.
LayerAssumption == \A ms \in LayerMethods : ms \subseteq DOMAIN Defaults
BoundAssumption == {MaxWrappers, OddDepth, MaxOdd, MaxListOdd, MaxList} \subseteq Nat
RoutesAreServed ==
    /\ \A m \in DOMAIN Routes :
         LET r == Routes[m]
         IN  IF r.via = "self" THEN r.to \in DOMAIN Routes
             ELSE r.to \in DOMAIN FullNode
                    \cup {"no_signer", "build", "broadcast_transaction", "signer_address",
                          "default_caller"}
    /\ \A m \in DOMAIN SolidityRoutes : SolidityRoutes[m] \in DOMAIN Solidity

VARIABLES
    phase,    \* building, failed, ready, calling, listing, done
    builder,  \* what is being built: its kind, and the endpoints beside the first
    layer,    \* ProviderBuilder::layer, as what it puts on the root, outermost first
    filler,   \* the reads the filler chain makes, and whether it has a wallet
    signer,   \* whether the root was told its signer's address
    peers,    \* how many endpoints answer: 1, or a balanced list of them
    stack,    \* the wrappers, outermost first
    added,    \* the layers given to the builder, and the wrappers put on by
              \* hand, each in the order they were given (history)
    asked,    \* the method the caller called
    todo,     \* the calls of it still to make: method and depth
    ran,      \* the versions that ran: method, depth, and how often the
              \* request they saw had been filled (history)
    filled,   \* how often the request in hand was filled
    wire,     \* the calls that reached the transport, in order (history)
    sent,     \* the message, or messages, the node answered (history)
    result,
    pool,     \* the transactions pending at each peer
    listed,   \* the ids get_pending_transactions was told, in order
    fetched   \* and the transactions got for them, by index

buildVars == <<builder, layer>>
madeVars == <<filler, signer, peers, stack, added>>
callVars == <<asked, todo, ran, filled, wire, sent, result>>
poolVars == <<pool, listed, fetched>>
vars == <<phase, buildVars, madeVars, callVars, poolVars>>

None == "none"
NoResult == [kind |-> "none"]
Ok(value) == [kind |-> "found", value |-> value]
Failed(kind) == [kind |-> kind]

-------------------------------------------------------------------------------
(* Building.  Of a builder's settings only the endpoints decide what a     *)
(* call does here; what the others do is GrpcCore's matter.                *)

Logging == {"get_now_block", "send_transaction", "broadcast"}
Layers == LayerMethods \cup {Logging}
Layer(methods) == [kind |-> "layer", methods |-> methods]
FilledProvider ==
    [kind |-> "filled",
     methods |-> {"send_transaction", "build_transaction", "signer_address", "default_caller"}]
DynProvider == [kind |-> "dyn", methods |-> {}]

\* Mutated form: an erased provider is only its root.
ErasedToRoot(s) == <<DynProvider>>

\* Stack::layer applies `inner` first, so `outer` ends up around it.
StackOf(inner, outer) == outer \o inner
\* TronProvider::erased; a DynProvider is itself when erased again.
Erased(s) == IF s # <<>> /\ Head(s) = DynProvider THEN s ELSE <<DynProvider>> \o s

Wallets == {[reads |-> r, wallet |-> w] : r \in FillerReads, w \in BOOLEAN}

Init ==
    /\ phase = "building" /\ layer = <<>>
    /\ builder \in [kind : {"provider", "root", "solidity"}, endpoints : {0}]
    /\ filler \in {f \in Wallets : builder.kind # "provider" => f.reads = <<>> /\ ~f.wallet}
    /\ signer \in (IF builder.kind = "root" THEN BOOLEAN ELSE {FALSE})
    /\ peers = 1 /\ stack = <<>> /\ added = [builder |-> <<>>, hand |-> <<>>]
    /\ asked = None /\ todo = <<>> /\ ran = <<>> /\ filled = 0 /\ wire = <<>>
    /\ sent = <<>> /\ result = NoResult
    /\ pool = <<{}>> /\ listed = <<>> /\ fetched = <<>>

\* with_endpoints: one more to balance over.
AddEndpoint ==
    /\ phase = "building" /\ builder.endpoints = 0
    /\ builder' = [builder EXCEPT !.endpoints = 1]
    /\ UNCHANGED <<phase, layer, madeVars, callVars, poolVars>>

\* ProviderBuilder::layer.
AddLayer(methods) ==
    /\ phase = "building" /\ builder.kind = "provider" /\ Len(layer) < MaxWrappers
    /\ layer' = StackOf(<<Layer(methods)>>, layer)
    /\ added' = [added EXCEPT !.builder = Append(@, Layer(methods))]
    /\ UNCHANGED <<phase, builder, filler, signer, peers, stack, callVars, poolVars>>

\* connect, and connect_with_config: one endpoint is dialled at once, two or
\* more are balanced over and dialled when they are used.  The builder is gone.
Connect ==
    /\ phase = "building"
    /\ peers' = 1 + builder.endpoints
    /\ pool' = [p \in 1..peers' |-> {}]
    /\ stack' = IF builder.kind = "provider" THEN <<FilledProvider>> \o layer ELSE <<>>
    /\ layer' = <<>>
    /\ phase' = "ready"
    /\ UNCHANGED <<builder, filler, signer, added, callVars, listed, fetched>>

\* An address that is none fails the connection whichever way it is dialled.
ConnectFails ==
    /\ phase = "building" /\ phase' = "failed"
    /\ \/ result' = Failed("Malformed")
       \/ builder.endpoints = 0 /\ result' = Failed("transport")
    /\ UNCHANGED <<buildVars, madeVars, asked, todo, ran, filled, wire, sent, poolVars>>
\* The builder is gone with the failure; another one is made.
StartOver ==
    /\ phase = "failed" /\ phase' = "building"
    /\ layer' = <<>> /\ result' = NoResult
    /\ builder' = [builder EXCEPT !.endpoints = 0]
    /\ added' = [builder |-> <<>>, hand |-> <<>>]
    /\ UNCHANGED <<filler, signer, peers, stack, asked, todo, ran, filled, wire, sent,
                   poolVars>>

Wrappers == Cardinality({i \in DOMAIN stack : stack[i].kind # "filled"})

\* Layers put on by hand, and erasing.
ByHand(methods) ==
    /\ phase = "ready" /\ builder.kind # "solidity" /\ Wrappers < MaxWrappers
    /\ stack' = <<Layer(methods)>> \o stack
    /\ added' = [added EXCEPT !.hand = Append(@, Layer(methods))]
    /\ UNCHANGED <<phase, buildVars, filler, signer, peers, callVars, poolVars>>
Erase ==
    /\ phase = "ready" /\ builder.kind # "solidity" /\ Wrappers < MaxWrappers
    /\ stack' = Erased(stack)
    /\ added' = IF stack # <<>> /\ Head(stack) = DynProvider THEN added
                ELSE [added EXCEPT !.hand = Append(@, DynProvider)]
    /\ UNCHANGED <<phase, buildVars, filler, signer, peers, callVars, poolVars>>

-------------------------------------------------------------------------------
(* A call.  A frame is a method about to be called on the provider at a    *)
(* depth: 0 is the caller's own, Len(stack) the root.                      *)

Frame(m, d) == [method |-> m, depth |-> d]
AtRoot(f) == f.depth = Len(stack)
Overridden(f) == ~AtRoot(f) /\ f.method \in stack[f.depth + 1].methods
Below(f) == [f EXCEPT !.depth = @ + 1]
InFilled(f, m) == Overridden(f) /\ stack[f.depth + 1].kind = "filled" /\ f.method = m

Call(m) ==
    /\ phase = "ready"
    /\ m \in (IF builder.kind = "solidity" THEN DOMAIN SolidityRoutes ELSE DOMAIN Routes)
    /\ asked' = m /\ todo' = <<Frame(m, 0)>> /\ phase' = "calling"
    /\ UNCHANGED <<buildVars, madeVars, ran, filled, wire, sent, result, poolVars>>

Finish(r) == result' = r /\ todo' = <<>> /\ phase' = "done"
\* One call of several is over: on to the next, or to the end.
Proceed(r) ==
    IF Len(todo) = 1 THEN Finish(r)
    ELSE todo' = Tail(todo) /\ UNCHANGED <<phase, result>>
Replace(frames) == todo' = frames \o Tail(todo) /\ UNCHANGED <<phase, result>>
Ran(f) == ran' = Append(ran, [method |-> f.method, depth |-> f.depth + 1, filled |-> filled])

Calling == phase = "calling" /\ builder.kind # "solidity"

\* A layer's version, which does what it does and calls what it wraps.
RunLayer ==
    /\ Calling /\ Overridden(Head(todo)) /\ stack[Head(todo).depth + 1].kind = "layer"
    /\ Ran(Head(todo)) /\ Replace(<<Below(Head(todo))>>)
    /\ UNCHANGED <<buildVars, madeVars, asked, filled, wire, sent, poolVars>>

\* Mutated form: what is sent was never filled.
FilledSendUnfilled ==
    /\ Calling /\ InFilled(Head(todo), "send_transaction")
    /\ Ran(Head(todo))
    /\ LET d == Head(todo).depth
       IN  Replace(<<Frame("build_transaction", d + 1), Frame("sign", d),
                     Frame("broadcast", d + 1)>>)
    /\ UNCHANGED <<buildVars, madeVars, asked, filled, wire, sent, poolVars>>

\* FilledProvider::send_transaction: build with its own build_transaction, sign,
\* and broadcast through what it wraps.
FilledSend ==
    /\ Calling /\ InFilled(Head(todo), "send_transaction")
    /\ Ran(Head(todo))
    /\ \/ LET d == Head(todo).depth
          IN  Replace(<<Frame("build_transaction", d), Frame("sign", d),
                        Frame("broadcast", d + 1)>>)
       \/ Finish(Failed("missing_field"))    \* the owner is the zero address
    /\ UNCHANGED <<buildVars, madeVars, asked, filled, wire, sent, poolVars>>

\* FilledProvider::build_transaction: the fillers read through this provider.
FilledBuild ==
    /\ Calling /\ InFilled(Head(todo), "build_transaction")
    /\ Ran(Head(todo))
    /\ LET d == Head(todo).depth
       IN  Replace([i \in DOMAIN filler.reads |-> Frame(filler.reads[i], d)]
                   \o <<Frame("fill", d), Frame("build_transaction", d + 1)>>)
    /\ UNCHANGED <<buildVars, madeVars, asked, filled, wire, sent, poolVars>>
Fill ==
    /\ Calling /\ Head(todo).method = "fill"
    /\ filled' = filled + 1 /\ Replace(<<>>)
    /\ UNCHANGED <<buildVars, madeVars, asked, ran, wire, sent, poolVars>>
Sign ==
    /\ Calling /\ Head(todo).method = "sign"
    /\ IF filler.wallet THEN Replace(<<>>) ELSE Finish(Failed("no_signer"))
    /\ UNCHANGED <<buildVars, madeVars, asked, ran, filled, wire, sent, poolVars>>

\* FilledProvider::signer_address and default_caller ask the filler, and no further.
FilledIdentity ==
    /\ Calling /\ \E m \in {"signer_address", "default_caller"} : InFilled(Head(todo), m)
    /\ Proceed(Ok(filler.wallet))
    /\ UNCHANGED <<buildVars, madeVars, asked, ran, filled, wire, sent, poolVars>>

Default(f) ==
    /\ Calling /\ f.method \in DOMAIN Routes /\ ~Overridden(f)
\* A default method that goes one step down, or to another of the same provider;
\* get_energy_price then reads the price out of the schedule it got.
PassOn ==
    /\ Calling /\ Default(Head(todo))
    /\ LET f == Head(todo)
           r == Routes[f.method]
       IN  \/ r.via = "inner" /\ ~AtRoot(f) /\ Replace(<<Below(f)>>)
           \/ /\ r.via = "self"
              /\ Replace(<<Frame(r.to, f.depth)>>
                         \o IF f.method = "get_energy_price"
                            THEN <<Frame("latest_price", f.depth)>> ELSE <<>>)
    /\ UNCHANGED <<buildVars, madeVars, asked, ran, filled, wire, sent, poolVars>>
\* latest_price: of the last entry, if it can be read.
LatestPrice ==
    /\ Calling /\ Head(todo).method = "latest_price"
    /\ Proceed(Ok("price")) \/ Finish(Failed("Malformed"))
    /\ UNCHANGED <<buildVars, madeVars, asked, ran, filled, wire, sent, poolVars>>

\* The root's own answers.
RootIdentity ==
    /\ Calling /\ Default(Head(todo)) /\ AtRoot(Head(todo))
    /\ Head(todo).method \in {"signer_address", "default_caller"}
    /\ Proceed(Ok(signer))
    /\ UNCHANGED <<buildVars, madeVars, asked, ran, filled, wire, sent, poolVars>>
RootSend ==
    /\ Calling /\ Default(Head(todo)) /\ AtRoot(Head(todo))
    /\ Head(todo).method = "send_transaction"
    /\ Finish(Failed("no_signer"))
    /\ UNCHANGED <<buildVars, madeVars, asked, ran, filled, wire, sent, poolVars>>

-------------------------------------------------------------------------------
(* At the bottom.                                                          *)

\* The transport method a frame is about to call, if it is at the transport.
Bottom(f) ==
    IF builder.kind = "solidity" THEN SolidityRoutes[f.method]
    ELSE IF Default(f) /\ (Routes[f.method].via = "transport"
                            \/ (Routes[f.method].via = "inner" /\ AtRoot(f)))
    THEN Routes[f.method].to ELSE None

Node == IF builder.kind = "solidity" THEN Solidity ELSE FullNode

\* The messages a node may answer with: all there or all empty, but for a few fields.
Answers(c, odd) ==
    {m \in Messages(c) : \E all \in {"ok", "empty"} :
        Cardinality({f \in DOMAIN m : m[f] # all}) <= IF Len(stack) > OddDepth THEN 0 ELSE odd}

\* The answer of the last call is the caller's; an earlier one is a filler's.
AnswerOne(to) ==
    LET c == Node[to].conversion
    IN  \E m \in Answers(c, MaxOdd) :
          /\ sent' = (IF Len(todo) = 1 THEN <<m>> ELSE sent)
          /\ LET r == Convert(c, m)
             IN  IF r.kind = "Malformed" THEN Finish(Failed("Malformed")) ELSE Proceed(r)
AnswerList(to) ==
    LET c == Node[to].conversion
    IN  \E ms \in UNION {[1..n -> Answers(c, MaxListOdd)] : n \in 0..MaxList} :
          /\ sent' = ms
          /\ LET r == ConvertAll(c, ms)
             IN  IF r.kind = "Malformed" THEN Finish(Failed("Malformed")) ELSE Proceed(r)

NodeAnswers ==
    /\ phase = "calling"
    /\ LET to == Bottom(Head(todo))
       IN  /\ to \in DOMAIN Node \ {"get_pending_transactions"}
           /\ wire' = Append(wire, to)
           /\ IF Shape[to] = "list" THEN AnswerList(to) ELSE AnswerOne(to)
    /\ UNCHANGED <<buildVars, madeVars, asked, ran, filled, poolVars>>

\* Building and broadcasting at the node: Operations and SendTransaction.
NodeTakes ==
    /\ phase = "calling"
    /\ LET to == Bottom(Head(todo))
       IN  /\ to \in {"build", "broadcast_transaction"}
           /\ wire' = Append(wire, to)
    /\ Proceed(Ok("taken"))
    /\ UNCHANGED <<buildVars, madeVars, asked, ran, filled, sent, poolVars>>

NodeFails ==
    /\ phase = "calling"
    /\ Bottom(Head(todo)) \in DOMAIN Node \cup {"build", "broadcast_transaction"}
    /\ wire' = Append(wire, Bottom(Head(todo)))
    /\ Finish(Failed("transport"))
    /\ UNCHANGED <<buildVars, madeVars, asked, ran, filled, sent, poolVars>>

-------------------------------------------------------------------------------
(* get_pending_transactions: the ids, then every transaction at the same   *)
(* time.  Each request may go to another peer, and pools change meanwhile. *)

PoolChanges(p, txs) ==
    /\ phase \in {"calling", "listing"} /\ asked = "get_pending_transactions"
    /\ p \in 1..peers /\ pool[p] # txs
    /\ pool' = [pool EXCEPT ![p] = txs]
    /\ UNCHANGED <<phase, buildVars, madeVars, callVars, listed, fetched>>

ListPending(p) ==
    /\ phase = "calling" /\ p \in 1..peers
    /\ Bottom(Head(todo)) = "get_pending_transactions"
    /\ wire' = Append(wire, "get_pending_transactions")
    /\ listed' = CHOOSE ids \in [1..Cardinality(pool[p]) -> pool[p]] :
                    {ids[i] : i \in DOMAIN ids} = pool[p]
    /\ phase' = "listing"
    /\ UNCHANGED <<buildVars, madeVars, asked, todo, ran, filled, sent, result, pool, fetched>>

FetchPending(i, p) ==
    /\ phase = "listing" /\ i \in DOMAIN listed \ DOMAIN fetched /\ p \in 1..peers
    /\ listed[i] \in pool[p]
    /\ fetched' = fetched @@ (i :> listed[i])
    /\ UNCHANGED <<phase, buildVars, madeVars, callVars, pool, listed>>

\* A transaction that is gone is answered by an empty message, which is
\* malformed, and the first failure is the whole call's.
FetchGone(i, p) ==
    /\ phase = "listing" /\ i \in DOMAIN listed \ DOMAIN fetched /\ p \in 1..peers
    /\ listed[i] \notin pool[p]
    /\ Finish(Failed("Malformed"))
    /\ UNCHANGED <<buildVars, madeVars, asked, ran, filled, wire, sent, poolVars>>

FetchFails(i) ==
    /\ phase = "listing" /\ i \in DOMAIN listed \ DOMAIN fetched
    /\ Finish(Failed("transport"))
    /\ UNCHANGED <<buildVars, madeVars, asked, ran, filled, wire, sent, poolVars>>

FetchedAll ==
    /\ phase = "listing" /\ DOMAIN fetched = DOMAIN listed
    /\ Finish(Ok(fetched))
    /\ UNCHANGED <<buildVars, madeVars, asked, ran, filled, wire, sent, poolVars>>

\* The caller has its answer; the provider is as it was.
Answered ==
    /\ phase = "done" /\ phase' = "ready"
    /\ asked' = None /\ ran' = <<>> /\ filled' = 0 /\ wire' = <<>> /\ sent' = <<>>
    /\ result' = NoResult /\ listed' = <<>> /\ fetched' = <<>>
    /\ pool' = [p \in 1..peers |-> {}]
    /\ UNCHANGED <<buildVars, madeVars, todo>>

Next ==
    \/ AddEndpoint
    \/ \E ms \in Layers : AddLayer(ms) \/ ByHand(ms)
    \/ Connect \/ ConnectFails \/ StartOver \/ Erase
    \/ \E m \in DOMAIN Routes \cup DOMAIN SolidityRoutes : Call(m)
    \/ RunLayer \/ FilledSend \/ FilledBuild \/ Fill \/ Sign \/ FilledIdentity
    \/ PassOn \/ LatestPrice \/ RootIdentity \/ RootSend
    \/ NodeAnswers \/ NodeTakes \/ NodeFails
    \/ \E p \in 1..2 :
         \/ ListPending(p)
         \/ \E txs \in SUBSET Pending : PoolChanges(p, txs)
         \/ \E i \in DOMAIN listed : FetchPending(i, p) \/ FetchGone(i, p)
    \/ \E i \in DOMAIN listed : FetchFails(i)
    \/ FetchedAll \/ Answered

Spec == Init /\ [][Next]_vars

-------------------------------------------------------------------------------
(* Properties.                                                             *)

Succeeded == phase = "done" /\ result.kind \in {"found", "absent"}

\* The wrappers a call passes, as they were asked for: what was put on by hand,
\* the last one first, the fillers, and the builder's layers, the first one first.
Wrapping ==
    LET n == Len(added.hand)
    IN  [i \in 1..n |-> added.hand[n + 1 - i]]
        \o (IF builder.kind = "provider" THEN <<FilledProvider>> ELSE <<>>) \o added.builder
Overriding(m, wrappers) == SelectSeq(wrappers, LAMBDA w : m \in w.methods)
\* The versions of a method that ran are those of all the wrappers that have one,
\* each once, from the outside in.
RanOutsideIn == [i \in DOMAIN ran |-> stack[ran[i].depth]] = Overriding(asked, Wrapping)
\* The reads, and the broadcast: what a layer overrides and then passes on.
PassedOn == DOMAIN Defaults \ {"send_transaction", "build_transaction", "signer_address",
                               "default_caller"}

\* A call through a stack runs every layer's version of the method once, from the
\* outside in, the builder's layers in the order they were given and erasing
\* changing nothing, for each method whose default asks inner().
LayersRunOutsideIn ==
    Succeeded /\ builder.kind # "solidity"
        /\ asked \in {m \in PassedOn : Routes[m].via = "inner"} => RanOutsideIn

\* layers.rs: "Everything it leaves alone keeps travelling down the stack, so in
\* Outer(Inner(provider)) a call Outer says nothing about still reaches Inner's
\* version of it", of every method.
EveryCallReachesInner ==
    Succeeded /\ builder.kind # "solidity" /\ asked \in PassedOn =>
        \A d \in DOMAIN stack :
            asked \in stack[d].methods =>
                \E i \in DOMAIN ran : ran[i].depth = d /\ ran[i].method = asked

Times(depth, methods) ==
    Cardinality({i \in DOMAIN ran : ran[i].depth = depth /\ ran[i].method \in methods})
\* A send that succeeds was built once and broadcast once, was filled once, and
\* that before anything below the fillers saw it; every Logging layer, above the
\* fillers or below, traced it exactly once.
SentOnceTracedOnce ==
    Succeeded /\ asked = "send_transaction" =>
        /\ SelectSeq(wire, LAMBDA c : c \in {"build", "broadcast_transaction"})
             = <<"build", "broadcast_transaction">>
        /\ filled = 1
        /\ \A i \in DOMAIN stack :
              /\ stack[i] = Layer(Logging) => Times(i, {"send_transaction", "broadcast"}) = 1
              /\ \A j \in DOMAIN ran :
                    ran[j].depth = i /\ ran[j].method \in {"build_transaction", "broadcast"}
                        /\ stack[i].kind = "layer" => ran[j].filled = 1

\* "No such block, no such transaction" is said only of a message with nothing
\* in it: an answer this build cannot read is an error.
AbsentMeansEmpty ==
    Succeeded /\ result.kind = "absent"
        /\ asked \in {"get_block_by_number", "get_block_by_id", "get_transaction"} =>
        Empty(sent[1])

\* A list the caller gets has an entry for every entry the node sent that names
\* what it is; only witnesses and nodes with an unreadable address are left out.
\* The pending transactions are all of those that were listed, each under its
\* own id, though they are fetched one by one from several peers while pools
\* change.
ListsLoseNothing ==
    /\ Succeeded /\ wire # <<>> /\ result.kind = "found" =>
        LET to == wire[Len(wire)]
            c == FullNode[to].conversion
        IN  to \in DOMAIN FullNode \ {"get_pending_transactions"}
            /\ Shape[to] = "list" /\ c \notin {Witness, NodeAddress} =>
                Len(result.value)
                  = Cardinality({i \in DOMAIN sent :
                        c.absent = {} \/ \E f \in c.absent : sent[i][f] # "empty"})
    /\ Succeeded /\ asked = "get_pending_transactions" => result.value = listed
===============================================================================
