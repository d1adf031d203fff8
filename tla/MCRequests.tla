------------------------------ MODULE MCRequests ------------------------------
(* What becomes of a request, for TLC, in three specifications that have no *)
(* variable in common, of which a behaviour runs one: TransactionAssembly   *)
(* (a wallet that holds two keys, owners it does and does not hold, key     *)
(* lists with a duplicate and a missing key), Operations, and ProviderStack *)
(* (layers that override a read, a method other methods are defined by, and *)
(* the broadcast; filler chains that read nothing, the block, or the price  *)
(* and the energy of a call).                                               *)
EXTENDS TransactionAssembly, ProviderRoutes, TLC

CONSTANTS alice, bob, carol, zero, pay, sweep, unreadable, t1, t2,
    Parts  \* of "assembly", "operations" and "stack", the ones to explore

MultisigLists == {<<alice, bob>>, <<alice, alice>>, <<bob, carol>>}
BodySymmetry == Permutations({pay, sweep})

VARIABLES
    part,
    opPc, opSigner, op, held, owner, opSent, built, applied, details, error,
    phase, builder, layer, filler, signer, peers, stack, added, asked, frames, ran, filled,
    reached, sent, result, pool, listed, fetched

O == INSTANCE Operations WITH
    Signer <- 8, Other <- 9, Now <- 100, MaxOptional <- 2, MaxList <- 2,
    pc <- opPc, signer <- opSigner, sent <- opSent

P == INSTANCE ProviderStack WITH
    LayerMethods <- {{"get_account", "get_transaction_info"},
                     {"transaction_info", "estimate_energy", "broadcast"}},
    FillerReads <- {<<>>, <<"get_now_block">>, <<"get_energy_price", "estimate_energy">>},
    Pending <- {t1, t2}, MaxWrappers <- 2, OddDepth <- 0, MaxOdd <- 2, MaxListOdd <- 1,
    MaxList <- 2, todo <- frames, wire <- reached

ASSUME OperationsAssumption == O!AddressAssumption /\ O!BoundAssumption
ASSUME StackAssumption == P!LayerAssumption /\ P!BoundAssumption /\ P!RoutesAreServed

opVars == <<opPc, opSigner, op, held, owner, opSent, built, applied, details, error>>
stackVars == <<phase, builder, layer, filler, signer, peers, stack, added, asked, frames, ran,
               filled, reached, sent, result, pool, listed, fetched>>

MCInit ==
    /\ part \in Parts
    /\ Init /\ O!Init /\ P!Init
    /\ part # "operations" => opSigner = O!None
    /\ part # "stack" => builder.kind = "root" /\ ~signer

MCNext ==
    \/ part = "assembly" /\ Next /\ UNCHANGED <<part, opVars, stackVars>>
    \/ part = "operations" /\ O!Next /\ UNCHANGED <<part, vars, stackVars>>
    \/ part = "stack" /\ P!Next /\ UNCHANGED <<part, vars, opVars>>

MCSpec == MCInit /\ [][MCNext]_<<part, vars, opVars, stackVars>>

\* The properties of Operations and ProviderStack, stated there.
NodeReadsWhatWasSet == O!NodeReadsWhatWasSet
HonestNodeAccepted == O!HonestNodeAccepted
ReadsBackAsAsked == O!ReadsBackAsAsked
LayersRunOutsideIn == P!LayersRunOutsideIn
SentOnceTracedOnce == P!SentOnceTracedOnce
AbsentMeansEmpty == P!AbsentMeansEmpty
ListsLoseNothing == P!ListsLoseNothing
EveryCallReachesInner == P!EveryCallReachesInner
===============================================================================
