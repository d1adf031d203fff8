------------------------------- MODULE Fillers -------------------------------
(***************************************************************************)
(* FilledProvider::build_transaction: the filler chain (fillers/mod.rs)    *)
(* over one request, while other builds run through clones of the same     *)
(* chain.  Clones share the block cache and the price cache, each behind   *)
(* an async mutex that is held through a miss, and the flag that writes    *)
(* EstimateEnergy off; a clone may still be configured differently and sit *)
(* in another chain.                                                       *)
(*                                                                         *)
(* Amounts are integers of the code's widths, scaled down: I64Max and      *)
(* I128Max bound what a node can answer and what a product can hold.       *)
(***************************************************************************)
EXTENDS Integers, Sequences

CONSTANTS
    Builds,     \* concurrent builds
    Jobs,       \* requests, each with the chain it is built through
    Margin, Min, Max, Fallback,  \* of the EnergyFiller
    Default,    \* of the FeeLimitFiller
    BlockTtl, PriceTtl,
    Energies,   \* what a node can say a call needs
    Prices,     \* what a node can say energy costs
    I64Max, I128Max,
    MaxClock,   \* bound on time
    MayDrop     \* whether a caller may drop a build

NoLimit == -1
NoRef == -1
Nobody == "nobody"
FillerNames == {"tapos", "energy", "feelimit", "wallet"}

(***************************************************************************)
(* A job: what the request is, the fee_limit its caller set, whether he    *)
(* set the TAPOS fields (with_tapos), the fillers in the order they were   *)
(* added, and OnEstimateFailure.                                           *)
(***************************************************************************)
AllJobs == [kind : {"transfer", "call", "deploy"}, given : {NoLimit} \cup (0..I64Max),
            anchored : BOOLEAN, chain : Seq(FillerNames), onFailure : {"Fail", "UseFallback"}]

ASSUME BuildsAssumption == Nobody \notin Builds
ASSUME JobsAssumption == Jobs \subseteq AllJobs
ASSUME EnergyAssumption ==
    /\ Margin \in Nat
    /\ {Min, Max, Fallback, Default} \subseteq 0..I64Max
    /\ Min <= Max   \* try_with_bounds
ASSUME TimeAssumption == BlockTtl \in Nat /\ PriceTtl \in Nat /\ MaxClock \in Nat
ASSUME WidthAssumption ==
    /\ I64Max \in Nat /\ I128Max \in Nat
    /\ Energies \subseteq (-I64Max - 1)..I64Max
    /\ Prices \subseteq (-I64Max - 1)..I64Max
ASSUME DropAssumption == MayDrop \in BOOLEAN

VARIABLES
    clock,
    job,         \* what each build was given
    pc,          \* where each build is suspended
    at,          \* the filler of the chain it is at
    limit,       \* fee_limit of its request
    ref,         \* the reference block of its request
    energy,      \* what it was told the call needs
    blockCache,  \* TaposFiller::cached
    blockLock,   \* who holds its mutex
    priceCache,  \* EnergyFiller::price
    priceLock,
    willNot,     \* node_will_not_estimate
    fetches,     \* the block and price fetches that were answered (history)
    refusals,    \* builds that were told EstimateEnergy is not offered (history)
    basis        \* the price a build was sized with (history)

vars == <<clock, job, pc, at, limit, ref, energy, blockCache, blockLock, priceCache,
          priceLock, willNot, fetches, refusals, basis>>
request == <<limit, ref>>
fixed == <<clock, job>>
history == <<fetches, refusals, basis>>
blockVars == <<blockCache, blockLock>>
priceVars == <<priceCache, priceLock>>

Empty == [value |-> 0, at |-> 0, full |-> FALSE]
Unpriced == -1
Running == {"chain", "fetchingBlock", "estimating", "calling", "pricing", "fetchingPrice"}
Over == {"filled", "failed", "dropped"}

Init ==
    /\ clock = 0
    /\ pc = [b \in Builds |-> "idle"]
    /\ at = [b \in Builds |-> 1]
    /\ job \in [Builds -> Jobs]
    /\ limit = [b \in Builds |-> job[b].given]
    /\ ref = [b \in Builds |-> IF job[b].anchored THEN 0 ELSE NoRef]
    /\ energy = [b \in Builds |-> 0]
    /\ blockCache = Empty /\ blockLock = Nobody
    /\ priceCache = Empty /\ priceLock = Nobody
    /\ willNot = FALSE
    /\ fetches = {} /\ refusals = {}
    /\ basis = [b \in Builds |-> Unpriced]

Goto(b, label) == pc' = [pc EXCEPT ![b] = label]
Advance(b) == Goto(b, "chain") /\ at' = [at EXCEPT ![b] = @ + 1]
At(b, filler) == pc[b] = "chain" /\ at[b] <= Len(job[b].chain) /\ job[b].chain[at[b]] = filler
Installed(b, filler) == \E i \in 1..Len(job[b].chain) : job[b].chain[i] = filler
SetLimit(b, amount) == limit' = [limit EXCEPT ![b] = amount]
Fresh(cache, ttl) == cache.full /\ clock - cache.at < ttl

\* contract_needs_fee_limit
NeedsFeeLimit(b) == job[b].kind \in {"call", "deploy"}

-------------------------------------------------------------------------------
(* build_transaction: a synchronous pass, the chain, a synchronous pass.   *)

\* FeeLimitFiller::fill_sync; no other filler has a synchronous part.
FillSync(b) ==
    IF /\ limit[b] = NoLimit /\ NeedsFeeLimit(b)
       /\ Installed(b, "feelimit")
    THEN Default ELSE limit[b]

Begin(b) ==
    /\ pc[b] = "idle"
    /\ SetLimit(b, FillSync(b))
    /\ Goto(b, "chain")
    /\ UNCHANGED <<fixed, at, ref, energy, blockVars, priceVars, willNot, history>>

End(b) ==
    /\ pc[b] = "chain" /\ at[b] > Len(job[b].chain)
    /\ SetLimit(b, FillSync(b))
    /\ Goto(b, "filled")
    /\ UNCHANGED <<fixed, at, ref, energy, blockVars, priceVars, willNot, history>>

\* A filler with no asynchronous part, or with nothing to do for this request.
Pass(b) ==
    /\ \/ At(b, "feelimit") \/ At(b, "wallet")
       \/ At(b, "tapos") /\ ref[b] # NoRef
       \/ At(b, "energy") /\ (limit[b] # NoLimit \/ ~NeedsFeeLimit(b))
    /\ Advance(b)
    /\ UNCHANGED <<fixed, request, energy, blockVars, priceVars, willNot, history>>

-------------------------------------------------------------------------------
(* TaposFiller::fill.                                                      *)

UseCachedBlock(b) ==
    /\ At(b, "tapos") /\ ref[b] = NoRef
    /\ blockLock = Nobody /\ Fresh(blockCache, BlockTtl)
    /\ ref' = [ref EXCEPT ![b] = blockCache.value]
    /\ Advance(b)
    /\ UNCHANGED <<fixed, limit, energy, blockVars, priceVars, willNot, history>>

\* Mutated form: the mutex is given back before the request is made.
FetchBlockUnlocked(b) ==
    /\ At(b, "tapos") /\ ref[b] = NoRef
    /\ blockLock = Nobody /\ ~Fresh(blockCache, BlockTtl)
    /\ Goto(b, "fetchingBlock")
    /\ UNCHANGED <<fixed, at, request, energy, blockVars, priceVars, willNot, history>>

\* A miss: get_now_block is asked with the mutex held.
FetchBlock(b) ==
    /\ At(b, "tapos") /\ ref[b] = NoRef
    /\ blockLock = Nobody /\ ~Fresh(blockCache, BlockTtl)
    /\ blockLock' = b
    /\ Goto(b, "fetchingBlock")
    /\ UNCHANGED <<fixed, at, request, energy, blockCache, priceVars, willNot, history>>

\* The latest block, named by its time, is cached and the mutex given back.
BlockArrives(b) ==
    /\ pc[b] = "fetchingBlock"
    /\ blockCache' = [value |-> clock, at |-> clock, full |-> TRUE]
    /\ blockLock' = Nobody
    /\ ref' = [ref EXCEPT ![b] = clock]
    /\ fetches' = fetches \cup {[what |-> "block", by |-> b, at |-> clock]}
    /\ Advance(b)
    /\ UNCHANGED <<fixed, limit, energy, priceVars, willNot, refusals, basis>>

\* Mutated form: the error path keeps the mutex.
BlockFailsLocked(b) ==
    /\ pc[b] = "fetchingBlock"
    /\ Goto(b, "failed")
    /\ UNCHANGED <<fixed, at, request, energy, blockVars, priceVars, willNot, history>>

\* `?`: the guard is dropped with the error.
BlockFails(b) ==
    /\ pc[b] = "fetchingBlock"
    /\ blockLock' = Nobody
    /\ Goto(b, "failed")
    /\ UNCHANGED <<fixed, at, request, energy, blockCache, priceVars, willNot, history>>

-------------------------------------------------------------------------------
(* EnergyFiller::fill.                                                     *)

Estimating(b) == At(b, "energy") /\ limit[b] = NoLimit /\ job[b].kind = "call"

\* A deployment cannot be priced at all.
FundDeployment(b) ==
    /\ At(b, "energy") /\ limit[b] = NoLimit /\ job[b].kind = "deploy"
    /\ SetLimit(b, Fallback)
    /\ Advance(b)
    /\ UNCHANGED <<fixed, ref, energy, blockVars, priceVars, willNot, history>>

\* energy_needed: EstimateEnergy, unless it was written off.
AskEstimate(b) ==
    /\ Estimating(b)
    /\ Goto(b, IF willNot THEN "calling" ELSE "estimating")
    /\ UNCHANGED <<fixed, at, request, energy, blockVars, priceVars, willNot, history>>

Needs(b, e) ==
    /\ energy' = [energy EXCEPT ![b] = e]
    /\ Goto(b, "pricing")
    /\ UNCHANGED <<fixed, at, request, blockVars, priceVars, willNot, history>>

Estimated(b, e) == pc[b] = "estimating" /\ Needs(b, e)

\* is_unsupported(&err): remembered for every build; the call is run instead.
EstimateUnsupported(b) ==
    /\ pc[b] = "estimating"
    /\ willNot' = TRUE
    /\ refusals' = refusals \cup {b}
    /\ Goto(b, "calling")
    /\ UNCHANGED <<fixed, at, request, energy, blockVars, priceVars, fetches, basis>>

\* Mutated form: any failure writes the endpoint off.
EstimateFailsForGood(b) ==
    /\ pc[b] = "estimating"
    /\ willNot' = TRUE
    /\ Goto(b, "calling")
    /\ UNCHANGED <<fixed, at, request, energy, blockVars, priceVars, history>>

\* Any other failure: the call is run, and nothing is remembered.
EstimateFails(b) ==
    /\ pc[b] = "estimating"
    /\ Goto(b, "calling")
    /\ UNCHANGED <<fixed, at, request, energy, blockVars, priceVars, willNot, history>>

Called(b, e) == pc[b] = "calling" /\ Needs(b, e)

\* The price is unknown: on_failure decides.
Unknown(b) ==
    IF job[b].onFailure = "Fail" THEN Goto(b, "failed") /\ UNCHANGED <<at, limit>>
    ELSE SetLimit(b, Fallback) /\ Advance(b)

\* The read-only call could not be made, or reverted.
CallFails(b) ==
    /\ pc[b] = "calling"
    /\ Unknown(b)
    /\ UNCHANGED <<fixed, ref, energy, blockVars, priceVars, willNot, history>>

-------------------------------------------------------------------------------
(* The price, and the limit.                                               *)

Malformed == -1

Clamp(x) == IF x < Min THEN Min ELSE IF x > Max THEN Max ELSE x

\* Mutated form: wrapping multiplication, clamped afterwards.
EstimateWrapped(e, p) == Clamp(((e * p * (100 + Margin)) % (I128Max + 1)) \div 100)

\* estimate: checked_mul twice, the margin, clamped before it is narrowed.
Estimate(e, p) ==
    IF e < 0 \/ p < 0 \/ e * p > I128Max \/ e * p * (100 + Margin) > I128Max
    THEN Malformed
    ELSE Clamp((e * p * (100 + Margin)) \div 100)

Size(b, p) ==
    IF Estimate(energy[b], p) = Malformed
    THEN Unknown(b) /\ UNCHANGED basis
    ELSE /\ SetLimit(b, Estimate(energy[b], p))
         /\ basis' = [basis EXCEPT ![b] = p]
         /\ Advance(b)

UseCachedPrice(b) ==
    /\ pc[b] = "pricing"
    /\ priceLock = Nobody /\ Fresh(priceCache, PriceTtl)
    /\ Size(b, priceCache.value)
    /\ UNCHANGED <<fixed, ref, energy, blockVars, priceVars, willNot, fetches, refusals>>

FetchPrice(b) ==
    /\ pc[b] = "pricing"
    /\ priceLock = Nobody /\ ~Fresh(priceCache, PriceTtl)
    /\ priceLock' = b
    /\ Goto(b, "fetchingPrice")
    /\ UNCHANGED <<fixed, at, request, energy, blockVars, priceCache, willNot, history>>

PriceArrives(b, p) ==
    /\ pc[b] = "fetchingPrice"
    /\ priceCache' = [value |-> p, at |-> clock, full |-> TRUE]
    /\ priceLock' = Nobody
    /\ fetches' = fetches \cup {[what |-> "price", by |-> b, at |-> clock]}
    /\ Size(b, p)
    /\ UNCHANGED <<fixed, ref, energy, blockVars, willNot, refusals>>

PriceFails(b) ==
    /\ pc[b] = "fetchingPrice"
    /\ priceLock' = Nobody
    /\ Unknown(b)
    /\ UNCHANGED <<fixed, ref, energy, blockVars, priceCache, willNot, history>>

-------------------------------------------------------------------------------
\* The caller drops the build: a guard it holds is dropped with it.
DropBuild(b) ==
    /\ MayDrop
    /\ pc[b] \in Running
    /\ Goto(b, "dropped")
    /\ blockLock' = IF blockLock = b THEN Nobody ELSE blockLock
    /\ priceLock' = IF priceLock = b THEN Nobody ELSE priceLock
    /\ UNCHANGED <<fixed, at, request, energy, blockCache, priceCache, willNot, history>>

Tick ==
    /\ clock < MaxClock
    /\ clock' = clock + 1
    /\ UNCHANGED <<job, pc, at, request, energy, blockVars, priceVars, willNot, history>>

\* Every build is over: nothing more has to happen.
Done == (\A b \in Builds : pc[b] \in Over) /\ UNCHANGED vars

BuildStep(b) ==
    \/ Begin(b) \/ End(b) \/ Pass(b)
    \/ UseCachedBlock(b) \/ FetchBlock(b) \/ BlockArrives(b) \/ BlockFails(b)
    \/ FundDeployment(b) \/ AskEstimate(b) \/ EstimateUnsupported(b) \/ EstimateFails(b)
    \/ \E e \in Energies : Estimated(b, e) \/ Called(b, e)
    \/ CallFails(b) \/ UseCachedPrice(b) \/ FetchPrice(b) \/ PriceFails(b)
    \/ \E p \in Prices : PriceArrives(b, p)

Next ==
    \/ \E b \in Builds : BuildStep(b) \/ DropBuild(b)
    \/ Tick \/ Done

\* A future that is polled goes on: a request is answered or times out, and a
\* free mutex is taken by somebody who waits for it.
Spec == Init /\ [][Next]_vars /\ \A b \in Builds : WF_vars(BuildStep(b))

-------------------------------------------------------------------------------

(***************************************************************************)
(* "Concurrent callers coalesce into one get_now_block request instead of  *)
(* stampeding the node": two answered fetches of a block, or of a price,   *)
(* are at least a TTL apart, whoever made them.                            *)
(***************************************************************************)
Coalesced ==
    \A f, g \in fetches :
        /\ f.what = g.what /\ f.by # g.by /\ f.at <= g.at
        => g.at - f.at >= (IF f.what = "block" THEN BlockTtl ELSE PriceTtl)

(***************************************************************************)
(* "A transaction is never broadcast on a guessed limit": with             *)
(* OnEstimateFailure::Fail, a call that leaves the chain with a limit only *)
(* the EnergyFiller can have set is funded for the energy and the price    *)
(* the node named, or up to the ceiling, and within the bounds.  No        *)
(* contract operation leaves the chain without a limit when a filler for   *)
(* it was installed, and a limit of the caller's own is left alone.        *)
(***************************************************************************)
NeverGuessed ==
    \A b \in Builds : pc[b] = "filled" =>
        /\ job[b].kind = "call" /\ job[b].onFailure = "Fail"
           /\ job[b].given = NoLimit /\ limit[b] # NoLimit
           /\ ~Installed(b, "feelimit")
           => /\ basis[b] # Unpriced /\ energy[b] >= 0
              /\ limit[b] \in Min..Max
              /\ limit[b] >= energy[b] * basis[b] \/ limit[b] = Max
        /\ NeedsFeeLimit(b) /\ (Installed(b, "energy") \/ Installed(b, "feelimit"))
           => limit[b] # NoLimit
        /\ job[b].given # NoLimit => limit[b] = job[b].given

(***************************************************************************)
(* "A refusal is remembered, so a node that does not offer it is only      *)
(* asked once", and "only a node that will never answer is written off":   *)
(* a build that comes to the estimate asks for it until some build has     *)
(* been told that it is not offered, and never again after that, whatever  *)
(* the requests that were under way at the time are answered with.         *)
(***************************************************************************)
EstimateAskedUntilRefused ==
    [][\A b \in Builds :
         pc[b] = "chain" /\ pc'[b] \in {"estimating", "calling"} =>
            (pc'[b] = "calling" <=> refusals # {})]_vars

(***************************************************************************)
(* Every build ends, although builds wait for each other's mutex and one   *)
(* may fail or be dropped while it holds it.                               *)
(***************************************************************************)
EveryBuildEnds == \A b \in Builds : pc[b] # "idle" ~> pc[b] \in Over
===============================================================================
