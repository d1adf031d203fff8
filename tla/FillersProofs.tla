---------------------------- MODULE FillersProofs ----------------------------
(***************************************************************************)
(* Three promises of the filler chain, for any number of builds, any       *)
(* chains, lifetimes of the caches, bounds, margins and widths.            *)
(*                                                                         *)
(* Coalescing rests on the mutexes: who fetches holds the mutex of the     *)
(* cache, which nobody else can refresh meanwhile, so the cache he found   *)
(* stale is stale when his answer arrives.  That no limit is guessed rests *)
(* on where a limit can come from: a build that is inside the EnergyFiller *)
(* has none yet, and leaves it with one or not at all.                     *)
(***************************************************************************)
EXTENDS Fillers, TLAPS

Cache == [value : Int, at : Nat, full : BOOLEAN]
Labels == {"idle"} \cup Running \cup Over
Kinds == {"block", "price"}

TypeOK ==
    /\ clock \in Nat
    /\ job \in [Builds -> AllJobs]
    /\ pc \in [Builds -> Labels]
    /\ at \in [Builds -> Nat \ {0}]
    /\ limit \in [Builds -> Nat \cup {NoLimit}]
    /\ energy \in [Builds -> Int]
    /\ basis \in [Builds -> Int]
    /\ blockCache \in Cache /\ priceCache \in Cache
    /\ fetches \subseteq [what : Kinds, by : Builds, at : Nat]

-------------------------------------------------------------------------------
(* The invariants.                                                         *)

\* Who fetches holds the mutex, and found the cache stale.
Locked ==
    /\ \A b \in Builds :
        /\ pc[b] = "fetchingBlock" => blockLock = b
        /\ pc[b] = "fetchingPrice" => priceLock = b
    /\ blockLock # Nobody => ~Fresh(blockCache, BlockTtl)
    /\ priceLock # Nobody => ~Fresh(priceCache, PriceTtl)

\* The cache holds the answer to the last fetch.
Latest ==
    \A f \in fetches :
        /\ f.what = "block" => blockCache.full /\ f.at <= blockCache.at
        /\ f.what = "price" => priceCache.full /\ f.at <= priceCache.at

Ttl(what) == IF what = "block" THEN BlockTtl ELSE PriceTtl
Spaced ==
    \A f, g \in fetches :
        f # g /\ f.what = g.what /\ f.at <= g.at => g.at - f.at >= Ttl(f.what)

\* A build inside the EnergyFiller is a call that has no limit yet.
Inside(b) == pc[b] \in {"estimating", "calling", "pricing", "fetchingPrice"}
Unlimited(b) == Inside(b) => limit[b] = NoLimit /\ job[b].kind = "call"

\* The fillers that a build has behind it have done their part.
Passed(b) ==
    /\ job[b].given # NoLimit => limit[b] = job[b].given
    /\ \A i \in 1..Len(job[b].chain) :
        i < at[b] /\ job[b].chain[i] = "energy" /\ NeedsFeeLimit(b) => limit[b] # NoLimit
    /\ pc[b] # "idle" /\ Installed(b, "feelimit") /\ NeedsFeeLimit(b) => limit[b] # NoLimit
    /\ pc[b] = "fetchingBlock" => job[b].chain[at[b]] = "tapos"
    /\ pc[b] = "filled" => at[b] > Len(job[b].chain)

\* A limit that only the EnergyFiller can have set is an estimate.
Funded(b) ==
    /\ basis[b] # Unpriced /\ energy[b] >= 0
    /\ limit[b] \in Min..Max
    /\ limit[b] >= energy[b] * basis[b] \/ limit[b] = Max
OnlyEstimated(b) ==
    /\ job[b].kind = "call" /\ job[b].onFailure = "Fail"
    /\ job[b].given = NoLimit /\ ~Installed(b, "feelimit")

BuildOK(b) ==
    /\ Unlimited(b) /\ Passed(b)
    /\ OnlyEstimated(b) /\ limit[b] # NoLimit => Funded(b)

IInv == TypeOK /\ Locked /\ Latest /\ Spaced /\ \A b \in Builds : BuildOK(b)

-------------------------------------------------------------------------------
(* The arithmetic of the estimate.                                         *)

LEMMA Rounding ==
    ASSUME NEW x \in Nat, NEW y \in Nat
    PROVE  (100 * x + y) \div 100 >= x
OBVIOUS

\* A margin on top never rounds below the price itself.
LEMMA MarginCovers ==
    ASSUME NEW x \in Nat
    PROVE  /\ (x * (100 + Margin)) \div 100 \in Int
           /\ (x * (100 + Margin)) \div 100 >= x
<1>1. Margin \in Nat
    BY EnergyAssumption
<1>2. PICK y \in Nat : y = x * Margin
    BY <1>1
<1>3. x * (100 + Margin) = 100 * x + y
    BY <1>1, <1>2
<1>4. 100 * x + y \in Int
    OBVIOUS
<1> QED BY <1>3, <1>4, Rounding

\* An estimate lies within the bounds and covers the energy at its price.
LEMMA EstimateCovers ==
    ASSUME NEW e \in Int, NEW p \in Int, Estimate(e, p) # Malformed
    PROVE  /\ e >= 0 /\ p >= 0
           /\ Estimate(e, p) \in Min..Max /\ Estimate(e, p) \in Nat
           /\ Estimate(e, p) >= e * p \/ Estimate(e, p) = Max
<1> DEFINE v == (e * p * (100 + Margin)) \div 100
<1>1. e >= 0 /\ p >= 0 /\ Estimate(e, p) = Clamp(v)
    BY DEF Estimate
<1>2. PICK x \in Nat : x = e * p
    BY <1>1
<1>3. v \in Int /\ v >= e * p
    BY <1>2, MarginCovers
<1>4. Min \in Nat /\ Max \in Nat /\ Min <= Max
    BY EnergyAssumption, WidthAssumption
<1>5. e * p \in Int
    BY <1>2
<1> HIDE DEF v
<1> QED BY <1>1, <1>3, <1>4, <1>5 DEF Clamp

-------------------------------------------------------------------------------
(* Types.                                                                  *)

LEMMA Constants ==
    /\ Default \in Nat /\ Fallback \in Nat /\ BlockTtl \in Nat /\ PriceTtl \in Nat
    /\ Energies \subseteq Int /\ Prices \subseteq Int /\ Jobs \subseteq AllJobs
    /\ \A n \in Nat : n # NoLimit
BY EnergyAssumption, TimeAssumption, WidthAssumption, JobsAssumption DEF NoLimit

LEMMA InitTypes == Init => TypeOK
<1> SUFFICES ASSUME Init PROVE TypeOK
    OBVIOUS
<1>1. job \in [Builds -> AllJobs]
    BY Constants DEF Init
<1>2. \A b \in Builds : job[b].given \in Nat \cup {NoLimit}
    BY <1>1, WidthAssumption DEF AllJobs
<1>3. limit \in [Builds -> Nat \cup {NoLimit}]
    BY <1>2 DEF Init
<1>4. Empty \in Cache
    BY DEF Empty, Cache
<1> QED BY <1>1, <1>3, <1>4 DEF Init, TypeOK, Labels, Unpriced

\* What sizing a request, or giving up on it, may change.
LEMMA UnknownTypes ==
    ASSUME TypeOK, NEW b \in Builds, Unknown(b)
    PROVE  /\ pc' \in [Builds -> Labels] /\ at' \in [Builds -> Nat \ {0}]
           /\ limit' \in [Builds -> Nat \cup {NoLimit}]
BY Constants DEF TypeOK, Unknown, Goto, Advance, SetLimit, Labels, Running, Over

LEMMA SizeTypes ==
    ASSUME TypeOK, NEW b \in Builds, NEW p \in Int, Size(b, p)
    PROVE  /\ pc' \in [Builds -> Labels] /\ at' \in [Builds -> Nat \ {0}]
           /\ limit' \in [Builds -> Nat \cup {NoLimit}] /\ basis' \in [Builds -> Int]
<1>1. CASE Estimate(energy[b], p) = Malformed
    BY <1>1, UnknownTypes DEF Size, TypeOK
<1>2. CASE Estimate(energy[b], p) # Malformed
    <2>1. Estimate(energy[b], p) \in Nat
        BY <1>2, EstimateCovers DEF TypeOK
    <2> QED BY <1>2, <2>1 DEF Size, TypeOK, Goto, Advance, SetLimit, Labels, Running
<1> QED BY <1>1, <1>2

LEMMA TypeStep ==
    ASSUME TypeOK, [Next]_vars
    PROVE  TypeOK'
<1> USE DEF TypeOK, fixed, history, blockVars, priceVars, request
<1>1. ASSUME NEW b \in Builds, Begin(b) \/ End(b) PROVE TypeOK'
    <2>1. FillSync(b) \in Nat \cup {NoLimit}
        BY Constants DEF FillSync
    <2>2. CASE Begin(b)
        BY <2>1, <2>2 DEF Begin, SetLimit, Goto, Labels, Running
    <2>3. CASE End(b)
        BY <2>1, <2>3 DEF End, SetLimit, Goto, Labels, Over
    <2> QED BY <1>1, <2>2, <2>3
<1>2. ASSUME NEW b \in Builds, Pass(b) \/ UseCachedBlock(b) \/ FundDeployment(b) PROVE TypeOK'
    BY <1>2, Constants DEF Pass, UseCachedBlock, FundDeployment, SetLimit, Advance, Goto, Labels,
                Running
<1>3. ASSUME NEW b \in Builds,
             FetchBlock(b) \/ BlockFails(b) \/ AskEstimate(b) \/ EstimateUnsupported(b)
             \/ EstimateFails(b) \/ FetchPrice(b)
      PROVE TypeOK'
    <2>1. {"fetchingBlock", "failed", "calling", "estimating", "fetchingPrice"} \subseteq Labels
        BY DEF Labels, Running, Over
    <2> QED BY <1>3, <2>1 DEF FetchBlock, BlockFails, AskEstimate, EstimateUnsupported,
                EstimateFails, FetchPrice, Goto
<1>4. ASSUME NEW b \in Builds, BlockArrives(b) PROVE TypeOK'
    <2>1. blockCache' \in Cache
        BY <1>4 DEF BlockArrives, Cache
    <2>2. fetches' \subseteq [what : Kinds, by : Builds, at : Nat]
        BY <1>4 DEF BlockArrives, Kinds
    <2> QED BY <1>4, <2>1, <2>2 DEF BlockArrives, Advance, Goto, Labels, Running
<1>5. ASSUME NEW b \in Builds, NEW e \in Energies, Estimated(b, e) \/ Called(b, e) PROVE TypeOK'
    BY <1>5, Constants DEF Estimated, Called, Needs, Goto, Labels, Running
<1>6. ASSUME NEW b \in Builds, CallFails(b) PROVE TypeOK'
    BY <1>6, UnknownTypes DEF CallFails
<1>7. ASSUME NEW b \in Builds, PriceFails(b) PROVE TypeOK'
    BY <1>7, UnknownTypes DEF PriceFails
<1>8. ASSUME NEW b \in Builds, UseCachedPrice(b) PROVE TypeOK'
    <2>1. priceCache.value \in Int
        BY DEF Cache
    <2> QED BY <1>8, <2>1, SizeTypes DEF UseCachedPrice
<1>9. ASSUME NEW b \in Builds, NEW p \in Prices, PriceArrives(b, p) PROVE TypeOK'
    <2>1. p \in Int
        BY Constants
    <2>2. priceCache' \in Cache
        BY <1>9, <2>1 DEF PriceArrives, Cache
    <2>3. fetches' \subseteq [what : Kinds, by : Builds, at : Nat]
        BY <1>9 DEF PriceArrives, Kinds
    <2>4. Size(b, p)
        BY <1>9 DEF PriceArrives
    <2> QED BY <1>9, <2>1, <2>2, <2>3, <2>4, SizeTypes DEF PriceArrives
<1>10. ASSUME NEW b \in Builds, DropBuild(b) PROVE TypeOK'
    BY <1>10 DEF DropBuild, Goto, Labels, Over
<1>11. CASE Tick \/ Done \/ UNCHANGED vars
    BY <1>11 DEF Tick, Done, vars
<1> QED BY <1>1, <1>2, <1>3, <1>4, <1>5, <1>6, <1>7, <1>8, <1>9, <1>10, <1>11 DEF Next, BuildStep

-------------------------------------------------------------------------------
(* Fetches.                                                                *)

FetchVars == <<blockVars, priceVars, fetches>>

\* A step that neither begins nor ends a fetch.
LEMMA NoFetch ==
    ASSUME TypeOK, Locked, Latest, Spaced, UNCHANGED FetchVars,
           clock' \in Nat, clock' >= clock,
           \A b \in Builds : pc'[b] = pc[b] \/ pc'[b] \notin {"fetchingBlock", "fetchingPrice"}
    PROVE  Locked' /\ Latest' /\ Spaced'
<1> USE DEF TypeOK, FetchVars, blockVars, priceVars
<1>1. Locked'
    BY Constants DEF Locked, Fresh, Cache
<1> QED BY <1>1 DEF Latest, Spaced

\* What a finished fetch of one kind does to the record of fetches.
LEMMA FetchRecorded ==
    ASSUME NEW what \in Kinds, NEW by \in Builds, NEW now \in Nat, NEW ttl \in Nat,
           NEW F, F \subseteq [what : Kinds, by : Builds, at : Nat],
           \A f, g \in F : f # g /\ f.what = g.what /\ f.at <= g.at => g.at - f.at >= Ttl(f.what),
           ttl = Ttl(what), \A f \in F : f.what = what => now - f.at >= ttl
    PROVE  LET G == F \cup {[what |-> what, by |-> by, at |-> now]}
           IN  \A f, g \in G :
                   f # g /\ f.what = g.what /\ f.at <= g.at => g.at - f.at >= Ttl(f.what)
<1> DEFINE new == [what |-> what, by |-> by, at |-> now]
<1> SUFFICES ASSUME NEW f \in F \cup {new}, NEW g \in F \cup {new},
                    f # g, f.what = g.what, f.at <= g.at
             PROVE  g.at - f.at >= Ttl(f.what)
    OBVIOUS
<1>1. new.what = what /\ new.at = now
    OBVIOUS
<1>2. \A h \in F : h.at \in Nat
    OBVIOUS
<1> HIDE DEF new
<1>3. CASE f \in F /\ g \in F
    BY <1>3
<1>4. CASE f \in F /\ g = new
    BY <1>1, <1>4
<1>5. CASE f = new /\ g \in F
    BY <1>1, <1>2, <1>5
<1> QED BY <1>3, <1>4, <1>5

LEMMA FetchStep ==
    ASSUME TypeOK, Locked, Latest, Spaced, [Next]_vars
    PROVE  Locked' /\ Latest' /\ Spaced'
<1> DEFINE Goal == Locked' /\ Latest' /\ Spaced'
<1> USE DEF TypeOK, fixed, history, blockVars, priceVars, request, Goto, Advance
<1>1. ASSUME NEW b \in Builds, FetchBlock(b) PROVE Goal
    <2>1. Locked'
        BY <1>1, BuildsAssumption DEF FetchBlock, Locked, Fresh
    <2> QED BY <1>1, <2>1 DEF FetchBlock, Latest, Spaced
<1>2. ASSUME NEW b \in Builds, FetchPrice(b) PROVE Goal
    <2>1. Locked'
        BY <1>2, BuildsAssumption DEF FetchPrice, Locked, Fresh
    <2> QED BY <1>2, <2>1 DEF FetchPrice, Latest, Spaced
<1>3. ASSUME NEW b \in Builds, BlockArrives(b) PROVE Goal
    <2>1. blockLock = b /\ b # Nobody
        BY <1>3, BuildsAssumption DEF BlockArrives, Locked
    <2>2. \A f \in fetches : f.what = "block" => clock - f.at >= BlockTtl
        BY <2>1, Constants DEF Locked, Latest, Fresh, Cache
    <2>3. fetches' = fetches \cup {[what |-> "block", by |-> b, at |-> clock]}
        BY <1>3 DEF BlockArrives
    <2>4. Spaced'
        BY <2>2, <2>3, FetchRecorded, Constants DEF Spaced, Ttl, Kinds
    <2>5. Latest'
        <3>1. /\ blockCache' = [value |-> clock, at |-> clock, full |-> TRUE]
              /\ priceCache' = priceCache
            BY <1>3 DEF BlockArrives
        <3>2. \A f \in fetches : f.what = "block" => f.at <= clock
            BY <2>2, Constants
        <3> QED BY <2>3, <3>1, <3>2 DEF Latest
    <2>6. Locked'
        BY <1>3, <2>1 DEF BlockArrives, Locked, Fresh
    <2> QED BY <2>4, <2>5, <2>6
<1>4. ASSUME NEW b \in Builds, NEW p \in Prices, PriceArrives(b, p) PROVE Goal
    <2>1. priceLock = b /\ b # Nobody
        BY <1>4, BuildsAssumption DEF PriceArrives, Locked
    <2>2. \A f \in fetches : f.what = "price" => clock - f.at >= PriceTtl
        BY <2>1, Constants DEF Locked, Latest, Fresh, Cache
    <2>3. fetches' = fetches \cup {[what |-> "price", by |-> b, at |-> clock]}
        BY <1>4 DEF PriceArrives
    <2>4. Spaced'
        BY <2>2, <2>3, FetchRecorded, Constants DEF Spaced, Ttl, Kinds
    <2>5. Latest'
        <3>1. /\ priceCache' = [value |-> p, at |-> clock, full |-> TRUE]
              /\ blockCache' = blockCache
            BY <1>4 DEF PriceArrives
        <3>2. \A f \in fetches : f.what = "price" => f.at <= clock
            BY <2>2, Constants
        <3> QED BY <2>3, <3>1, <3>2 DEF Latest
    <2>6. Locked'
        BY <1>4, <2>1 DEF PriceArrives, Size, Unknown, Locked, Fresh
    <2> QED BY <2>4, <2>5, <2>6
<1>5. ASSUME NEW b \in Builds, BlockFails(b) PROVE Goal
    <2>1. Locked'
        BY <1>5 DEF BlockFails, Locked, Fresh
    <2> QED BY <1>5, <2>1 DEF BlockFails, Latest, Spaced
<1>6. ASSUME NEW b \in Builds, PriceFails(b) PROVE Goal
    <2>1. Locked'
        BY <1>6 DEF PriceFails, Unknown, Locked, Fresh
    <2> QED BY <1>6, <2>1 DEF PriceFails, Latest, Spaced
<1>7. ASSUME NEW b \in Builds, DropBuild(b) PROVE Goal
    <2>1. Locked'
        BY <1>7 DEF DropBuild, Locked, Fresh
    <2> QED BY <1>7, <2>1 DEF DropBuild, Latest, Spaced
<1>8. ASSUME UNCHANGED FetchVars, clock' \in Nat, clock' >= clock,
             \A b \in Builds : pc'[b] = pc[b] \/ pc'[b] \notin {"fetchingBlock", "fetchingPrice"}
      PROVE  Goal
    BY <1>8, NoFetch
<1>9. CASE Tick \/ Done \/ UNCHANGED vars
    BY <1>8, <1>9 DEF Tick, Done, vars, FetchVars
<1>10. ASSUME NEW b \in Builds, Begin(b) \/ End(b) \/ Pass(b) \/ UseCachedBlock(b)
              \/ FundDeployment(b) \/ AskEstimate(b) \/ EstimateUnsupported(b) \/ EstimateFails(b)
       PROVE  Goal
    BY <1>8, <1>10 DEF Begin, End, Pass, UseCachedBlock, FundDeployment, AskEstimate,
                EstimateUnsupported, EstimateFails, FetchVars
<1>11. ASSUME NEW b \in Builds, NEW e \in Energies, Estimated(b, e) \/ Called(b, e) PROVE Goal
    BY <1>8, <1>11 DEF Estimated, Called, Needs, FetchVars
<1>12. ASSUME NEW b \in Builds, CallFails(b) \/ UseCachedPrice(b) PROVE Goal
    BY <1>8, <1>12 DEF CallFails, UseCachedPrice, Size, Unknown, FetchVars
<1> QED BY <1>1, <1>2, <1>3, <1>4, <1>5, <1>6, <1>7, <1>9, <1>10, <1>11, <1>12
        DEF Next, BuildStep

-------------------------------------------------------------------------------
(* Limits.                                                                 *)

\* The builds that do not move stay as they are.
LEMMA OthersKept ==
    ASSUME job' = job, NEW c \in Builds, BuildOK(c),
           pc'[c] = pc[c], at'[c] = at[c], limit'[c] = limit[c], energy'[c] = energy[c],
           basis'[c] = basis[c]
    PROVE  BuildOK(c)'
BY DEF BuildOK, Unlimited, Inside, Passed, Funded, OnlyEstimated, Installed, NeedsFeeLimit

\* A build goes on with the limit it has.
LEMMA LimitKept ==
    ASSUME TypeOK, NEW b \in Builds, BuildOK(b), job' = job, limit'[b] = limit[b],
           basis'[b] = basis[b], energy'[b] = energy[b] \/ Inside(b),
           pc[b] # "idle", pc'[b] # "filled",
           pc'[b] = "fetchingBlock" => job[b].chain[at'[b]] = "tapos",
           Inside(b)' => limit[b] = NoLimit /\ job[b].kind = "call",
           \/ at'[b] = at[b]
           \/ /\ at'[b] = at[b] + 1
              /\ job[b].chain[at[b]] = "energy" /\ NeedsFeeLimit(b) => limit[b] # NoLimit
    PROVE  BuildOK(b)'
<1> USE DEF TypeOK
<1>1. Unlimited(b)'
    BY DEF Unlimited
<1>2. Passed(b)'
    <2>1. ASSUME NEW i \in 1..Len(job[b].chain), i < at'[b], job[b].chain[i] = "energy",
                 NeedsFeeLimit(b)
          PROVE  limit[b] # NoLimit
        <3>1. i < at[b] \/ i = at[b]
            BY <2>1
        <3>2. CASE i < at[b]
            BY <2>1, <3>2 DEF BuildOK, Passed
        <3>3. CASE i = at[b]
            BY <2>1, <3>3
        <3> QED BY <3>1, <3>2, <3>3
    <2>2. /\ job[b].given # NoLimit => limit[b] = job[b].given
          /\ Installed(b, "feelimit") /\ NeedsFeeLimit(b) => limit[b] # NoLimit
        BY DEF BuildOK, Passed
    <2> QED BY <2>1, <2>2 DEF Passed, Installed, NeedsFeeLimit
<1>3. OnlyEstimated(b)' /\ limit'[b] # NoLimit => Funded(b)'
    BY DEF BuildOK, Unlimited, OnlyEstimated, Installed, Funded
<1> QED BY <1>1, <1>2, <1>3 DEF BuildOK

\* A build without a limit gets one and goes on.
LEMMA LimitSet ==
    ASSUME TypeOK, NEW b \in Builds, BuildOK(b), job' = job, limit[b] = NoLimit,
           limit'[b] \in Nat, pc'[b] = "chain",
           OnlyEstimated(b) => Funded(b)'
    PROVE  BuildOK(b)'
<1>1. limit'[b] # NoLimit
    BY Constants
<1>2. job[b].given = NoLimit
    BY DEF BuildOK, Passed
<1> QED BY <1>1, <1>2 DEF BuildOK, Unlimited, Inside, Passed, OnlyEstimated, Installed,
                NeedsFeeLimit

\* FeeLimitFiller::fill_sync gives a limit to who needs one, and never changes one.
LEMMA SyncLimit ==
    ASSUME TypeOK, NEW b \in Builds
    PROVE  /\ limit[b] # NoLimit => FillSync(b) = limit[b]
           /\ ~Installed(b, "feelimit") => FillSync(b) = limit[b]
           /\ Installed(b, "feelimit") /\ NeedsFeeLimit(b) => FillSync(b) # NoLimit
BY Constants DEF FillSync, TypeOK

\* Giving up on a price fails the build, or falls back where that is allowed.
LEMMA UnknownOK ==
    ASSUME TypeOK, NEW b \in Builds, BuildOK(b), job' = job, Inside(b), Unknown(b),
           UNCHANGED <<energy, basis>>
    PROVE  BuildOK(b)'
<1> USE DEF TypeOK
<1>1. limit[b] = NoLimit /\ pc[b] # "idle"
    BY DEF BuildOK, Unlimited, Inside
<1>2. CASE job[b].onFailure = "Fail"
    <2>1. pc'[b] = "failed" /\ at'[b] = at[b] /\ limit'[b] = limit[b]
        BY <1>2 DEF Unknown, Goto
    <2> QED BY <1>1, <2>1, LimitKept DEF Inside
<1>3. CASE job[b].onFailure # "Fail"
    <2>1. pc'[b] = "chain" /\ limit'[b] \in Nat
        BY <1>3, Constants DEF Unknown, Goto, Advance, SetLimit
    <2> QED BY <1>1, <1>3, <2>1, LimitSet DEF OnlyEstimated
<1> QED BY <1>2, <1>3

LEMMA SizeOK ==
    ASSUME TypeOK, NEW b \in Builds, NEW p \in Int, BuildOK(b), job' = job, Inside(b), Size(b, p),
           UNCHANGED energy
    PROVE  BuildOK(b)'
<1> USE DEF TypeOK
<1> DEFINE amount == Estimate(energy[b], p)
<1>1. CASE amount = Malformed
    BY <1>1, UnknownOK DEF Size
<1>2. CASE amount # Malformed
    <2>1. /\ energy[b] >= 0 /\ p >= 0 /\ amount \in Min..Max /\ amount \in Nat
          /\ amount >= energy[b] * p \/ amount = Max
        BY <1>2, EstimateCovers
    <2>2. limit'[b] = amount /\ basis'[b] = p /\ pc'[b] = "chain" /\ energy'[b] = energy[b]
        BY <1>2 DEF Size, SetLimit, Advance, Goto
    <2> HIDE DEF amount
    <2>3. Funded(b)'
        BY <2>1, <2>2 DEF Funded, Unpriced
    <2>4. limit[b] = NoLimit
        BY DEF BuildOK, Unlimited
    <2> QED BY <2>1, <2>2, <2>3, <2>4, LimitSet
<1> QED BY <1>1, <1>2

LEMMA LimitStep ==
    ASSUME TypeOK, \A c \in Builds : BuildOK(c), [Next]_vars
    PROVE  \A c \in Builds : BuildOK(c)'
<1> DEFINE Goal == \A c \in Builds : BuildOK(c)'
<1> USE DEF TypeOK, fixed, history, blockVars, priceVars, request
<1>1. ASSUME NEW b \in Builds, BuildOK(b)', job' = job,
             \A c \in Builds \ {b} :
                 /\ pc'[c] = pc[c] /\ at'[c] = at[c] /\ limit'[c] = limit[c]
                 /\ energy'[c] = energy[c] /\ basis'[c] = basis[c]
      PROVE  Goal
    BY <1>1, OthersKept
<1>sync. ASSUME NEW b \in Builds, job' = job, UNCHANGED <<at, energy, basis>>,
             limit'[b] = FillSync(b), ~Inside(b)', pc'[b] # "fetchingBlock",
             pc'[b] = "filled" => at[b] > Len(job[b].chain)
      PROVE  BuildOK(b)'
    <2>1. Unlimited(b)'
        BY <1>sync DEF Unlimited
    <2>2. Passed(b)'
        BY <1>sync, SyncLimit DEF BuildOK, Passed, Installed, NeedsFeeLimit
    <2>3. OnlyEstimated(b)' /\ limit'[b] # NoLimit => Funded(b)'
        BY <1>sync, SyncLimit DEF BuildOK, OnlyEstimated, Installed, Funded
    <2> QED BY <2>1, <2>2, <2>3 DEF BuildOK
<1>2. ASSUME NEW b \in Builds, Begin(b) PROVE Goal
    <2>1. /\ pc[b] = "idle" /\ pc'[b] = "chain" /\ limit'[b] = FillSync(b) /\ job' = job
          /\ UNCHANGED <<at, energy, basis>>
        BY <1>2 DEF Begin, Goto, SetLimit
    <2>2. BuildOK(b)'
        BY <1>sync, <2>1 DEF Inside
    <2> QED BY <1>1, <1>2, <2>1, <2>2 DEF Begin, Goto, SetLimit
<1>3. ASSUME NEW b \in Builds, End(b) PROVE Goal
    <2>1. /\ pc[b] = "chain" /\ pc'[b] = "filled" /\ limit'[b] = FillSync(b) /\ job' = job
          /\ UNCHANGED <<at, energy, basis>> /\ at[b] > Len(job[b].chain)
        BY <1>3 DEF End, Goto, SetLimit
    <2>2. BuildOK(b)'
        BY <1>sync, <2>1 DEF Inside
    <2> QED BY <1>1, <1>3, <2>1, <2>2 DEF End, Goto, SetLimit
<1>4. ASSUME NEW b \in Builds, Pass(b) \/ UseCachedBlock(b) \/ BlockArrives(b) PROVE Goal
    <2>1. /\ pc[b] \in {"chain", "fetchingBlock"} /\ pc'[b] = "chain" /\ at'[b] = at[b] + 1
          /\ UNCHANGED <<job, limit, energy, basis>>
        BY <1>4 DEF Pass, UseCachedBlock, BlockArrives, At, Advance, Goto
    <2>2. job[b].chain[at[b]] = "energy" /\ NeedsFeeLimit(b) => limit[b] # NoLimit
        BY <1>4 DEF Pass, UseCachedBlock, BlockArrives, At, BuildOK, Passed
    <2>3. BuildOK(b)'
        BY <2>1, <2>2, LimitKept DEF Inside
    <2> QED BY <1>1, <1>4, <2>1, <2>3 DEF Pass, UseCachedBlock, BlockArrives, Advance, Goto
<1>5. ASSUME NEW b \in Builds, FetchBlock(b) \/ BlockFails(b) PROVE Goal
    <2>1. /\ pc[b] # "idle" /\ pc'[b] \in {"fetchingBlock", "failed"}
          /\ UNCHANGED <<job, at, limit, energy, basis>>
          /\ pc'[b] = "fetchingBlock" => job[b].chain[at[b]] = "tapos"
        BY <1>5 DEF FetchBlock, BlockFails, At, Goto
    <2>2. BuildOK(b)'
        BY <2>1, LimitKept DEF Inside
    <2> QED BY <1>1, <1>5, <2>1, <2>2 DEF FetchBlock, BlockFails, Goto
<1>6. ASSUME NEW b \in Builds, FundDeployment(b) PROVE Goal
    <2>1. /\ limit[b] = NoLimit /\ job[b].kind = "deploy" /\ pc'[b] = "chain" /\ limit'[b] \in Nat
          /\ UNCHANGED <<job, energy, basis>>
        BY <1>6, Constants DEF FundDeployment, SetLimit, Advance, Goto
    <2>2. BuildOK(b)'
        BY <2>1, LimitSet DEF OnlyEstimated
    <2> QED BY <1>1, <1>6, <2>1, <2>2 DEF FundDeployment, SetLimit, Advance, Goto
<1>7. ASSUME NEW b \in Builds,
             AskEstimate(b) \/ EstimateUnsupported(b) \/ EstimateFails(b) \/ FetchPrice(b)
      PROVE Goal
    <2>1. /\ pc'[b] \in {"calling", "estimating", "fetchingPrice"}
          /\ UNCHANGED <<job, at, limit, energy, basis>>
        BY <1>7 DEF AskEstimate, EstimateUnsupported, EstimateFails, FetchPrice, Goto
    <2>2. limit[b] = NoLimit /\ job[b].kind = "call" /\ pc[b] # "idle"
        <3>1. CASE AskEstimate(b)
            BY <3>1 DEF AskEstimate, Estimating, At
        <3>2. CASE ~AskEstimate(b)
            BY <1>7, <3>2 DEF EstimateUnsupported, EstimateFails, FetchPrice, BuildOK, Unlimited,
                Inside
        <3> QED BY <3>1, <3>2
    <2>3. BuildOK(b)'
        BY <2>1, <2>2, LimitKept
    <2> QED BY <1>1, <1>7, <2>1, <2>3
            DEF AskEstimate, EstimateUnsupported, EstimateFails, FetchPrice, Goto
<1>8. ASSUME NEW b \in Builds, NEW e \in Energies, Estimated(b, e) \/ Called(b, e) PROVE Goal
    <2>1. Inside(b) /\ pc'[b] = "pricing" /\ UNCHANGED <<job, at, limit, basis>>
        BY <1>8 DEF Estimated, Called, Needs, Inside, Goto
    <2>2. limit[b] = NoLimit /\ job[b].kind = "call" /\ pc[b] # "idle"
        BY <2>1 DEF BuildOK, Unlimited, Inside
    <2>3. BuildOK(b)'
        BY <2>1, <2>2, LimitKept
    <2> QED BY <1>1, <1>8, <2>1, <2>3 DEF Estimated, Called, Needs, Goto
<1>9. ASSUME NEW b \in Builds, CallFails(b) \/ PriceFails(b) PROVE Goal
    <2>1. Inside(b) /\ Unknown(b) /\ UNCHANGED <<job, energy, basis>>
        BY <1>9 DEF CallFails, PriceFails, Inside
    <2>2. BuildOK(b)'
        BY <2>1, UnknownOK
    <2> QED BY <1>1, <2>1, <2>2 DEF Unknown, Advance, Goto, SetLimit
<1>10. ASSUME NEW b \in Builds, NEW p \in Int, Inside(b), Size(b, p), UNCHANGED <<job, energy>>
       PROVE  Goal
    <2>1. BuildOK(b)'
        BY <1>10, SizeOK
    <2> QED BY <1>1, <1>10, <2>1 DEF Size, Unknown, Advance, Goto, SetLimit
<1>11. ASSUME NEW b \in Builds, UseCachedPrice(b) PROVE Goal
    <2>1. priceCache.value \in Int
        BY DEF Cache
    <2> QED BY <1>10, <1>11, <2>1 DEF UseCachedPrice, Inside
<1>12. ASSUME NEW b \in Builds, NEW p \in Prices, PriceArrives(b, p) PROVE Goal
    <2>1. p \in Int
        BY Constants
    <2> QED BY <1>10, <1>12, <2>1 DEF PriceArrives, Inside
<1>13. ASSUME NEW b \in Builds, DropBuild(b) PROVE Goal
    <2>1. pc[b] # "idle" /\ pc'[b] = "dropped" /\ UNCHANGED <<job, at, limit, energy, basis>>
        BY <1>13 DEF DropBuild, Goto, Running
    <2>2. BuildOK(b)'
        BY <2>1, LimitKept DEF Inside
    <2> QED BY <1>1, <1>13, <2>1, <2>2 DEF DropBuild, Goto
<1>14. CASE Tick \/ Done \/ UNCHANGED vars
    BY <1>14, OthersKept DEF Tick, Done, vars
<1> QED BY <1>2, <1>3, <1>4, <1>5, <1>6, <1>7, <1>8, <1>9, <1>11, <1>12, <1>13, <1>14
        DEF Next, BuildStep

-------------------------------------------------------------------------------
(* The results.                                                            *)

LEMMA Invariance == Spec => []IInv
<1>1. Init => IInv
    <2> SUFFICES ASSUME Init PROVE IInv
        OBVIOUS
    <2>1. TypeOK
        BY InitTypes
    <2>2. Locked /\ Latest /\ Spaced
        BY BuildsAssumption DEF Init, Locked, Latest, Spaced
    <2>3. ASSUME NEW b \in Builds PROVE BuildOK(b)
        <3>1. pc[b] = "idle" /\ at[b] = 1 /\ limit[b] = job[b].given
            BY DEF Init
        <3> QED BY <3>1 DEF BuildOK, Unlimited, Inside, Passed, OnlyEstimated
    <2> QED BY <2>1, <2>2, <2>3 DEF IInv
<1>2. IInv /\ [Next]_vars => IInv'
    BY TypeStep, FetchStep, LimitStep DEF IInv
<1> QED BY <1>1, <1>2, PTL DEF Spec

(***************************************************************************)
(* Builds that run at once make one request per lifetime of a cache: the   *)
(* mutexes of TaposFiller and EnergyFiller are held through a miss.        *)
(***************************************************************************)
THEOREM CoalescedHolds == Spec => []Coalesced
<1>1. IInv => Coalesced
    BY DEF IInv, Spaced, Coalesced, Ttl
<1> QED BY <1>1, Invariance, PTL

(***************************************************************************)
(* No transaction leaves the chain on a guessed limit, none that needs one *)
(* leaves without, and none of the caller's own is replaced                *)
(* (EnergyFiller::fill, estimate, FeeLimitFiller::fill_sync).              *)
(***************************************************************************)
THEOREM NeverGuessedHolds == Spec => []NeverGuessed
<1>1. IInv => NeverGuessed
    <2> SUFFICES ASSUME IInv, NEW b \in Builds, pc[b] = "filled"
                 PROVE  /\ OnlyEstimated(b) /\ limit[b] # NoLimit => Funded(b)
                        /\ NeedsFeeLimit(b) /\ (Installed(b, "energy") \/ Installed(b, "feelimit"))
                           => limit[b] # NoLimit
                        /\ job[b].given # NoLimit => limit[b] = job[b].given
        BY DEF NeverGuessed, OnlyEstimated, Funded
    <2>1. BuildOK(b) /\ at[b] \in Nat /\ job[b] \in AllJobs
        BY DEF IInv, TypeOK
    <2>2. \A i \in 1..Len(job[b].chain) : i < at[b]
        BY <2>1 DEF BuildOK, Passed, AllJobs
    <2>3. NeedsFeeLimit(b) /\ Installed(b, "energy") => limit[b] # NoLimit
        BY <2>1, <2>2 DEF BuildOK, Passed, Installed
    <2> QED BY <2>1, <2>3 DEF BuildOK, Passed
<1> QED BY <1>1, Invariance, PTL

\* A build comes from its chain to an estimate or a read-only call in one way.
LEMMA OnlyAskEstimate ==
    ASSUME TypeOK, Next, NEW b \in Builds, pc[b] = "chain",
           pc'[b] \in {"estimating", "calling"}
    PROVE  AskEstimate(b)
<1> USE DEF Goto, Advance, TypeOK
<1>1. PICK c \in Builds : BuildStep(c) \/ DropBuild(c)
    BY DEF Next, Tick, Done, vars
<1>2. CASE AskEstimate(c)
    BY <1>2 DEF AskEstimate
<1>3. CASE Begin(c) \/ End(c) \/ Pass(c) \/ DropBuild(c)
    BY <1>3 DEF Begin, End, Pass, DropBuild
<1>4. CASE UseCachedBlock(c) \/ FetchBlock(c) \/ BlockArrives(c) \/ BlockFails(c)
    BY <1>4 DEF UseCachedBlock, FetchBlock, BlockArrives, BlockFails
<1>5. CASE FundDeployment(c) \/ EstimateUnsupported(c) \/ EstimateFails(c)
    BY <1>5 DEF FundDeployment, EstimateUnsupported, EstimateFails
<1>6. CASE \E e \in Energies : Estimated(c, e) \/ Called(c, e)
    BY <1>6 DEF Estimated, Called, Needs
<1>7. CASE CallFails(c) \/ PriceFails(c)
    BY <1>7 DEF CallFails, PriceFails, Unknown
<1>8. CASE UseCachedPrice(c) \/ FetchPrice(c)
    BY <1>8 DEF UseCachedPrice, FetchPrice, Size, Unknown
<1>9. CASE \E p \in Prices : PriceArrives(c, p)
    BY <1>9 DEF PriceArrives, Size, Unknown
<1> QED BY <1>1, <1>2, <1>3, <1>4, <1>5, <1>6, <1>7, <1>8, <1>9 DEF BuildStep

\* The shared flag says what the answers so far have said.
Remembered == willNot \in BOOLEAN /\ (willNot <=> refusals # {})

(***************************************************************************)
(* A build asks for an estimate exactly until one was refused: the flag is *)
(* read before an await and written after it (energy_needed), and no       *)
(* failure of a request that was under way sets it or undoes it, for any   *)
(* number of builds.                                                       *)
(***************************************************************************)
THEOREM EstimateAskedUntilRefusedHolds == Spec => EstimateAskedUntilRefused
<1>1. Init => Remembered
    BY DEF Init, Remembered
<1>2. ASSUME Remembered, [Next]_vars PROVE Remembered'
    <2> USE DEF Remembered, history
    <2>1. ASSUME NEW b \in Builds, EstimateUnsupported(b) PROVE Remembered'
        BY <2>1 DEF EstimateUnsupported
    <2>2. ASSUME ~\E b \in Builds : EstimateUnsupported(b) PROVE UNCHANGED <<willNot, refusals>>
        BY <1>2, <2>2 DEF Next, BuildStep, Begin, End, Pass, UseCachedBlock, FetchBlock,
                BlockArrives, BlockFails, FundDeployment, AskEstimate, EstimateFails, Estimated,
                Called, Needs, CallFails, UseCachedPrice, FetchPrice, PriceFails, PriceArrives,
                DropBuild, Tick, Done, vars
    <2> QED BY <1>2, <2>1, <2>2
<1>3. ASSUME IInv, Remembered, [Next]_vars
      PROVE  [\A b \in Builds :
                 pc[b] = "chain" /\ pc'[b] \in {"estimating", "calling"} =>
                    (pc'[b] = "calling" <=> refusals # {})]_vars
    <2> SUFFICES ASSUME Next, NEW b \in Builds, pc[b] = "chain",
                        pc'[b] \in {"estimating", "calling"}
                 PROVE  pc'[b] = "calling" <=> refusals # {}
        BY <1>3
    <2>1. pc'[b] = IF willNot THEN "calling" ELSE "estimating"
        BY <1>3, OnlyAskEstimate DEF AskEstimate, Estimating, At, Goto, IInv, TypeOK
    <2> QED BY <1>3, <2>1 DEF Remembered
<1> QED BY <1>1, <1>2, <1>3, Invariance, PTL DEF Spec, EstimateAskedUntilRefused
=============================================================================
