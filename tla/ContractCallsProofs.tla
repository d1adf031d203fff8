-------------------------- MODULE ContractCallsProofs --------------------------
(***************************************************************************)
(* What is proved of contract calls, for any clients, contracts and number *)
(* of calls: an energy estimate foresees the transaction that is sent from *)
(* the same builder; the ledger is what the calls asked for; a read gives  *)
(* the contract's value or an error; and a deployment is as it reports.    *)
(* What the encoders, decoders and ABIs do with the few interfaces there   *)
(* are is a hypothesis on constants (EncodersAgree, DecodersAgree,         *)
(* AbiSurvives), which TLC evaluates; what a client does with the results  *)
(* is proved.                                                              *)
(***************************************************************************)
EXTENDS ContractCalls, TLAPS

\* A simulation as this account, with this value, on the ledger as it is.
Simulated(data, caller, value) == Run(kind, data, caller, value, there[1].ledger)

\* An estimate that is not stale still says what execution would do.
Fits(x, caller) ==
    /\ x.estimate = "ok" => there # <<>> /\ Simulated(x.data, caller, x.value).ok
    /\ x.estimate = "reverts" => there # <<>> /\ ~Simulated(x.data, caller, x.value).ok

IsBuilder(b) ==
    DOMAIN b = {"client", "caller", "value", "data", "returns", "strict", "m", "p", "asked", "estimate"}
IsCall(t) ==
    DOMAIN t = {"type", "owner", "data", "value", "m", "p", "by", "estimate", "id"}

\* One call is under way at a time: at the builder, or in the pool; and a
\* deployment before any of them.
BuilderWell ==
    builder # <<>> => /\ builder = <<builder[1]>> /\ IsBuilder(builder[1])
                      /\ Fits(builder[1], ResolvedCaller(builder[1]))
                      /\ pool = {} /\ receipt # <<>>
PoolWell ==
    /\ \A s, t \in pool : s = t
    /\ \A t \in pool : IF t.type = "call" THEN IsCall(t) /\ Fits(t, t.owner) ELSE receipt = <<>>
\* A deployment comes before there is a contract.
ThereWell == there # <<>> => receipt # <<>>
EstimateInv == BuilderWell /\ PoolWell /\ ThereWell /\ EstimateForesees

-------------------------------------------------------------------------------

\* The account that a request is made for is the one that was simulated.
LEMMA OwnerIsTheCaller ==
    ASSUME NEW b, RequestOwner(b) # <<>>
    PROVE  RequestOwner(b)[1] = ResolvedCaller(b)
BY DEF RequestOwner, ResolvedCaller, OrElse, DefaultCaller

\* As long as the ledger stays, so does what an estimate says of it.
LEMMA EstimateKept ==
    ASSUME UNCHANGED <<kind, there>>
    PROVE  /\ \A x, caller : Fits(x, caller) => Fits(x, caller)'
           /\ \A b : Fits(b, ResolvedCaller(b)) => Fits(b, ResolvedCaller(b))'
BY DEF Fits, Simulated, ResolvedCaller

LEMMA EstimateInit == Init => EstimateInv
BY DEF Init, EstimateInv, BuilderWell, PoolWell, ThereWell, EstimateForesees

\* While the ledger and what waits on it stay, so do the estimates.
LEMMA NothingMoves ==
    ASSUME EstimateInv, UNCHANGED <<kind, there, builder, pool, receipt>>
    PROVE  EstimateInv'
BY DEF EstimateInv, BuilderWell, PoolWell, ThereWell, EstimateForesees, Fits, Simulated

LEMMA DeployStep ==
    ASSUME EstimateInv, NEW c \in Clients, Deploy(c)
    PROVE  EstimateInv'
<1>1. receipt = <<>> /\ builder = <<>> /\ UNCHANGED <<kind, there, builder, receipt>>
    BY DEF Deploy, EstimateInv, BuilderWell
<1>2. pool' = pool \/ \E tx : pool' = {tx} /\ tx.type = "create"
    BY DEF Deploy
<1>3. PoolWell'
    BY <1>1, <1>2 DEF EstimateInv, PoolWell, Fits, Simulated
<1> QED BY <1>1, <1>3 DEF EstimateInv, BuilderWell, ThereWell, EstimateForesees

LEMMA ExecuteCreateStep ==
    ASSUME EstimateInv, NEW tx \in pool, ExecuteCreate(tx)
    PROVE  EstimateInv'
<1>1. receipt = <<>> /\ builder = <<>> /\ builder' = <<>> /\ pool' = {}
    BY DEF ExecuteCreate, EstimateInv, BuilderWell, PoolWell
<1>2. PICK ok, address : receipt' = <<[type |-> "create", ok |-> ok, address |-> address]>>
    BY DEF ExecuteCreate
<1>3. receipt' # <<>> /\ EstimateForesees'
    BY <1>2 DEF EstimateForesees
<1> QED BY <1>1, <1>3 DEF EstimateInv, BuilderWell, PoolWell, ThereWell

LEMMA LookStep ==
    ASSUME EstimateInv, Look
    PROVE  EstimateInv'
<1>1. builder' = <<>> /\ pool' = {} /\ receipt' = Looked
    BY DEF Look
<1>2. receipt' # <<>> /\ DOMAIN receipt' = {1} /\ receipt'[1].type = "looked"
    BY <1>1 DEF Looked
<1>3. EstimateForesees'
    BY <1>2 DEF EstimateForesees
<1> QED BY <1>1, <1>2, <1>3 DEF EstimateInv, BuilderWell, PoolWell, ThereWell

LEMMA NewCallStep ==
    ASSUME EstimateInv, NEW c \in Clients, NewCall(c)
    PROVE  EstimateInv'
<1>1. pool = {} /\ pool' = {} /\ receipt # <<>> /\ UNCHANGED <<kind, there, receipt>>
    BY DEF NewCall, Looked
<1>2. builder' = <<>> \/ \E ic, e, m, p : builder' = <<CallRaw(c, ic, e, m, p)>>
    BY DEF NewCall
<1>3. BuilderWell'
    <2>1. CASE builder' = <<>>
        BY <2>1 DEF BuilderWell
    <2>2. ASSUME NEW ic, NEW e, NEW m, NEW p, builder' = <<CallRaw(c, ic, e, m, p)>>
          PROVE  BuilderWell'
        <3>1. IsBuilder(builder'[1]) /\ builder'[1].estimate = "none" /\ builder' = <<builder'[1]>>
            BY <2>2 DEF CallRaw, IsBuilder
        <3> QED BY <1>1, <3>1 DEF BuilderWell, Fits
    <2> QED BY <1>2, <2>1, <2>2
<1> QED BY <1>1, <1>3 DEF EstimateInv, PoolWell, ThereWell, EstimateForesees

\* A setter voids what was estimated.
LEMMA SetterStep ==
    ASSUME EstimateInv, builder # <<>>, UNCHANGED <<kind, there, pool, receipt>>,
           NEW b, builder' = <<b>>, IsBuilder(b), b.estimate = "none"
    PROVE  EstimateInv'
<1>1. BuilderWell'
    BY DEF EstimateInv, BuilderWell, Fits
<1> QED BY <1>1 DEF EstimateInv, BuilderWell, PoolWell, ThereWell, EstimateForesees

LEMMA SetValueStep ==
    ASSUME EstimateInv, SetValue
    PROVE  EstimateInv'
<1> DEFINE b == [builder[1] EXCEPT !.value = 1, !.estimate = "none"]
<1>1. IsBuilder(builder[1]) /\ builder # <<>> /\ builder' = <<b>>
      /\ UNCHANGED <<kind, there, pool, receipt>>
    BY DEF SetValue, EstimateInv, BuilderWell
<1>2. IsBuilder(b) /\ b.estimate = "none"
    BY <1>1 DEF IsBuilder
<1> QED BY <1>1, <1>2, SetterStep

LEMMA SetCallerStep ==
    ASSUME EstimateInv, NEW x \in Signers, SetCaller(x)
    PROVE  EstimateInv'
<1> DEFINE b == [builder[1] EXCEPT !.caller = <<x>>, !.asked = <<x>>, !.estimate = "none"]
<1>1. IsBuilder(builder[1]) /\ builder # <<>> /\ builder' = <<b>>
      /\ UNCHANGED <<kind, there, pool, receipt>>
    BY DEF SetCaller, EstimateInv, BuilderWell
<1>2. IsBuilder(b) /\ b.estimate = "none"
    BY <1>1 DEF IsBuilder
<1> QED BY <1>1, <1>2, SetterStep

LEMMA EstimateStep ==
    ASSUME EstimateInv, Estimate
    PROVE  EstimateInv'
<1> DEFINE b == builder[1]
           run == Simulated(b.data, ResolvedCaller(b), b.value)
           said == IF run.ok THEN "ok" ELSE "reverts"
           n == [b EXCEPT !.estimate = said]
<1>1. /\ IsBuilder(b) /\ builder # <<>> /\ pool = {} /\ receipt # <<>> /\ there # <<>>
      /\ builder' = <<n>> /\ UNCHANGED <<kind, there, pool, receipt>>
    BY DEF Estimate, EstimateInv, BuilderWell, Simulated
<1> HIDE DEF run
<1>2. /\ IsBuilder(n) /\ n.estimate = said /\ n.data = b.data /\ n.value = b.value
      /\ n.caller = b.caller /\ n.client = b.client
    BY <1>1 DEF IsBuilder
<1>3. Simulated(n.data, ResolvedCaller(n), n.value) = run
    BY <1>2 DEF run, ResolvedCaller
<1>4. Fits(n, ResolvedCaller(n))
    BY <1>1, <1>2, <1>3 DEF Fits
<1>5. PICK now : now = n
    OBVIOUS
<1>6. Fits(now, ResolvedCaller(now))'
    BY <1>1, <1>4, <1>5, EstimateKept
<1>7. BuilderWell'
    BY <1>1, <1>2, <1>5, <1>6 DEF BuilderWell
<1> QED BY <1>1, <1>7 DEF EstimateInv, PoolWell, ThereWell, EstimateForesees

LEMMA SendStep ==
    ASSUME EstimateInv, Send
    PROVE  EstimateInv'
<1> DEFINE b == builder[1]
           owner == RequestOwner(b)
<1>1. /\ builder # <<>> /\ pool = {} /\ receipt # <<>> /\ Fits(b, ResolvedCaller(b))
      /\ builder' = <<>> /\ UNCHANGED <<kind, there, receipt>>
    BY DEF Send, EstimateInv, BuilderWell
<1>2. CASE pool' = pool
    BY <1>1, <1>2 DEF EstimateInv, BuilderWell, PoolWell, ThereWell, EstimateForesees
<1>3. CASE pool' # pool
    <2> DEFINE new == [type |-> "call", owner |-> owner[1], data |-> b.data, value |-> b.value,
                       m |-> b.m, p |-> b.p, by |-> AskedBy(b), estimate |-> b.estimate, id |-> sends]
    <2>1. owner # <<>> /\ pool' = pool \cup {new}
        BY <1>3 DEF Send
    <2>a. /\ new.type = "call" /\ IsCall(new) /\ new.owner = owner[1]
          /\ new.data = b.data /\ new.value = b.value /\ new.estimate = b.estimate
        BY DEF IsCall
    <2> HIDE DEF new
    <2>b. pool' = {new}
        BY <1>1, <2>1
    <2>2. PICK tx : /\ pool' = {tx} /\ tx.type = "call" /\ IsCall(tx) /\ tx.owner = owner[1]
                    /\ tx.data = b.data /\ tx.value = b.value /\ tx.estimate = b.estimate
        BY <2>a, <2>b
    <2>3. Fits(tx, tx.owner)
        BY <1>1, <2>1, <2>2, OwnerIsTheCaller DEF Fits
    <2>4. Fits(tx, tx.owner)'
        BY <1>1, <2>3, EstimateKept
    <2>5. PoolWell'
        BY <2>2, <2>4 DEF PoolWell
    <2> QED BY <1>1, <2>5 DEF EstimateInv, BuilderWell, ThereWell, EstimateForesees
<1> QED BY <1>2, <1>3

LEMMA CallConstantStep ==
    ASSUME EstimateInv, CallConstant
    PROVE  EstimateInv'
<1>1. builder' = <<>> /\ UNCHANGED <<kind, there, pool, receipt>>
    BY DEF CallConstant
<1>2. PoolWell'
    BY <1>1 DEF EstimateInv, PoolWell, Fits, Simulated
<1> QED BY <1>1, <1>2 DEF EstimateInv, BuilderWell, ThereWell, EstimateForesees

\* The transaction's own estimate is held against what it does; no other waits.
LEMMA ExecuteStep ==
    ASSUME EstimateInv, NEW tx \in pool, Execute(tx)
    PROVE  EstimateInv'
<1> DEFINE run == Simulated(tx.data, tx.owner, tx.value)
<1>1. Fits(tx, tx.owner) /\ builder = <<>> /\ builder' = <<>> /\ pool' = {}
    BY DEF Execute, EstimateInv, BuilderWell, PoolWell
<1>2. receipt' = <<[type |-> "call", ok |-> run.ok, logs |-> run.logs, estimate |-> tx.estimate]>>
    BY DEF Execute, Simulated
<1> HIDE DEF run
<1>3. receipt' # <<>> /\ DOMAIN receipt' = {1} /\ receipt'[1].ok = run.ok
      /\ receipt'[1].estimate = tx.estimate
    BY <1>2
<1>4. EstimateForesees'
    BY <1>1, <1>3 DEF EstimateForesees, Fits, run
<1> QED BY <1>1, <1>3, <1>4 DEF EstimateInv, BuilderWell, PoolWell, ThereWell

LEMMA AgedSaysNothing ==
    ASSUME NEW x, "estimate" \in DOMAIN x
    PROVE  /\ DOMAIN Aged(x) = DOMAIN x /\ Aged(x).estimate \in {"none", "stale"}
           /\ \A f \in DOMAIN x : f # "estimate" => Aged(x)[f] = x[f]
BY DEF Aged

LEMMA ElsewhereStep ==
    ASSUME EstimateInv, NEW x \in Signers, Elsewhere(x)
    PROVE  EstimateInv'
<1>1. /\ there # <<>> /\ receipt # <<>> /\ UNCHANGED <<kind, receipt>>
      /\ builder' = [i \in DOMAIN builder |-> Aged(builder[i])] /\ pool' = {Aged(t) : t \in pool}
    BY DEF Elsewhere, EstimateInv, ThereWell
<1>2. BuilderWell'
    <2>1. CASE builder = <<>>
        <3>1. builder' = <<>>
            BY <1>1, <2>1
        <3> QED BY <3>1 DEF BuilderWell
    <2>2. CASE builder # <<>>
        <3>1. builder = <<builder[1]>> /\ IsBuilder(builder[1]) /\ pool = {}
            BY <2>2 DEF EstimateInv, BuilderWell
        <3>2. DOMAIN builder = {1}
            BY <3>1
        <3>3. builder' = <<Aged(builder[1])>>
            BY <1>1, <3>2
        <3>4. IsBuilder(builder'[1]) /\ builder'[1].estimate \in {"none", "stale"}
            BY <3>1, <3>3, AgedSaysNothing DEF IsBuilder
        <3>5. pool' = {} /\ builder' = <<builder'[1]>>
            BY <1>1, <3>1, <3>3
        <3> QED BY <1>1, <3>4, <3>5 DEF BuilderWell, Fits
    <2> QED BY <2>1, <2>2
<1>3. PoolWell'
    <2>1. \A t \in pool : t.type = "call" /\ IsCall(t)
        BY <1>1 DEF EstimateInv, PoolWell
    <2>2. \A t \in pool : Aged(t).type = "call" /\ IsCall(Aged(t)) /\ Aged(t).estimate \in {"none", "stale"}
        BY <2>1, AgedSaysNothing DEF IsCall
    <2>3. \A t \in pool' : t.type = "call" /\ IsCall(t) /\ t.estimate \in {"none", "stale"}
        BY <1>1, <2>2
    <2>4. \A s, t \in pool' : s = t
        BY <1>1 DEF EstimateInv, PoolWell
    <2> QED BY <2>3, <2>4 DEF PoolWell, Fits
<1> QED BY <1>1, <1>2, <1>3 DEF EstimateInv, ThereWell, EstimateForesees

LEMMA EstimateInvStep == EstimateInv /\ [Next]_vars => EstimateInv'
<1> SUFFICES ASSUME EstimateInv, [Next]_vars PROVE EstimateInv'
    OBVIOUS
<1>1. ASSUME NEW c \in Clients, Deploy(c) PROVE EstimateInv'
    BY <1>1, DeployStep
<1>2. ASSUME NEW c \in Clients, NewCall(c) PROVE EstimateInv'
    BY <1>2, NewCallStep
<1>3. ASSUME NEW tx \in pool, ExecuteCreate(tx) PROVE EstimateInv'
    BY <1>3, ExecuteCreateStep
<1>4. ASSUME NEW tx \in pool, Execute(tx) PROVE EstimateInv'
    BY <1>4, ExecuteStep
<1>5. CASE DeployReturns
    BY <1>5, NothingMoves DEF DeployReturns
<1>6. CASE DeployTimesOut
    BY <1>6, NothingMoves DEF DeployTimesOut
<1>7. CASE LoadInterface
    BY <1>7, NothingMoves DEF LoadInterface
<1>8. CASE Look
    BY <1>8, LookStep
<1>9. CASE SetValue
    BY <1>9, SetValueStep
<1>10. ASSUME NEW x \in Signers, SetCaller(x) PROVE EstimateInv'
    BY <1>10, SetCallerStep
<1>11. ASSUME NEW x \in Signers, Elsewhere(x) PROVE EstimateInv'
    BY <1>11, ElsewhereStep
<1>12. CASE Estimate
    BY <1>12, EstimateStep
<1>13. CASE CallConstant
    BY <1>13, CallConstantStep
<1>14. CASE Send
    BY <1>14, SendStep
<1>15. CASE UNCHANGED vars
    BY <1>15, NothingMoves DEF vars
<1> QED
    BY <1>1, <1>2, <1>3, <1>4, <1>5, <1>6, <1>7, <1>8, <1>9, <1>10, <1>11, <1>12, <1>13, <1>14, <1>15
    DEF Next

(***************************************************************************)
(* A call whose energy was estimated, and that is then sent from the same  *)
(* builder with no other call executed in between, does what the estimate  *)
(* saw, whoever is the caller: the explicit one, the provider's signer or  *)
(* nobody (estimate_energy, to_request, resolved_caller).                  *)
(***************************************************************************)
THEOREM EstimateForeseesHolds == Spec => []EstimateForesees
<1>1. EstimateInv => EstimateForesees
    BY DEF EstimateInv
<1> QED BY <1>1, EstimateInit, EstimateInvStep, PTL DEF Spec

-------------------------------------------------------------------------------
(* A deployment in the pool is of the contract this application is about.  *)

CreateWell(t) ==
    t.type = "create" => t.abi \in OfferNames /\ t.bytecode = DeployBytecode(kind, <<t.holder>>)
CreateInv == EstimateInv /\ kind \in Kinds /\ \A t \in pool : CreateWell(t)

LEMMA CreateInit == Init => CreateInv
BY EstimateInit DEF CreateInv, Init

LEMMA CreateInvStep == CreateInv /\ [Next]_vars => CreateInv'
<1> SUFFICES ASSUME CreateInv, [Next]_vars PROVE CreateInv'
    OBVIOUS
<1>0. EstimateInv' /\ kind' = kind
    <2>1. EstimateInv'
        BY EstimateInvStep DEF CreateInv
    <2>2. kind' = kind
        BY DEF Next, vars, Deploy, NewCall, ExecuteCreate, Execute, DeployReturns, DeployTimesOut,
               LoadInterface, Look, SetValue, SetCaller, Elsewhere, Estimate, CallConstant, Send
    <2> QED BY <2>1, <2>2
<1>1. CASE pool' \subseteq pool
    BY <1>0, <1>1 DEF CreateInv, CreateWell
<1>2. ASSUME NEW c \in Clients, Deploy(c), ~(pool' \subseteq pool) PROVE CreateInv'
    <2>1. PICK offer \in OfferNames, holder \in Signers, from \in {<<>>} \cup {<<x>> : x \in Signers} :
            /\ DeployRequest(c, from, offer).ok
            /\ pool' = {[type |-> "create", owner |-> DeployRequest(c, from, offer).v.owner,
                         abi |-> DeployRequest(c, from, offer).v.abi,
                         bytecode |-> DeployBytecode(kind, <<holder>>), holder |-> holder]}
        BY <1>2 DEF Deploy
    <2>2. DeployRequest(c, from, offer).v.abi = offer
        BY <2>1 DEF DeployRequest, AndThen, Ok, Err
    <2>3. \A t \in pool' : t.abi \in OfferNames /\ t.bytecode = DeployBytecode(kind', <<t.holder>>)
        BY <1>0, <2>1, <2>2
    <2> QED BY <1>0, <2>3 DEF CreateInv, CreateWell
<1>3. ASSUME NEW x \in Signers, Elsewhere(x) PROVE CreateInv'
    <2>1. \A t \in pool : t.type = "call" /\ IsCall(t)
        BY <1>3 DEF Elsewhere, CreateInv, EstimateInv, PoolWell, ThereWell
    <2>2. \A t \in pool : Aged(t).type = "call"
        BY <2>1, AgedSaysNothing DEF IsCall
    <2>3. \A t \in pool' : t.type = "call"
        BY <1>3, <2>2 DEF Elsewhere
    <2> QED BY <1>0, <2>3 DEF CreateInv, CreateWell
<1>4. CASE Send
    <2>1. \A t \in pool' : t \in pool \/ t.type = "call"
        BY <1>4 DEF Send
    <2> QED BY <1>0, <2>1 DEF CreateInv, CreateWell
<1>5. ASSUME NEW tx \in pool, ExecuteCreate(tx) \/ Execute(tx) PROVE CreateInv'
    BY <1>1, <1>5 DEF ExecuteCreate, Execute
<1>6. ASSUME NEW c \in Clients, NewCall(c) PROVE CreateInv'
    BY <1>1, <1>6 DEF NewCall
<1>7. CASE DeployReturns \/ DeployTimesOut \/ LoadInterface \/ Look \/ SetValue \/ Estimate \/ CallConstant
    BY <1>1, <1>7 DEF DeployReturns, DeployTimesOut, LoadInterface, Look, SetValue, Estimate, CallConstant
<1>8. ASSUME NEW x \in Signers, SetCaller(x) PROVE CreateInv'
    BY <1>1, <1>8 DEF SetCaller
<1>9. CASE UNCHANGED vars
    BY <1>1, <1>9 DEF vars
<1> QED BY <1>1, <1>2, <1>3, <1>4, <1>5, <1>6, <1>7, <1>8, <1>9 DEF Next

-------------------------------------------------------------------------------
(* What is asked is what is done.  The contracts' code (Effect) and the    *)
(* tables of encoders stay opaque; that the tables agree (EncodersAgree)   *)
(* is a hypothesis about constants, which TLC evaluates.                   *)

\* The owner of a request and the account that was asked for are the same.
AsAsked(b) == Says(kind, b.data, b.m, b.p) /\ b.asked = b.caller
Agreed == builder # <<>> => AsAsked(builder[1])
CallWell(t) == t.type = "call" => Says(kind, t.data, t.m, t.p) /\ t.by = t.owner
PoolAgreed == \A t \in pool : CallWell(t)
Standing ==
    there # <<>> => /\ DOMAIN there[1] = {"abi", "creator", "ledger"}
                    /\ there[1].abi \in OfferNames
MeantInv == CreateInv /\ Agreed /\ PoolAgreed /\ Standing /\ LedgerAsAsked

\* Calldata that says a call is run as that call.
LEMMA RunOfSaid ==
    ASSUME NEW k, NEW data, NEW m, NEW p, Says(k, data, m, p)
    PROVE  \A who, value, l : Run(k, data, who, value, l) = Effect(k, m, p, who, value, l)
BY DEF Says, Run

\* Whose call it is, by what was asked and by what is requested.
LEMMA AskedIsResolved ==
    ASSUME NEW b, b.asked = b.caller
    PROVE  AskedBy(b) = ResolvedCaller(b)
BY DEF AskedBy, ResolvedCaller, DefaultCaller

LEMMA MeantInit == Init => MeantInv
<1> SUFFICES ASSUME Init PROVE MeantInv
    OBVIOUS
<1>1. CreateInv
    BY CreateInit
<1>2. there = <<>> /\ builder = <<>> /\ pool = {}
    BY DEF Init
<1> QED BY <1>1, <1>2 DEF MeantInv, Agreed, PoolAgreed, Standing, LedgerAsAsked

\* Only what a builder holds, what waits and the ledger count.
LEMMA MeantStays ==
    ASSUME MeantInv, CreateInv', UNCHANGED <<kind, there, meant>>, Agreed', PoolAgreed'
    PROVE  MeantInv'
BY DEF MeantInv, Standing, LedgerAsAsked

LEMMA MeantNothingMoves ==
    ASSUME MeantInv, CreateInv', UNCHANGED <<kind, there, builder, pool, meant>>
    PROVE  MeantInv'
<1>1. Agreed' /\ PoolAgreed'
    BY DEF MeantInv, Agreed, AsAsked, PoolAgreed, CallWell
<1> QED BY <1>1, MeantStays

LEMMA MeantDeploy ==
    ASSUME MeantInv, CreateInv', NEW c \in Clients, Deploy(c)
    PROVE  MeantInv'
<1>1. builder = <<>> /\ UNCHANGED <<kind, there, builder, meant>>
    BY DEF Deploy, MeantInv, CreateInv, EstimateInv, BuilderWell
<1>2. pool' = pool \/ \A t \in pool' : t.type = "create"
    BY DEF Deploy
<1>3. Agreed' /\ PoolAgreed'
    BY <1>1, <1>2 DEF MeantInv, Agreed, PoolAgreed, CallWell
<1> QED BY <1>1, <1>3, MeantStays

LEMMA MeantExecuteCreate ==
    ASSUME MeantInv, CreateInv', NEW tx \in pool, ExecuteCreate(tx)
    PROVE  MeantInv'
<1>1. /\ builder' = <<>> /\ pool' = {} /\ kind' = kind
      /\ tx.abi \in OfferNames /\ tx.bytecode = DeployBytecode(kind, <<tx.holder>>)
    BY DEF ExecuteCreate, MeantInv, CreateInv, EstimateInv, BuilderWell, PoolWell, CreateWell
<1>2. Agreed' /\ PoolAgreed'
    BY <1>1 DEF Agreed, PoolAgreed
<1>3. CASE UNCHANGED <<there, meant>>
    BY <1>1, <1>2, <1>3, MeantStays
<1>4. CASE ~UNCHANGED <<there, meant>>
    <2>1. /\ there' = <<[abi |-> tx.abi, creator |-> tx.owner,
                         ledger |-> NewLedger(tx.bytecode.code, tx.bytecode.args[1])]>>
          /\ meant' = NewLedger(kind, tx.holder)
        BY <1>4 DEF ExecuteCreate
    <2>2. NewLedger(tx.bytecode.code, tx.bytecode.args[1]) = NewLedger(kind, tx.holder)
        BY <1>1 DEF DeployBytecode
    <2>3. Standing' /\ LedgerAsAsked'
        BY <1>1, <2>1, <2>2 DEF Standing, LedgerAsAsked
    <2> QED BY <1>1, <1>2, <2>3 DEF MeantInv
<1> QED BY <1>3, <1>4

LEMMA MeantNewCall ==
    ASSUME EncodersAgree, MeantInv, CreateInv', NEW c \in Clients, NewCall(c)
    PROVE  MeantInv'
<1> DEFINE n == IF there = <<>> THEN NoContract ELSE there[1].abi
<1>1. pool' = {} /\ UNCHANGED <<kind, there, meant>> /\ kind \in Kinds
      /\ n \in OfferNames \cup {NoContract}
    BY DEF NewCall, MeantInv, CreateInv, Standing
<1>2. PoolAgreed'
    BY <1>1 DEF PoolAgreed
<1>3. Agreed'
    <2>1. PICK call \in Calls[kind][n], ic \in {<<>>} \cup {<<x>> : x \in Signers} :
            IF call.encoding.ok
            THEN /\ builder' = <<CallRaw(c, ic, call.encoding.v, call.m, call.p)>>
                 /\ answer' = NoAnswer
            ELSE builder' = <<>> /\ answer' = Error(call.encoding.e)
        BY Zenon DEF NewCall
    <2>2. CASE builder' = <<>>
        BY <2>2 DEF Agreed
    <2>3. CASE builder' # <<>>
        <3>1. Says(kind, call.encoding.v.data, call.m, call.p)
            BY <1>1, <2>1, <2>3 DEF EncodersAgree
        <3>2. PICK b : b = CallRaw(c, ic, call.encoding.v, call.m, call.p)
            OBVIOUS
        <3>3. builder' = <<b>> /\ b.data = call.encoding.v.data /\ b.m = call.m /\ b.p = call.p
              /\ b.asked = b.caller
            BY <2>1, <2>3, <3>2 DEF CallRaw
        <3>4. Says(kind', b.data, b.m, b.p) /\ builder'[1] = b
            BY <1>1, <3>1, <3>3
        <3> QED BY <3>3, <3>4 DEF Agreed, AsAsked
    <2> QED BY <2>2, <2>3
<1> QED BY <1>1, <1>2, <1>3, MeantStays

\* A setter and an estimate leave the calldata.
LEMMA MeantBuilder ==
    ASSUME MeantInv, CreateInv', UNCHANGED <<kind, there, pool, meant>>, builder # <<>>,
           NEW b, builder' = <<b>>, b.data = builder[1].data, b.m = builder[1].m,
           b.p = builder[1].p, b.asked = b.caller
    PROVE  MeantInv'
<1>1. Agreed'
    BY DEF MeantInv, Agreed, AsAsked
<1>2. PoolAgreed'
    BY DEF MeantInv, PoolAgreed, CallWell
<1> QED BY <1>1, <1>2, MeantStays

LEMMA MeantSetValue ==
    ASSUME MeantInv, CreateInv', SetValue
    PROVE  MeantInv'
<1> DEFINE b == [builder[1] EXCEPT !.value = 1, !.estimate = "none"]
<1>1. IsBuilder(builder[1]) /\ builder # <<>> /\ builder' = <<b>> /\ AsAsked(builder[1])
      /\ UNCHANGED <<kind, there, pool, meant>>
    BY DEF SetValue, MeantInv, CreateInv, EstimateInv, BuilderWell, Agreed
<1>2. b.data = builder[1].data /\ b.m = builder[1].m /\ b.p = builder[1].p /\ b.asked = b.caller
    BY <1>1 DEF IsBuilder, AsAsked
<1> QED BY <1>1, <1>2, MeantBuilder

LEMMA MeantSetCaller ==
    ASSUME MeantInv, CreateInv', NEW x \in Signers, SetCaller(x)
    PROVE  MeantInv'
<1> DEFINE b == [builder[1] EXCEPT !.caller = <<x>>, !.asked = <<x>>, !.estimate = "none"]
<1>1. IsBuilder(builder[1]) /\ builder # <<>> /\ builder' = <<b>>
      /\ UNCHANGED <<kind, there, pool, meant>>
    BY DEF SetCaller, MeantInv, CreateInv, EstimateInv, BuilderWell
<1>2. b.data = builder[1].data /\ b.m = builder[1].m /\ b.p = builder[1].p /\ b.asked = b.caller
    BY <1>1 DEF IsBuilder
<1> QED BY <1>1, <1>2, MeantBuilder

LEMMA MeantEstimate ==
    ASSUME MeantInv, CreateInv', Estimate
    PROVE  MeantInv'
<1>1. PICK said : builder' = <<[builder[1] EXCEPT !.estimate = said]>>
    BY DEF Estimate
<1> DEFINE b == [builder[1] EXCEPT !.estimate = said]
<1>2. IsBuilder(builder[1]) /\ builder # <<>> /\ builder' = <<b>> /\ AsAsked(builder[1])
      /\ UNCHANGED <<kind, there, pool, meant>>
    BY <1>1 DEF Estimate, MeantInv, CreateInv, EstimateInv, BuilderWell, Agreed
<1>3. b.data = builder[1].data /\ b.m = builder[1].m /\ b.p = builder[1].p /\ b.asked = b.caller
    BY <1>2 DEF IsBuilder, AsAsked
<1> QED BY <1>2, <1>3, MeantBuilder

LEMMA MeantSend ==
    ASSUME MeantInv, CreateInv', Send
    PROVE  MeantInv'
<1> DEFINE b == builder[1]
           owner == RequestOwner(b)
<1>1. builder # <<>> /\ pool = {} /\ AsAsked(b) /\ builder' = <<>> /\ UNCHANGED <<kind, there, meant>>
    BY DEF Send, MeantInv, CreateInv, EstimateInv, BuilderWell, Agreed
<1>2. PoolAgreed'
    <2>1. CASE pool' = pool
        BY <1>1, <2>1 DEF PoolAgreed
    <2>2. CASE pool' # pool
        <3> DEFINE new == [type |-> "call", owner |-> owner[1], data |-> b.data, value |-> b.value,
                           m |-> b.m, p |-> b.p, by |-> AskedBy(b), estimate |-> b.estimate, id |-> sends]
        <3>1. owner # <<>> /\ pool' = pool \cup {new}
            BY <2>2 DEF Send
        <3>2. /\ new.type = "call" /\ new.data = b.data /\ new.m = b.m /\ new.p = b.p
              /\ new.owner = owner[1] /\ new.by = AskedBy(b)
            OBVIOUS
        <3> HIDE DEF new
        <3>3. new.by = new.owner
            BY <1>1, <3>1, <3>2, OwnerIsTheCaller, AskedIsResolved DEF AsAsked
        <3>4. PICK t : t = new
            OBVIOUS
        <3>5. pool' = {t} /\ t.type = "call" /\ t.by = t.owner /\ Says(kind', t.data, t.m, t.p)
            BY <1>1, <3>1, <3>2, <3>3, <3>4 DEF AsAsked
        <3> QED BY <3>5 DEF PoolAgreed, CallWell
    <2> QED BY <2>1, <2>2
<1>3. Agreed'
    BY <1>1 DEF Agreed
<1> QED BY <1>1, <1>2, <1>3, MeantStays

LEMMA MeantExecute ==
    ASSUME MeantInv, CreateInv', NEW tx \in pool, Execute(tx)
    PROVE  MeantInv'
<1>1. /\ builder' = <<>> /\ pool' = {} /\ kind' = kind /\ kind \in Kinds /\ there # <<>>
      /\ Says(kind, tx.data, tx.m, tx.p) /\ tx.by = tx.owner
    BY DEF Execute, MeantInv, CreateInv, EstimateInv, BuilderWell, PoolWell, PoolAgreed, CallWell
<1>2. /\ DOMAIN there[1] = {"abi", "creator", "ledger"} /\ there[1].abi \in OfferNames
      /\ there[1].ledger = meant
    BY <1>1 DEF MeantInv, Standing, LedgerAsAsked
<1> DEFINE run == Run(kind, tx.data, tx.owner, tx.value, there[1].ledger)
<1>3. there' = <<[there[1] EXCEPT !.ledger = run.ledger]>>
      /\ meant' = Effect(kind, tx.m, tx.p, tx.by, tx.value, meant).ledger
    BY DEF Execute
<1>4. run = Effect(kind, tx.m, tx.p, tx.by, tx.value, meant)
    BY <1>1, <1>2, RunOfSaid
<1> HIDE DEF run
<1>5. /\ there'[1].ledger = run.ledger /\ there'[1].abi = there[1].abi
      /\ DOMAIN there'[1] = {"abi", "creator", "ledger"}
    BY <1>2, <1>3
<1>6. Standing' /\ LedgerAsAsked'
    BY <1>2, <1>3, <1>4, <1>5 DEF Standing, LedgerAsAsked
<1> QED BY <1>1, <1>6 DEF MeantInv, Agreed, PoolAgreed

LEMMA MeantElsewhere ==
    ASSUME MeantInv, CreateInv', NEW x \in Signers, Elsewhere(x)
    PROVE  MeantInv'
<1>1. /\ there # <<>> /\ kind' = kind /\ kind \in Kinds
      /\ builder' = [i \in DOMAIN builder |-> Aged(builder[i])] /\ pool' = {Aged(t) : t \in pool}
    BY DEF Elsewhere, MeantInv, CreateInv
<1>2. /\ DOMAIN there[1] = {"abi", "creator", "ledger"} /\ there[1].abi \in OfferNames
      /\ there[1].ledger = meant
    BY <1>1 DEF MeantInv, Standing, LedgerAsAsked
<1>3. PICK deed : LET value == IF kind = "vault" THEN 1 ELSE 0
                  IN /\ there' = <<[there[1] EXCEPT
                            !.ledger = Effect(kind, deed.m, deed.p, x, value, there[1].ledger).ledger]>>
                     /\ meant' = Effect(kind, deed.m, deed.p, x, value, meant).ledger
    BY DEF Elsewhere
<1>4. /\ there'[1].ledger = meant' /\ there'[1].abi = there[1].abi
      /\ DOMAIN there'[1] = {"abi", "creator", "ledger"}
    BY <1>2, <1>3
<1>5. Standing' /\ LedgerAsAsked'
    BY <1>2, <1>4 DEF Standing, LedgerAsAsked
<1>6. Agreed'
    <2>1. CASE builder = <<>>
        BY <1>1, <2>1 DEF Agreed
    <2>2. CASE builder # <<>>
        <3>1. builder = <<builder[1]>> /\ IsBuilder(builder[1]) /\ AsAsked(builder[1])
            BY <2>2 DEF MeantInv, CreateInv, EstimateInv, BuilderWell, Agreed
        <3>2. builder'[1] = Aged(builder[1])
            BY <1>1, <3>1
        <3>3. PICK b : b = Aged(builder[1])
            OBVIOUS
        <3>4. b.data = builder[1].data /\ b.m = builder[1].m /\ b.p = builder[1].p /\ b.asked = b.caller
            BY <3>1, <3>3, AgedSaysNothing DEF IsBuilder, AsAsked
        <3>5. Says(kind', b.data, b.m, b.p)
            BY <1>1, <3>1, <3>4 DEF AsAsked
        <3> QED BY <3>2, <3>3, <3>4, <3>5 DEF Agreed, AsAsked
    <2> QED BY <2>1, <2>2
<1>7. PoolAgreed'
    <2>1. \A t \in pool : t.type = "call" /\ IsCall(t) /\ Says(kind, t.data, t.m, t.p) /\ t.by = t.owner
        BY <1>1 DEF MeantInv, CreateInv, EstimateInv, PoolWell, ThereWell, PoolAgreed, CallWell
    <2>2. ASSUME NEW t \in pool'
          PROVE  t.type = "call" /\ Says(kind', t.data, t.m, t.p) /\ t.by = t.owner
        <3>1. PICK s \in pool : t = Aged(s)
            BY <1>1
        <3>2. IsCall(s) /\ s.type = "call" /\ Says(kind, s.data, s.m, s.p) /\ s.by = s.owner
            BY <2>1
        <3>3. /\ t.type = s.type /\ t.data = s.data /\ t.m = s.m /\ t.p = s.p
              /\ t.by = s.by /\ t.owner = s.owner
            BY <3>1, <3>2, AgedSaysNothing DEF IsCall
        <3> QED BY <1>1, <3>2, <3>3
    <2> QED BY <2>2 DEF PoolAgreed, CallWell
<1> QED BY <1>1, <1>5, <1>6, <1>7 DEF MeantInv

LEMMA MeantInvStep ==
    ASSUME EncodersAgree
    PROVE  MeantInv /\ [Next]_vars => MeantInv'
<1> SUFFICES ASSUME MeantInv, [Next]_vars PROVE MeantInv'
    OBVIOUS
<1>0. CreateInv'
    BY CreateInvStep DEF MeantInv
<1>1. ASSUME NEW c \in Clients, Deploy(c) PROVE MeantInv'
    BY <1>0, <1>1, MeantDeploy
<1>2. ASSUME NEW c \in Clients, NewCall(c) PROVE MeantInv'
    BY <1>0, <1>2, MeantNewCall
<1>3. ASSUME NEW tx \in pool, ExecuteCreate(tx) PROVE MeantInv'
    BY <1>0, <1>3, MeantExecuteCreate
<1>4. ASSUME NEW tx \in pool, Execute(tx) PROVE MeantInv'
    BY <1>0, <1>4, MeantExecute
<1>5. CASE DeployReturns
    BY <1>0, <1>5, MeantNothingMoves DEF DeployReturns
<1>6. CASE DeployTimesOut
    BY <1>0, <1>6, MeantNothingMoves DEF DeployTimesOut
<1>7. CASE LoadInterface
    BY <1>0, <1>7, MeantNothingMoves DEF LoadInterface
<1>8. CASE Look
    BY <1>0, <1>8, MeantNothingMoves DEF Look
<1>9. CASE SetValue
    BY <1>0, <1>9, MeantSetValue
<1>10. ASSUME NEW x \in Signers, SetCaller(x) PROVE MeantInv'
    BY <1>0, <1>10, MeantSetCaller
<1>11. ASSUME NEW x \in Signers, Elsewhere(x) PROVE MeantInv'
    BY <1>0, <1>11, MeantElsewhere
<1>12. CASE Estimate
    BY <1>0, <1>12, MeantEstimate
<1>13. CASE CallConstant
    <2>1. builder' = <<>> /\ UNCHANGED <<kind, there, pool, meant>>
        BY <1>13 DEF CallConstant
    <2>2. Agreed' /\ PoolAgreed'
        BY <2>1 DEF MeantInv, Agreed, PoolAgreed, CallWell
    <2> QED BY <1>0, <2>1, <2>2, MeantStays
<1>14. CASE Send
    BY <1>0, <1>14, MeantSend
<1>15. CASE UNCHANGED vars
    BY <1>0, <1>15, MeantNothingMoves DEF vars
<1> QED
    BY <1>1, <1>2, <1>3, <1>4, <1>5, <1>6, <1>7, <1>8, <1>9, <1>10, <1>11, <1>12, <1>13, <1>14, <1>15
    DEF Next

(***************************************************************************)
(* When the encoders agree with the contracts' selectors, the ledger is    *)
(* what the calls asked for, for any accounts, any number of calls and any *)
(* interleaving with calls of others: what a builder went through (value,  *)
(* caller, estimate, send) keeps the calldata, and the transaction's owner *)
(* is the account the call was made as (call_raw, caller, to_request).     *)
(***************************************************************************)
THEOREM LedgerAsAskedHolds ==
    ASSUME EncodersAgree
    PROVE  Spec => []LedgerAsAsked
<1>1. MeantInv => LedgerAsAsked
    BY DEF MeantInv
<1> QED BY <1>1, MeantInit, MeantInvStep, PTL DEF Spec

-------------------------------------------------------------------------------
(* What is read is what the ledger holds.  Here the contracts' code counts *)
(* for the type of its results, and for nothing else.                      *)

\* A run that goes through returns a value of this type.
Gives(e, ty) == e.ok => IF ty = "nothing" THEN e.out = Empty ELSE \E v : e.out = Word(ty, v)

LEMMA DoneGives ==
    /\ \A l, logs : Gives(Done(l, Empty, logs), "nothing")
    /\ \A l, ty, v, logs : ty # "nothing" => Gives(Done(l, Word(ty, v), logs), ty)
<1>1. \A l, out, logs : Done(l, out, logs).out = out
    BY DEF Done
<1> QED BY <1>1 DEF Gives

LEMMA IfGives ==
    ASSUME NEW cond, NEW l, NEW e, NEW ty, Gives(e, ty)
    PROVE  Gives(If(cond, l, e), ty)
<1>1. If(cond, l, e) = e \/ If(cond, l, e) = Failed(l)
    BY DEF If
<1>2. ~Failed(l).ok
    BY DEF Failed
<1> QED BY <1>1, <1>2 DEF Gives

LEMMA Trc20Gives ==
    ASSUME NEW m \in DOMAIN Results.trc20, NEW p, NEW who, NEW l
    PROVE  Gives(Trc20Effect(m, p, who, l), Results.trc20[m])
<1> DEFINE e == Trc20Effect(m, p, who, l)
<1>1. CASE m \in {"name", "symbol"}
    <2>1. e = Done(l, Word("string", 3), <<>>)
        BY <1>1, Zenon DEF Trc20Effect
    <2>2. Results.trc20[m] = "string"
        BY <1>1 DEF Results
    <2> QED BY <2>1, <2>2, DoneGives
<1>2. CASE m = "decimals"
    <2>1. e = Done(l, Word("uint8", 6), <<>>)
        BY <1>2, Zenon DEF Trc20Effect
    <2>2. Results.trc20[m] = "uint8"
        BY <1>2 DEF Results
    <2> QED BY <2>1, <2>2, DoneGives
<1>3. CASE m \in {"total_supply", "balance_of", "allowance"}
    <2>1. \E v : e = Done(l, Word("uint256", v), <<>>)
        BY <1>3, Zenon DEF Trc20Effect
    <2>2. Results.trc20[m] = "uint256"
        BY <1>3 DEF Results
    <2> QED BY <2>1, <2>2, DoneGives
<1>4. CASE m \in {"transfer", "approve", "transfer_from"}
    <2>1. \E cond, now, logs : e = If(cond, l, Done(now, Word("bool", 1), logs))
        BY <1>4, Zenon DEF Trc20Effect
    <2>2. Results.trc20[m] = "bool"
        BY <1>4 DEF Results
    <2> QED BY <2>1, <2>2, DoneGives, IfGives
<1>5. m \in {"name", "symbol", "decimals", "total_supply", "balance_of", "allowance",
             "transfer", "approve", "transfer_from"}
    BY DEF Results
<1> QED BY <1>1, <1>2, <1>3, <1>4, <1>5

LEMMA Trc721Gives ==
    ASSUME NEW m \in DOMAIN Results.trc721, NEW p, NEW who, NEW l
    PROVE  Gives(Trc721Effect(m, p, who, l), Results.trc721[m])
<1> DEFINE e == Trc721Effect(m, p, who, l)
<1>1. CASE m \in {"name", "symbol", "token_uri"}
    <2>1. e = Done(l, Word("string", 3), <<>>) \/ \E cond : e = If(cond, l, Done(l, Word("string", 3), <<>>))
        BY <1>1, Zenon DEF Trc721Effect
    <2>2. Results.trc721[m] = "string"
        BY <1>1 DEF Results
    <2> QED BY <2>1, <2>2, DoneGives, IfGives
<1>2. CASE m = "balance_of"
    <2>1. \E v : e = Done(l, Word("uint256", v), <<>>)
        BY <1>2, Zenon DEF Trc721Effect
    <2>2. Results.trc721[m] = "uint256"
        BY <1>2 DEF Results
    <2> QED BY <2>1, <2>2, DoneGives
<1>3. CASE m \in {"owner_of", "get_approved"}
    <2>1. \E cond, v : e = If(cond, l, Done(l, Word("address", v), <<>>))
        BY <1>3, Zenon DEF Trc721Effect
    <2>2. Results.trc721[m] = "address"
        BY <1>3 DEF Results
    <2> QED BY <2>1, <2>2, DoneGives, IfGives
<1>4. CASE m = "is_approved_for_all"
    <2>1. \E v : e = Done(l, Word("bool", v), <<>>)
        BY <1>4, Zenon DEF Trc721Effect
    <2>2. Results.trc721[m] = "bool"
        BY <1>4 DEF Results
    <2> QED BY <2>1, <2>2, DoneGives
<1>5. CASE m \in {"transfer_from", "safe_transfer_from", "safe_transfer_from_with_data", "approve",
                  "set_approval_for_all"}
    <2>1. \E cond, now, logs : e = If(cond, l, Done(now, Empty, logs))
        BY <1>5, Zenon DEF Trc721Effect
    <2>2. Results.trc721[m] = "nothing"
        BY <1>5 DEF Results
    <2> QED BY <2>1, <2>2, DoneGives, IfGives
<1>6. m \in {"name", "symbol", "token_uri", "balance_of", "owner_of", "get_approved",
             "is_approved_for_all", "transfer_from", "safe_transfer_from",
             "safe_transfer_from_with_data", "approve", "set_approval_for_all"}
    BY DEF Results
<1> QED BY <1>1, <1>2, <1>3, <1>4, <1>5, <1>6

LEMMA VaultGives ==
    ASSUME NEW m \in DOMAIN Results.vault, NEW p, NEW who, NEW value, NEW l
    PROVE  Gives(VaultEffect(m, p, who, value, l), Results.vault[m])
<1> DEFINE e == VaultEffect(m, p, who, value, l)
<1>1. CASE m \in {"deposit", "deposit_to"}
    <2>1. \E cond, now, logs : e = If(cond, l, Done(now, Empty, logs))
        BY <1>1, Zenon DEF VaultEffect
    <2>2. Results.vault[m] = "nothing"
        BY <1>1 DEF Results
    <2> QED BY <2>1, <2>2, DoneGives, IfGives
<1>2. CASE m = "at"
    <2>1. \E v : e = Done(l, Word("uint256", v), <<>>)
        BY <1>2, Zenon DEF VaultEffect
    <2>2. Results.vault[m] = "uint256"
        BY <1>2 DEF Results
    <2> QED BY <2>1, <2>2, DoneGives
<1>3. CASE m = "keeper"
    <2>1. \E v : e = Done(l, Word("address", v), <<>>)
        BY <1>3, Zenon DEF VaultEffect
    <2>2. Results.vault[m] = "address"
        BY <1>3 DEF Results
    <2> QED BY <2>1, <2>2, DoneGives
<1>4. m \in {"deposit", "deposit_to", "at", "keeper"}
    BY DEF Results
<1> QED BY <1>1, <1>2, <1>3, <1>4

\* What a method returns is of the type that the standards give it.
LEMMA EffectGives ==
    ASSUME NEW k \in Kinds, NEW m \in DOMAIN Results[k], NEW p, NEW who, NEW value, NEW l
    PROVE  Gives(Effect(k, m, p, who, value, l), Results[k][m])
<1>1. Gives(Failed(l), Results[k][m])
    BY DEF Gives, Failed
<1>2. CASE value > 0 /\ m \notin {"deposit", "deposit_to"}
    <2>1. Effect(k, m, p, who, value, l) = Failed(l)
        BY <1>2, Zenon DEF Effect
    <2> QED BY <1>1, <2>1
<1>3. CASE ~(value > 0 /\ m \notin {"deposit", "deposit_to"})
    <2>1. CASE k = "trc20"
        <3>1. Effect(k, m, p, who, value, l) = Trc20Effect(m, p, who, l)
            BY <1>3, <2>1, Zenon DEF Effect
        <3> QED BY <2>1, <3>1, Trc20Gives
    <2>2. CASE k = "trc721"
        <3>1. Effect(k, m, p, who, value, l) = Trc721Effect(m, p, who, l)
            BY <1>3, <2>2, Zenon DEF Effect
        <3> QED BY <2>2, <3>1, Trc721Gives
    <2>3. CASE k = "vault"
        <3>1. Effect(k, m, p, who, value, l) = VaultEffect(m, p, who, value, l)
            BY <1>3, <2>3, Zenon DEF Effect
        <3> QED BY <2>3, <3>1, VaultGives
    <2> QED BY <2>1, <2>2, <2>3, ContractAssumption
<1> QED BY <1>2, <1>3

\* call() and its decoder, by what the node replied.
LEMMA FailureIsTold ==
    ASSUME NEW b, NEW reply, reply.ret = "false"
    PROVE  Returned(b, reply) = Err(IF reply.out.shape = "empty" THEN "NodeError" ELSE "Revert")
<1>1. ConstantResult(reply) = IF reply.out.shape = "empty" THEN Err("NodeError")
                              ELSE Ok([output |-> reply.out, reverted |-> TRUE])
    BY DEF ConstantResult
<1>2. ~Err("NodeError").ok /\ ~Err("Revert").ok
    BY DEF Err
<1>3. Ok([output |-> reply.out, reverted |-> TRUE]).ok
      /\ Ok([output |-> reply.out, reverted |-> TRUE]).v.reverted
    BY DEF Ok
<1>4. CallOutput(ConstantResult(reply)) = Err(IF reply.out.shape = "empty" THEN "NodeError" ELSE "Revert")
    BY <1>1, <1>2, <1>3, Zenon DEF CallOutput
<1>5. ~CallOutput(ConstantResult(reply)).ok
    BY <1>2, <1>4
<1>6. Returned(b, reply) = CallOutput(ConstantResult(reply))
    BY <1>5, Zenon DEF Returned
<1> QED BY <1>4, <1>6

LEMMA AnswerIsDecoded ==
    ASSUME NEW b, NEW reply, reply.ret # "false"
    PROVE  LET decoded == Decoded(b.returns, reply.out, b.strict)
           IN Returned(b, reply) = IF decoded.ok THEN decoded ELSE Err(DecodeErr(reply.out))
<1> DEFINE decoded == Decoded(b.returns, reply.out, b.strict)
           result == Ok([output |-> reply.out, reverted |-> FALSE])
<1>1. ConstantResult(reply) = result
    BY DEF ConstantResult
<1>2. result.ok /\ ~result.v.reverted /\ result.v.output = reply.out
    BY DEF Ok
<1> HIDE DEF result
<1>3. CallOutput(result) = Ok(reply.out)
    BY <1>2, Zenon DEF CallOutput
<1>4. Ok(reply.out).ok /\ Ok(reply.out).v = reply.out
    BY DEF Ok
<1>5. Returned(b, reply) = IF decoded.ok THEN decoded ELSE Err(DecodeErr(reply.out))
    BY <1>1, <1>3, <1>4, Zenon DEF Returned
<1> QED BY <1>5

\* alloy's decoding of a result of the declared types, and of no bytes.
LEMMA DecodedIs ==
    ASSUME NEW types, NEW out, NEW strict
    PROVE  /\ types = <<>> /\ (out.shape = "empty" \/ (out.shape = "data" /\ ~strict))
                => Decoded(types, out, strict) = Ok(<<>>)
           /\ types # <<>> /\ out.shape = "data" /\ out.types = types
                => Decoded(types, out, strict) = Ok(out.v)
           /\ types # <<>> /\ out.shape = "empty" => Decoded(types, out, strict) = Err("Abi")
<1>0. "empty" # "data" /\ "empty" # "revert" /\ "data" # "revert"
    OBVIOUS
<1>1. types = <<>> /\ (out.shape = "empty" \/ (out.shape = "data" /\ ~strict))
        => Decoded(types, out, strict) = Ok(<<>>)
    BY <1>0, Zenon DEF Decoded
<1>2. types # <<>> /\ out.shape = "data" /\ out.types = types => Decoded(types, out, strict) = Ok(out.v)
    BY <1>0, Zenon DEF Decoded
<1>3. types # <<>> /\ out.shape = "empty" => Decoded(types, out, strict) = Err("Abi")
    BY <1>0, Zenon DEF Decoded
<1> QED BY <1>1, <1>2, <1>3

\* The bytes of a revert: a validating decoder refuses them.
LEMMA RevertIsRefused ==
    ASSUME NEW types, NEW strict, strict, types # <<>>
    PROVE  Decoded(types, RevertData, strict) = Err("Abi")
<1>1. RevertData.shape = "revert" /\ "revert" # "data" /\ "revert" # "empty"
    BY DEF RevertData
<1>2. PICK out : out = RevertData
    OBVIOUS
<1>3. Decoded(types, out, strict) = Err("Abi")
    BY <1>1, <1>2, Zenon DEF Decoded
<1> QED BY <1>2, <1>3

\* A result of the method's own type is decoded to its value; one that is to
\* be ignored is.
LEMMA ResultIsDecoded ==
    ASSUME NEW k \in Kinds, NEW m, NEW returns, NEW strict, Reads(k, m, returns, strict),
           NEW e, e.ok, Gives(e, Results[k][m])
    PROVE  /\ Decoded(returns, e.out, strict).ok
           /\ returns # <<>> => Decoded(returns, e.out, strict).v = e.out.v
<1>1. \A x : Ok(x).ok /\ Ok(x).v = x
    BY DEF Ok
<1>2. CASE Results[k][m] = "nothing"
    <2>1. returns = <<>> /\ e.out.shape = "empty"
        BY <1>2 DEF Reads, ResultTypes, Gives, Empty
    <2> QED BY <1>1, <2>1, DecodedIs
<1>3. CASE Results[k][m] # "nothing"
    <2>0. PICK ty : ty = Results[k][m]
        OBVIOUS
    <2>a. PICK v : e.out = Word(ty, v)
        BY <1>3, <2>0 DEF Gives
    <2>1. e.out.shape = "data" /\ e.out.types = << <<ty>> >>
        BY <2>a DEF Word
    <2>2. \/ returns = << <<ty>> >> /\ returns # <<>>
          \/ returns = <<>> /\ ~strict
        BY <1>3, <2>0 DEF Reads, ResultTypes
    <2> QED BY <1>1, <2>1, <2>2, DecodedIs
<1> QED BY <1>2, <1>3

\* What call() gives back, next to what the contract would have said.
TrueRead(b, reply, result, truth) ==
    LET told == there # <<>> /\ reply.ret # "false"
    IN /\ result.ok /\ b.returns # <<>> =>
             \/ truth.ok /\ result.v = truth.out.v
             \/ ~truth.ok /\ told /\ ~b.strict
       /\ told /\ truth.ok => result.ok
       /\ ~result.ok /\ result.e = "Revert" => ~truth.ok /\ ~told
ReadsWell == builder # <<>> => LET b == builder[1] IN Reads(kind, b.m, b.returns, b.strict)
ReadInv == MeantInv /\ ReadsWell /\ ReadsTellTheLedger

LEMMA ReadOfNothing ==
    ASSUME NEW b, NEW reply \in Replies(b), NEW truth, there = <<>>
    PROVE  TrueRead(b, reply, Returned(b, reply), truth)
<1> DEFINE result == Returned(b, reply)
<1>1. reply.out.shape = "empty"
    BY DEF Replies, Reply, Empty
<1>2. \A x : ~Err(x).ok /\ Err(x).e = x
    BY DEF Err
<1>3. CASE reply.ret = "false"
    <2>1. result = Err("NodeError")
        BY <1>1, <1>3, FailureIsTold
    <2> QED BY <1>2, <2>1 DEF TrueRead
<1>4. CASE reply.ret # "false"
    <2> DEFINE decoded == Decoded(b.returns, reply.out, b.strict)
    <2>1. result = IF decoded.ok THEN decoded ELSE Err(DecodeErr(reply.out))
        BY <1>4, AnswerIsDecoded
    <2>2. decoded = IF b.returns = <<>> THEN Ok(<<>>) ELSE Err("Abi")
        BY <1>1, DecodedIs
    <2>3. Ok(<<>>).ok
        BY DEF Ok
    <2>4. DecodeErr(reply.out) = "ZeroData"
        BY <1>1 DEF DecodeErr
    <2> QED BY <1>2, <2>1, <2>2, <2>3, <2>4 DEF TrueRead
<1> QED BY <1>3, <1>4

LEMMA ReadOfContract ==
    ASSUME MeantInv, ReadsWell, builder # <<>>, there # <<>>, NEW reply \in Replies(builder[1])
    PROVE  LET b == builder[1]
           IN TrueRead(b, reply, Returned(b, reply),
                       Effect(kind, b.m, b.p, AskedBy(b), b.value, there[1].ledger))
<1> DEFINE b == builder[1]
           result == Returned(b, reply)
           truth == Effect(kind, b.m, b.p, AskedBy(b), b.value, there[1].ledger)
           run == Run(kind, b.data, ResolvedCaller(b), b.value, there[1].ledger)
<1>1. kind \in Kinds /\ Says(kind, b.data, b.m, b.p) /\ b.asked = b.caller
      /\ Reads(kind, b.m, b.returns, b.strict)
    BY DEF MeantInv, CreateInv, Agreed, AsAsked, ReadsWell
<1>2. AskedBy(b) = ResolvedCaller(b)
    BY <1>1, AskedIsResolved
<1>3. run = truth
    BY <1>1, <1>2, RunOfSaid
<1>4. Gives(truth, Results[kind][b.m])
    BY <1>1, EffectGives DEF Reads
<1>5. \/ reply = Reply("false", Empty)
      \/ run.ok /\ reply \in {Reply("true", run.out), Reply("none", run.out)}
      \/ ~run.ok /\ reply = Reply("false", RevertData)
      \/ ~run.ok /\ reply \in {Reply("true", RevertData), Reply("none", RevertData)}
    BY DEF Replies
<1> HIDE DEF run, truth
<1>6. \A x : ~Err(x).ok /\ Err(x).e = x
    BY DEF Err
<1>7. CASE reply = Reply("false", Empty)
    <2>1. reply.ret = "false" /\ reply.out.shape = "empty"
        BY <1>7 DEF Reply, Empty
    <2>2. result = Err("NodeError")
        BY <2>1, FailureIsTold
    <2> QED BY <1>6, <2>1, <2>2 DEF TrueRead, truth
<1>8. CASE run.ok /\ reply \in {Reply("true", run.out), Reply("none", run.out)}
    <2>1. reply.ret # "false" /\ reply.out = truth.out /\ truth.ok
        BY <1>3, <1>8 DEF Reply
    <2> DEFINE decoded == Decoded(b.returns, truth.out, b.strict)
    <2>2. result = IF decoded.ok THEN decoded ELSE Err(DecodeErr(reply.out))
        BY <2>1, AnswerIsDecoded
    <2>3. decoded.ok /\ (b.returns # <<>> => decoded.v = truth.out.v)
        BY <1>1, <1>4, <2>1, ResultIsDecoded
    <2> QED BY <2>1, <2>2, <2>3 DEF TrueRead, truth
<1>9. CASE ~run.ok /\ reply = Reply("false", RevertData)
    <2>1. reply.ret = "false" /\ reply.out.shape # "empty" /\ ~truth.ok
        BY <1>3, <1>9 DEF Reply, RevertData
    <2>2. result = Err("Revert")
        BY <2>1, FailureIsTold
    <2> QED BY <1>6, <2>1, <2>2 DEF TrueRead, truth
<1>10. CASE ~run.ok /\ reply \in {Reply("true", RevertData), Reply("none", RevertData)}
    <2>1. reply.ret # "false" /\ reply.out = RevertData /\ ~truth.ok
        BY <1>3, <1>10 DEF Reply
    <2> DEFINE decoded == Decoded(b.returns, RevertData, b.strict)
    <2>2. result = IF decoded.ok THEN decoded ELSE Err(DecodeErr(RevertData))
        BY <2>1, AnswerIsDecoded
    <2>3. DecodeErr(RevertData) = "Abi"
        BY DEF DecodeErr, RevertData
    <2>4. b.returns # <<>> /\ b.strict => ~decoded.ok
        BY <1>6, RevertIsRefused
    <2>5. ~(~result.ok /\ result.e = "Revert")
        BY <1>6, <2>2, <2>3
    <2>6. result.ok => decoded.ok
        BY <1>6, <2>2
    <2> QED BY <2>1, <2>4, <2>5, <2>6 DEF TrueRead, truth
<1> QED BY <1>5, <1>7, <1>8, <1>9, <1>10

LEMMA ReadInit == Init => ReadInv
<1> SUFFICES ASSUME Init PROVE ReadInv
    OBVIOUS
<1>1. MeantInv
    BY MeantInit
<1>2. builder = <<>> /\ answer.what # "read"
    BY DEF Init, NoAnswer
<1> QED BY <1>1, <1>2 DEF ReadInv, ReadsWell, ReadsTellTheLedger

\* Answers of another kind, and answers that stay.
OtherAnswer == answer' = answer \/ answer' = NoAnswer \/ \E e : answer' = Error(e)
LEMMA OtherAnswerPasses ==
    ASSUME ReadsTellTheLedger, OtherAnswer
    PROVE  ReadsTellTheLedger'
<1>1. NoAnswer.what # "read" /\ \A e : Error(e).what # "read"
    BY DEF NoAnswer, Error
<1> QED BY <1>1 DEF OtherAnswer, ReadsTellTheLedger

LEMMA NoBuilderReads ==
    ASSUME ReadInv, MeantInv', OtherAnswer, builder' = <<>>
    PROVE  ReadInv'
BY OtherAnswerPasses DEF ReadInv, ReadsWell

LEMMA SameBuilderReads ==
    ASSUME ReadInv, MeantInv', OtherAnswer, UNCHANGED <<kind, builder>>
    PROVE  ReadInv'
BY OtherAnswerPasses DEF ReadInv, ReadsWell

\* What a setter, an estimate or a block changes in a builder is not read with.
LEMMA OtherFieldsRead ==
    ASSUME ReadInv, MeantInv', UNCHANGED <<kind, answer>>, builder # <<>>,
           NEW b, builder' = <<b>>, b.m = builder[1].m, b.returns = builder[1].returns,
           b.strict = builder[1].strict
    PROVE  ReadInv'
<1>1. OtherAnswer
    BY DEF OtherAnswer
<1>2. ReadsWell'
    BY DEF ReadInv, ReadsWell
<1> QED BY <1>1, <1>2, OtherAnswerPasses DEF ReadInv

LEMMA ReadsNewCall ==
    ASSUME DecodersAgree, ReadInv, MeantInv', NEW c \in Clients, NewCall(c)
    PROVE  ReadInv'
<1> DEFINE n == IF there = <<>> THEN NoContract ELSE there[1].abi
<1>1. kind' = kind /\ kind \in Kinds /\ n \in OfferNames \cup {NoContract}
    BY DEF NewCall, ReadInv, MeantInv, CreateInv, Standing
<1>2. PICK call \in Calls[kind][n], ic \in {<<>>} \cup {<<x>> : x \in Signers} :
        IF call.encoding.ok
        THEN /\ builder' = <<CallRaw(c, ic, call.encoding.v, call.m, call.p)>>
             /\ answer' = NoAnswer
        ELSE builder' = <<>> /\ answer' = Error(call.encoding.e)
    BY Zenon DEF NewCall
<1>3. OtherAnswer
    BY <1>2 DEF OtherAnswer
<1>4. CASE ~call.encoding.ok
    BY <1>2, <1>3, <1>4, NoBuilderReads
<1>5. CASE call.encoding.ok
    <2>1. Reads(kind, call.m, call.encoding.v.returns, call.encoding.v.strict)
        BY <1>1, <1>5 DEF DecodersAgree
    <2>2. PICK b : b = CallRaw(c, ic, call.encoding.v, call.m, call.p)
        OBVIOUS
    <2>3. builder' = <<b>> /\ b.m = call.m /\ b.returns = call.encoding.v.returns
          /\ b.strict = call.encoding.v.strict
        BY <1>2, <1>5, <2>2 DEF CallRaw
    <2>4. ReadsWell'
        BY <1>1, <2>1, <2>3 DEF ReadsWell
    <2> QED BY <1>3, <2>4, OtherAnswerPasses DEF ReadInv
<1> QED BY <1>4, <1>5

LEMMA ReadsCallConstant ==
    ASSUME ReadInv, MeantInv', CallConstant
    PROVE  ReadInv'
<1> DEFINE b == builder[1]
           truth == IF there = <<>> THEN Failed(meant)
                    ELSE Effect(kind, b.m, b.p, AskedBy(b), b.value, there[1].ledger)
<1>1. PICK reply \in Replies(b) :
        answer' = [what |-> "read", void |-> b.returns = <<>>, strict |-> b.strict,
                   result |-> Returned(b, reply), truth |-> [ok |-> truth.ok, v |-> truth.out.v],
                   told |-> there # <<>> /\ reply.ret # "false"]
    BY Zenon DEF CallConstant
<1>2. builder # <<>> /\ builder' = <<>>
    BY DEF CallConstant
<1>3. TrueRead(b, reply, Returned(b, reply), truth)
    <2>1. CASE there = <<>>
        BY <2>1, ReadOfNothing
    <2>2. CASE there # <<>>
        BY <1>2, <2>2, ReadOfContract DEF ReadInv
    <2> QED BY <2>1, <2>2
<1>4. PICK result, t : result = Returned(b, reply) /\ t = truth
    OBVIOUS
<1> HIDE DEF truth
<1>5. /\ answer'.void = (b.returns = <<>>) /\ answer'.result = result /\ answer'.strict = b.strict
      /\ answer'.truth.ok = t.ok /\ answer'.truth.v = t.out.v
      /\ answer'.told = (there # <<>> /\ reply.ret # "false")
    BY <1>1, <1>4
<1>6. ReadsTellTheLedger'
    BY <1>3, <1>4, <1>5 DEF ReadsTellTheLedger, TrueRead
<1> QED BY <1>2, <1>6 DEF ReadInv, ReadsWell

LEMMA ReadsSetters ==
    ASSUME ReadInv, MeantInv', SetValue \/ Estimate \/ \E x \in Signers : SetCaller(x)
    PROVE  ReadInv'
<1>1. builder # <<>> /\ IsBuilder(builder[1]) /\ UNCHANGED <<kind, answer>>
    BY DEF ReadInv, MeantInv, CreateInv, EstimateInv, BuilderWell, SetValue, Estimate, SetCaller
<1>2. CASE SetValue
    <2> DEFINE b == [builder[1] EXCEPT !.value = 1, !.estimate = "none"]
    <2>1. builder' = <<b>> /\ b.m = builder[1].m /\ b.returns = builder[1].returns
          /\ b.strict = builder[1].strict
        BY <1>1, <1>2 DEF SetValue, IsBuilder
    <2> QED BY <1>1, <2>1, OtherFieldsRead
<1>3. CASE Estimate
    <2>1. PICK said : builder' = <<[builder[1] EXCEPT !.estimate = said]>>
        BY <1>3 DEF Estimate
    <2> DEFINE b == [builder[1] EXCEPT !.estimate = said]
    <2>2. builder' = <<b>> /\ b.m = builder[1].m /\ b.returns = builder[1].returns
          /\ b.strict = builder[1].strict
        BY <1>1, <2>1 DEF IsBuilder
    <2> QED BY <1>1, <2>2, OtherFieldsRead
<1>4. ASSUME NEW x \in Signers, SetCaller(x) PROVE ReadInv'
    <2> DEFINE b == [builder[1] EXCEPT !.caller = <<x>>, !.asked = <<x>>, !.estimate = "none"]
    <2>1. builder' = <<b>> /\ b.m = builder[1].m /\ b.returns = builder[1].returns
          /\ b.strict = builder[1].strict
        BY <1>1, <1>4 DEF SetCaller, IsBuilder
    <2> QED BY <1>1, <2>1, OtherFieldsRead
<1> QED BY <1>2, <1>3, <1>4

LEMMA ReadsElsewhere ==
    ASSUME ReadInv, MeantInv', NEW x \in Signers, Elsewhere(x)
    PROVE  ReadInv'
<1>1. UNCHANGED <<kind, answer>> /\ builder' = [i \in DOMAIN builder |-> Aged(builder[i])]
    BY DEF Elsewhere
<1>2. OtherAnswer
    BY <1>1 DEF OtherAnswer
<1>3. CASE builder = <<>>
    <2>1. builder' = <<>>
        BY <1>1, <1>3
    <2> QED BY <1>2, <2>1, NoBuilderReads
<1>4. CASE builder # <<>>
    <2>1. builder = <<builder[1]>> /\ IsBuilder(builder[1])
        BY <1>4 DEF ReadInv, MeantInv, CreateInv, EstimateInv, BuilderWell
    <2>2. DOMAIN builder = {1}
        BY <2>1
    <2>3. PICK b : b = Aged(builder[1])
        OBVIOUS
    <2>4. builder' = <<b>>
        BY <1>1, <2>2, <2>3
    <2>5. b.m = builder[1].m /\ b.returns = builder[1].returns /\ b.strict = builder[1].strict
        BY <2>1, <2>3, AgedSaysNothing DEF IsBuilder
    <2> QED BY <1>1, <1>4, <2>4, <2>5, OtherFieldsRead
<1> QED BY <1>3, <1>4

\* A step that ends a deployment is not one that reads.
LEMMA ReadsDeployReturns ==
    ASSUME ReadInv, MeantInv', DeployReturns
    PROVE  ReadInv'
<1>1. UNCHANGED <<kind, builder>>
    BY DEF DeployReturns
<1>2. answer'.what # "read"
    BY DEF DeployReturns, Error
<1> QED BY <1>1, <1>2 DEF ReadInv, ReadsWell, ReadsTellTheLedger

LEMMA ReadInvStep ==
    ASSUME EncodersAgree, DecodersAgree
    PROVE  ReadInv /\ [Next]_vars => ReadInv'
<1> SUFFICES ASSUME ReadInv, [Next]_vars PROVE ReadInv'
    OBVIOUS
<1>0. MeantInv'
    BY MeantInvStep DEF ReadInv
<1>1. ASSUME NEW c \in Clients, Deploy(c) PROVE ReadInv'
    <2>1. OtherAnswer /\ UNCHANGED <<kind, builder>>
        BY <1>1 DEF Deploy, OtherAnswer
    <2> QED BY <1>0, <2>1, SameBuilderReads
<1>2. ASSUME NEW c \in Clients, NewCall(c) PROVE ReadInv'
    BY <1>0, <1>2, ReadsNewCall
<1>3. ASSUME NEW tx \in pool, ExecuteCreate(tx) \/ Execute(tx) PROVE ReadInv'
    BY <1>0, <1>3, SameBuilderReads DEF ExecuteCreate, Execute, OtherAnswer
<1>4. CASE DeployReturns
    BY <1>0, <1>4, ReadsDeployReturns
<1>5. CASE DeployTimesOut
    BY <1>0, <1>5, SameBuilderReads DEF DeployTimesOut, OtherAnswer
<1>6. CASE LoadInterface
    <2>1. OtherAnswer /\ UNCHANGED <<kind, builder>>
        BY <1>6 DEF LoadInterface, OtherAnswer
    <2> QED BY <1>0, <2>1, SameBuilderReads
<1>7. CASE Look
    BY <1>0, <1>7, SameBuilderReads DEF Look, OtherAnswer
<1>8. CASE SetValue \/ Estimate \/ \E x \in Signers : SetCaller(x)
    BY <1>0, <1>8, ReadsSetters
<1>9. ASSUME NEW x \in Signers, Elsewhere(x) PROVE ReadInv'
    BY <1>0, <1>9, ReadsElsewhere
<1>10. CASE CallConstant
    BY <1>0, <1>10, ReadsCallConstant
<1>11. CASE Send
    <2>1. OtherAnswer /\ builder' = <<>>
        BY <1>11 DEF Send, OtherAnswer
    <2> QED BY <1>0, <2>1, NoBuilderReads
<1>12. CASE UNCHANGED vars
    BY <1>0, <1>12, SameBuilderReads DEF vars, OtherAnswer
<1> QED BY <1>1, <1>2, <1>3, <1>4, <1>5, <1>6, <1>7, <1>8, <1>9, <1>10, <1>11, <1>12 DEF Next

(***************************************************************************)
(* When the encoders and the decoders agree with the contracts, a read     *)
(* gives the contract's value or an error, whatever the node replies and   *)
(* whoever calls: no value out of a node's failure or of an address        *)
(* without a contract, no error when the contract's result was told, and a *)
(* Revert only of a call that would revert.  Only a revert that the node   *)
(* tells as a success is taken for a value, and only by a decoder that     *)
(* does not validate (CallBuilder::call, constant_result_from_extention,   *)
(* decode_output).                                                         *)
(***************************************************************************)
THEOREM ReadsTellTheLedgerHolds ==
    ASSUME EncodersAgree, DecodersAgree
    PROVE  Spec => []ReadsTellTheLedger
<1>1. ReadInv => ReadsTellTheLedger
    BY DEF ReadInv
<1> QED BY <1>1, ReadInit, ReadInvStep, PTL DEF Spec

-------------------------------------------------------------------------------
(* What deploy() reports.                                                  *)

\* The contract that this deployment asked for stands.
StandsFor(d) ==
    /\ there # <<>>
    /\ there[1].creator = OrElse(d.from, <<d.client>>)[1]
    /\ there[1].ledger.keeper = d.holder
WaitsFor(d, t) == t.type = "create" /\ t.owner = OrElse(d.from, <<d.client>>)[1] /\ t.holder = d.holder
\* Nothing else happens while deploy() waits: its transaction is in the pool,
\* or a receipt of it is there, and then the contract stands if it went through.
Deploying ==
    deploying # <<>> =>
        /\ builder = <<>> /\ \A t \in pool : WaitsFor(deploying[1], t)
        /\ receipt # <<>> => pool = {} /\ (receipt[1].ok => StandsFor(deploying[1]))
\* Nor before its report was looked at.
Reported ==
    answer.what = "deployed" =>
        builder = <<>> /\ pool = {} /\ receipt # <<>> /\ (receipt[1].ok => StandsFor(answer))
DeployInv == CreateInv /\ Deploying /\ Reported

LEMMA DeployInit == Init => DeployInv
<1> SUFFICES ASSUME Init PROVE DeployInv
    OBVIOUS
<1>1. CreateInv
    BY CreateInit
<1>2. deploying = <<>> /\ answer.what # "deployed"
    BY DEF Init, NoAnswer
<1> QED BY <1>1, <1>2 DEF DeployInv, Deploying, Reported

LEMMA NotDeployed == NoAnswer.what # "deployed" /\ \A e : Error(e).what # "deployed"
BY DEF NoAnswer, Error

LEMMA ReportsDeploy ==
    ASSUME DeployInv, CreateInv', NEW c \in Clients, Deploy(c)
    PROVE  DeployInv'
<1>1. receipt = <<>> /\ deploying = <<>> /\ pool = {} /\ UNCHANGED <<builder, receipt, there>>
    BY DEF Deploy
<1>2. builder = <<>>
    BY <1>1 DEF DeployInv, CreateInv, EstimateInv, BuilderWell
<1>3. answer' = NoAnswer \/ \E e : answer' = Error(e)
    BY DEF Deploy
<1>4. Reported'
    BY <1>3, NotDeployed DEF Reported
<1>5. CASE deploying' = <<>>
    BY <1>4, <1>5 DEF DeployInv, Deploying
<1>6. CASE deploying' # <<>>
    <2>1. PICK offer \in OfferNames, holder \in Signers, from \in {<<>>} \cup {<<x>> : x \in Signers} :
            /\ DeployRequest(c, from, offer).ok /\ c \in Signers
            /\ pool' = {[type |-> "create", owner |-> DeployRequest(c, from, offer).v.owner,
                         abi |-> DeployRequest(c, from, offer).v.abi,
                         bytecode |-> DeployBytecode(kind, <<holder>>), holder |-> holder]}
            /\ deploying' = <<[client |-> c, from |-> from, holder |-> holder]>>
        BY <1>1, <1>6 DEF Deploy
    <2>2. DeployRequest(c, from, offer).v.owner = OrElse(from, <<c>>)[1]
        BY <2>1 DEF DeployRequest, AndThen, Ok, Err, SignerAddress
    <2>3. \A t \in pool' : WaitsFor(deploying'[1], t)
        BY <2>1, <2>2 DEF WaitsFor
    <2>4. Deploying'
        BY <1>1, <1>2, <2>3 DEF Deploying
    <2> QED BY <1>4, <2>4 DEF DeployInv
<1> QED BY <1>5, <1>6

LEMMA ReportsExecuteCreate ==
    ASSUME DeployInv, CreateInv', NEW tx \in pool, ExecuteCreate(tx)
    PROVE  DeployInv'
<1>1. /\ tx.type = "create" /\ receipt = <<>> /\ builder = <<>> /\ pool' = {}
      /\ UNCHANGED <<builder, deploying, answer, kind>>
      /\ tx.bytecode = DeployBytecode(kind, <<tx.holder>>)
    BY DEF ExecuteCreate, DeployInv, CreateInv, EstimateInv, BuilderWell, PoolWell, CreateWell
<1>2. Reported'
    BY <1>1 DEF DeployInv, Reported
<1>3. Deploying'
    <2>1. SUFFICES ASSUME deploying # <<>>
                   PROVE  receipt'[1].ok => StandsFor(deploying[1])'
        BY <1>1 DEF Deploying
    <2>2. WaitsFor(deploying[1], tx)
        BY <2>1 DEF DeployInv, Deploying
    <2>3. CASE \E named \in BOOLEAN : receipt' = <<[type |-> "create", ok |-> FALSE, address |-> named]>>
        BY <2>3
    <2>4. CASE there' = <<[abi |-> tx.abi, creator |-> tx.owner,
                           ledger |-> NewLedger(tx.bytecode.code, tx.bytecode.args[1])]>>
        <3>1. NewLedger(tx.bytecode.code, tx.bytecode.args[1]).keeper = tx.holder
            BY <1>1 DEF DeployBytecode, NewLedger
        <3>2. there' # <<>> /\ there'[1].creator = tx.owner /\ there'[1].ledger.keeper = tx.holder
            BY <2>4, <3>1
        <3> QED BY <1>1, <2>2, <3>2 DEF StandsFor, WaitsFor
    <2> QED BY <2>3, <2>4 DEF ExecuteCreate
<1> QED BY <1>2, <1>3 DEF DeployInv

LEMMA ReportsDeployReturns ==
    ASSUME DeployInv, CreateInv', DeployReturns
    PROVE  DeployInv'
<1>1. /\ deploying # <<>> /\ receipt # <<>> /\ builder = <<>> /\ pool = {} /\ deploying' = <<>>
      /\ receipt[1].ok => StandsFor(deploying[1])
      /\ UNCHANGED <<there, builder, pool, receipt>>
    BY DEF DeployReturns, DeployInv, Deploying
<1>2. CASE ~receipt[1].address
    <2>1. answer' = Error("ContractNotDeployed")
        BY <1>2 DEF DeployReturns, DeployAddress, Err
    <2> QED BY <1>1, <2>1, NotDeployed DEF DeployInv, Deploying, Reported
<1>3. CASE receipt[1].address
    <2>1. answer' = [what |-> "deployed", client |-> deploying[1].client, from |-> deploying[1].from,
                     holder |-> deploying[1].holder]
        BY <1>3 DEF DeployReturns, DeployAddress, Ok
    <2>2. receipt'[1].ok => StandsFor(answer)'
        BY <1>1, <2>1 DEF StandsFor
    <2> QED BY <1>1, <2>2 DEF DeployInv, Deploying, Reported
<1> QED BY <1>2, <1>3

\* Steps of a call: no deployment waits, and none is reported after it.
LEMMA CallReports ==
    ASSUME DeployInv, CreateInv', deploying = <<>>, deploying' = <<>>,
           answer'.what # "deployed"
    PROVE  DeployInv'
BY DEF DeployInv, Deploying, Reported

\* Steps that need a builder or a transaction of a call.
LEMMA CallsAreLater ==
    ASSUME DeployInv, builder # <<>> \/ \E t \in pool : t.type = "call"
    PROVE  deploying = <<>> /\ answer.what # "deployed"
BY DEF DeployInv, Deploying, Reported, WaitsFor

LEMMA DeployInvStep == DeployInv /\ [Next]_vars => DeployInv'
<1> SUFFICES ASSUME DeployInv, [Next]_vars PROVE DeployInv'
    OBVIOUS
<1>0. CreateInv'
    BY CreateInvStep DEF DeployInv
<1>1. ASSUME NEW c \in Clients, Deploy(c) PROVE DeployInv'
    BY <1>0, <1>1, ReportsDeploy
<1>2. ASSUME NEW c \in Clients, NewCall(c) PROVE DeployInv'
    <2>1. deploying = <<>> /\ deploying' = <<>>
        BY <1>2 DEF NewCall
    <2>2. answer' = NoAnswer \/ \E e : answer' = Error(e)
        BY <1>2, Zenon DEF NewCall
    <2> QED BY <1>0, <2>1, <2>2, CallReports, NotDeployed
<1>3. ASSUME NEW tx \in pool, ExecuteCreate(tx) PROVE DeployInv'
    BY <1>0, <1>3, ReportsExecuteCreate
<1>4. ASSUME NEW tx \in pool, Execute(tx) PROVE DeployInv'
    <2>1. deploying = <<>> /\ answer.what # "deployed"
        BY <1>4, CallsAreLater DEF Execute
    <2> QED BY <1>0, <1>4, <2>1, CallReports DEF Execute
<1>5. CASE DeployReturns
    BY <1>0, <1>5, ReportsDeployReturns
<1>6. CASE DeployTimesOut
    <2>1. deploying' = <<>> /\ answer'.what # "deployed"
        BY <1>6, NotDeployed DEF DeployTimesOut
    <2> QED BY <1>0, <2>1 DEF DeployInv, Deploying, Reported
<1>7. CASE LoadInterface
    <2>1. /\ UNCHANGED <<there, deploying, builder, pool, receipt>>
          /\ answer' = NoAnswer \/ \E e : answer' = Error(e)
        BY <1>7 DEF LoadInterface
    <2>2. Reported'
        BY <2>1, NotDeployed DEF Reported
    <2>3. Deploying'
        BY <2>1 DEF DeployInv, Deploying, WaitsFor, StandsFor
    <2> QED BY <1>0, <2>2, <2>3 DEF DeployInv
<1>8. CASE Look
    BY <1>0, <1>8, CallReports, NotDeployed DEF Look
<1>9. CASE SetValue
    BY <1>0, <1>9, CallsAreLater, CallReports DEF SetValue
<1>10. ASSUME NEW x \in Signers, SetCaller(x) PROVE DeployInv'
    BY <1>0, <1>10, CallsAreLater, CallReports DEF SetCaller
<1>11. ASSUME NEW x \in Signers, Elsewhere(x) PROVE DeployInv'
    <2>1. builder # <<>> \/ pool # {}
        BY <1>11 DEF Elsewhere
    <2>2. there # <<>> /\ receipt # <<>> /\ UNCHANGED <<deploying, answer>>
        BY <1>11 DEF Elsewhere, DeployInv, CreateInv, EstimateInv, ThereWell
    <2>3. deploying = <<>> /\ answer.what # "deployed"
        BY <2>1, <2>2 DEF DeployInv, Deploying, Reported
    <2> QED BY <1>0, <2>2, <2>3, CallReports
<1>12. CASE Estimate
    BY <1>0, <1>12, CallsAreLater, CallReports DEF Estimate
<1>13. CASE CallConstant
    <2>1. deploying = <<>> /\ deploying' = <<>>
        BY <1>13, CallsAreLater DEF CallConstant
    <2>2. answer'.what = "read"
        BY <1>13 DEF CallConstant
    <2> QED BY <1>0, <2>1, <2>2, CallReports
<1>14. CASE Send
    <2>1. deploying = <<>> /\ deploying' = <<>>
        BY <1>14, CallsAreLater DEF Send
    <2>2. answer' = NoAnswer \/ \E e : answer' = Error(e)
        BY <1>14 DEF Send
    <2> QED BY <1>0, <2>1, <2>2, CallReports, NotDeployed
<1>15. CASE UNCHANGED vars
    BY <1>0, <1>15 DEF vars, DeployInv, Deploying, Reported, WaitsFor, StandsFor
<1> QED
    BY <1>1, <1>2, <1>3, <1>4, <1>5, <1>6, <1>7, <1>8, <1>9, <1>10, <1>11, <1>12, <1>13, <1>14, <1>15
    DEF Next

(***************************************************************************)
(* What deploy() reports, from the receipt of a deployment that went       *)
(* through, is on the chain, created by the account it was deployed from   *)
(* with the constructor's arguments, for any accounts and whatever the     *)
(* receipts of failed deployments name; that the ABI survives its way      *)
(* through metadata and protobuf is a fact about the ABIs alone            *)
(* (DeployBuilder::deploy, to_request).                                    *)
(***************************************************************************)
THEOREM DeployedAsGivenHolds ==
    ASSUME \A k \in Kinds : \A n \in Faithful : AbiSurvives(k, n)
    PROVE  Spec => []DeployedAsGiven
<1>1. DeployInv => DeployedAsGiven
    BY DEF DeployInv, Reported, StandsFor, DeployedAsGiven, DeployReport, CreateInv
<1> QED BY <1>1, DeployInit, DeployInvStep, PTL DEF Spec
===============================================================================
