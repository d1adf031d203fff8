------------------------------- MODULE GrpcCore -------------------------------
(***************************************************************************)
(* The call path every gRPC transport shares (transport/grpc/core.rs):     *)
(* `call_with_retry` runs the middleware's `before` outermost first, the   *)
(* retry loop, then `after` in reverse; a refusal unwinds only what was    *)
(* entered.  `broadcast_transaction` (fullnode.rs) calls the client        *)
(* directly: no middleware, no retry.  Calls run concurrently; what they   *)
(* share is the middleware.                                                *)
(*                                                                         *)
(* The middleware is the application's.  It is modelled as the limiter the *)
(* trait's documentation names: `before` may hold the call back until one  *)
(* of `Permits` slots is free, and `after` gives the slot back.            *)
(***************************************************************************)
EXTENDS Naturals, FiniteSets, TransportErrors

CONSTANTS
    Calls,           \* logical RPCs
    Broadcasts,      \* those of them that are broadcast_transaction
    Depth,           \* number of middleware, outermost first
    Permits,         \* slots of each middleware
    MaxAttempts,     \* RetryConfig::max_attempts, may be 0
    InitialBackoff,  \* RetryConfig::initial_backoff
    MaxBackoff,      \* RetryConfig::max_backoff
    Multiplier,      \* RetryConfig::backoff_multiplier
    Faults,          \* the errors an attempt can end with in this instance
    MayDrop          \* whether a caller may drop the future (tokio timeout)

ASSUME CallsAssumption == Broadcasts \subseteq Calls
ASSUME DepthAssumption == Depth \in Nat
ASSUME PermitsAssumption == Permits \in Nat \ {0}
ASSUME RetryAssumption ==
    /\ MaxAttempts \in Nat
    /\ InitialBackoff \in Nat /\ MaxBackoff \in Nat /\ Multiplier \in Nat
ASSUME FaultsAssumption == Faults \subseteq {Rpc(c) : c \in RpcStatusCode}
ASSUME MayDropAssumption == MayDrop \in BOOLEAN

VARIABLES
    pc,        \* where the call's future is suspended
    entered,   \* middleware whose `before` succeeded and whose `after` has not run
    attempts,  \* attempts made so far
    backoff,   \* the base back-off, jitter left out
    result,    \* what the call returned, or is about to return
    holders    \* middleware -> calls holding one of its slots

vars == <<pc, entered, attempts, backoff, result, holders>>

Middleware == 1..Depth
Unset == [kind |-> "unset", code |-> "none"]
Ok == [kind |-> "Ok", code |-> "none"]
\* What a middleware refuses with; Custom stands for any error of its own.
Refusal == Plain("Custom")
Outcomes == {Unset, Ok, Refusal} \cup Faults
Over == {"returned", "dropped"}

\* self.retry.max_attempts.max(1)
AttemptLimit == IF MaxAttempts = 0 THEN 1 ELSE MaxAttempts

\* backoff.mul_f64(backoff_multiplier).min(max_backoff)
NextBackoff(b) == IF b * Multiplier < MaxBackoff THEN b * Multiplier ELSE MaxBackoff

Init ==
    /\ pc = [c \in Calls |-> "idle"]
    /\ entered = [c \in Calls |-> 0]
    /\ attempts = [c \in Calls |-> 0]
    /\ backoff = [c \in Calls |-> InitialBackoff]
    /\ result = [c \in Calls |-> Unset]
    /\ holders = [m \in Middleware |-> {}]

Goto(c, label) == pc' = [pc EXCEPT ![c] = label]

-------------------------------------------------------------------------------
(* Mutated forms of the definitions below, each a plausible slip in the    *)
(* code; they serve only to show that the properties can fail.             *)

\* `attempt > max` for `attempt >= max`.
FailRetryablyLate(c, e) ==
    /\ pc[c] = "inflight"
    /\ c \notin Broadcasts
    /\ attempts[c] <= AttemptLimit /\ IsRetryable(e)
    /\ result' = [result EXCEPT ![c] = e]
    /\ Goto(c, "backoff")
    /\ UNCHANGED <<entered, attempts, backoff, holders>>

\* The is_retryable test dropped from the loop.
FailRetryablyAlways(c, e) ==
    /\ pc[c] = "inflight"
    /\ c \notin Broadcasts
    /\ attempts[c] < AttemptLimit
    /\ result' = [result EXCEPT ![c] = e]
    /\ Goto(c, "backoff")
    /\ UNCHANGED <<entered, attempts, backoff, holders>>

\* The early return that forgets who had already entered.
RefuseWithoutUnwinding(c) ==
    /\ pc[c] = "before"
    /\ result' = [result EXCEPT ![c] = Refusal]
    /\ Goto(c, "returned")
    /\ UNCHANGED <<entered, attempts, backoff, holders>>

-------------------------------------------------------------------------------
\* call_with_retry: an empty chain goes straight to the retry loop.
CallWithRetry(c) ==
    /\ pc[c] = "idle"
    /\ c \notin Broadcasts
    /\ Goto(c, IF Depth = 0 THEN "attempt" ELSE "before")
    /\ UNCHANGED <<entered, attempts, backoff, result, holders>>

\* One `before` that lets the call through, once the limiter has a free slot.
Before(c) ==
    LET m == entered[c] + 1 IN
    /\ pc[c] = "before"
    /\ Cardinality(holders[m]) < Permits
    /\ holders' = [holders EXCEPT ![m] = @ \cup {c}]
    /\ entered' = [entered EXCEPT ![c] = m]
    /\ Goto(c, IF m = Depth THEN "attempt" ELSE "before")
    /\ UNCHANGED <<attempts, backoff, result>>

\* One `before` that fails: the call unwinds what it entered, with 0 attempts.
Refuse(c) ==
    /\ pc[c] = "before"
    /\ result' = [result EXCEPT ![c] = Refusal]
    /\ Goto(c, IF entered[c] = 0 THEN "returned" ELSE "after")
    /\ UNCHANGED <<entered, attempts, backoff, holders>>

\* f(): a fresh client and a clone of the request, sent to the node.
Attempt(c) ==
    /\ pc[c] = "attempt"
    /\ attempts' = [attempts EXCEPT ![c] = @ + 1]
    /\ Goto(c, "inflight")
    /\ UNCHANGED <<entered, backoff, result, holders>>

\* The loop is over: with middleware entered the call unwinds it first.
Finish(c, r) ==
    /\ result' = [result EXCEPT ![c] = r]
    /\ Goto(c, IF entered[c] = 0 THEN "returned" ELSE "after")

Succeed(c) ==
    /\ pc[c] = "inflight"
    /\ c \notin Broadcasts
    /\ Finish(c, Ok)
    /\ UNCHANGED <<entered, attempts, backoff, holders>>

\* An attempt failed for good: the limit is reached, or the error is final.
FailFinally(c, e) ==
    /\ pc[c] = "inflight"
    /\ c \notin Broadcasts
    /\ attempts[c] >= AttemptLimit \/ ~IsRetryable(e)
    /\ Finish(c, e)
    /\ UNCHANGED <<entered, attempts, backoff, holders>>

\* An attempt failed and is worth another: sleep first.
FailRetryably(c, e) ==
    /\ pc[c] = "inflight"
    /\ c \notin Broadcasts
    /\ attempts[c] < AttemptLimit /\ IsRetryable(e)
    /\ result' = [result EXCEPT ![c] = e]
    /\ Goto(c, "backoff")
    /\ UNCHANGED <<entered, attempts, backoff, holders>>

\* The sleep ends and the base back-off advances for the next one.
Wake(c) ==
    /\ pc[c] = "backoff"
    /\ backoff' = [backoff EXCEPT ![c] = NextBackoff(@)]
    /\ Goto(c, "attempt")
    /\ UNCHANGED <<entered, attempts, result, holders>>

\* One `after`, innermost of the entered first.
After(c) ==
    /\ pc[c] = "after"
    /\ holders' = [holders EXCEPT ![entered[c]] = @ \ {c}]
    /\ entered' = [entered EXCEPT ![c] = @ - 1]
    /\ Goto(c, IF entered[c] = 1 THEN "returned" ELSE "after")
    /\ UNCHANGED <<attempts, backoff, result>>

\* broadcast_transaction: straight to its one attempt, around the middleware.
BroadcastTransaction(c) ==
    /\ pc[c] = "idle"
    /\ c \in Broadcasts
    /\ Goto(c, "attempt")
    /\ UNCHANGED <<entered, attempts, backoff, result, holders>>

\* Its only answer, good or bad, is what the caller gets.
BroadcastReturn(c, r) ==
    /\ pc[c] = "inflight"
    /\ c \in Broadcasts
    /\ result' = [result EXCEPT ![c] = r]
    /\ Goto(c, "returned")
    /\ UNCHANGED <<entered, attempts, backoff, holders>>

\* The caller drops the future at an await: nothing after it runs.
Drop(c) ==
    /\ MayDrop
    /\ pc[c] \notin {"idle"} \cup Over
    /\ Goto(c, "dropped")
    /\ UNCHANGED <<entered, attempts, backoff, result, holders>>

\* Every call is over: the system may stop.
Done ==
    /\ \A c \in Calls : pc[c] \in Over
    /\ UNCHANGED vars

CallStep(c) ==
    \/ CallWithRetry(c) \/ Before(c) \/ Attempt(c) \/ Succeed(c)
    \/ \E e \in Faults : FailFinally(c, e) \/ FailRetryably(c, e)
    \/ Wake(c) \/ After(c) \/ BroadcastTransaction(c)
    \/ \E r \in Faults \cup {Ok} : BroadcastReturn(c, r)

Next ==
    \/ \E c \in Calls : CallStep(c) \/ Refuse(c) \/ Drop(c)
    \/ Done

(***************************************************************************)
(* A future that is polled goes on: an attempt is answered or times out    *)
(* (Endpoint::timeout), a sleep ends, and a slot that stays free is taken. *)
(* Nobody is obliged to refuse or to drop a call.                          *)
(***************************************************************************)
Fairness == \A c \in Calls : WF_vars(CallStep(c))

Spec == Init /\ [][Next]_vars /\ Fairness

-------------------------------------------------------------------------------
TypeOK ==
    /\ pc \in [Calls -> {"idle", "before", "attempt", "inflight", "backoff",
                          "after"} \cup Over]
    /\ entered \in [Calls -> 0..Depth]
    /\ attempts \in [Calls -> 0..AttemptLimit]
    /\ backoff \in [Calls -> Nat]
    /\ result \in [Calls -> Outcomes]
    /\ holders \in [Middleware -> SUBSET Calls]

(***************************************************************************)
(* Middleware that ran `before` is owed its `after`: a call that returned, *)
(* however it went and however many calls were interleaved with it, holds  *)
(* no slot of any middleware (call_with_retry's unwinding).                *)
(***************************************************************************)
OwedAfter ==
    \A c \in Calls : pc[c] = "returned" => \A m \in Middleware : c \notin holders[m]

(***************************************************************************)
(* Enter and exit nest: a call inside some middleware is inside every one  *)
(* further out (before in order, after in reverse).                        *)
(***************************************************************************)
NestedBrackets ==
    \A c \in Calls, m \in Middleware :
        c \in holders[m] => \A k \in 1..m : c \in holders[k]

(***************************************************************************)
(* Nothing is sent a second time unless the attempt before it failed with  *)
(* a transient status, and a broadcast never is (retry, is_retryable).     *)
(***************************************************************************)
ResendOnlyTransient ==
    [][\A c \in Calls :
        attempts'[c] # attempts[c] /\ attempts[c] > 0 =>
            IsRetryable(result[c]) /\ c \notin Broadcasts]_vars

(***************************************************************************)
(* Unless somebody drops a call, every call that was made returns,         *)
(* although the limiters make calls wait for each other: slots are taken   *)
(* in one order and always given back (call_with_retry).                   *)
(***************************************************************************)
EveryCallReturns ==
    [](\A c \in Calls : pc[c] # "dropped") =>
        \A c \in Calls : (pc[c] # "idle" ~> pc[c] = "returned")

\* The transport as one logical RPC per call, seen by the caller.
Phase(c) ==
    CASE pc[c] = "idle" -> "idle"
      [] pc[c] = "returned" -> "closed"
      [] pc[c] = "dropped" -> "abandoned"
      [] OTHER -> "open"

Rpcs == INSTANCE LogicalRpc WITH
    Limit <- [c \in Calls |-> IF c \in Broadcasts THEN 1 ELSE AttemptLimit],
    Answers <- Outcomes \ {Unset},
    Success <- Ok,
    Refused <- Refusal,
    Unanswered <- Unset,
    phase <- [c \in Calls |-> Phase(c)],
    executions <- attempts,
    answer <- [c \in Calls |-> IF pc[c] = "returned" THEN result[c] ELSE Unset]

(***************************************************************************)
(* The call path implements one logical RPC per call: bounded executions,  *)
(* none when refused, none after the answer, an answer that stays.         *)
(***************************************************************************)
ImplementsLogicalRpc == Rpcs!Spec
===============================================================================
