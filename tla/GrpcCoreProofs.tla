---------------------------- MODULE GrpcCoreProofs ----------------------------
(***************************************************************************)
(* Proofs about the shared gRPC call path, for any number of calls, any    *)
(* middleware chain and any retry configuration.                           *)
(***************************************************************************)
EXTENDS GrpcCore, TLAPS

\* The most attempts a call may make: a broadcast has one.
LimitOf(c) == IF c \in Broadcasts THEN 1 ELSE AttemptLimit

\* What a call holds is the prefix of the chain that it entered.
HeldInv ==
    \A c \in Calls, m \in Middleware : c \in holders[m] <=> m <= entered[c]

\* How far a call is into the chain, by where it is suspended.
EnteredInv ==
    \A c \in Calls :
        /\ pc[c] \in {"idle", "returned"} => entered[c] = 0
        /\ pc[c] = "before" => entered[c] < Depth
        /\ pc[c] = "after" => entered[c] > 0
        /\ c \in Broadcasts =>
              entered[c] = 0 /\ pc[c] \notin {"before", "backoff", "after"}

\* What is known of the attempts made and of the last outcome.
AttemptInv ==
    \A c \in Calls :
        /\ attempts[c] <= LimitOf(c)
        /\ pc[c] \in {"idle", "before"} => attempts[c] = 0 /\ result[c] = Unset
        /\ pc[c] \in {"attempt", "backoff"} =>
              /\ attempts[c] < LimitOf(c)
              /\ attempts[c] > 0 => IsRetryable(result[c]) /\ c \notin Broadcasts
        /\ pc[c] = "inflight" => attempts[c] > 0
        /\ pc[c] \in {"attempt", "inflight", "backoff"} =>
              result[c] \notin {Ok, Refusal}
        /\ result[c] = Refusal => attempts[c] = 0
        /\ result[c] = Ok => attempts[c] > 0
        /\ pc[c] \in {"after", "returned"} => result[c] # Unset

IInv == TypeOK /\ HeldInv /\ EnteredInv /\ AttemptInv

LEMMA LimitPositive == AttemptLimit \in Nat /\ AttemptLimit >= 1
  BY RetryAssumption DEF AttemptLimit

\* Outcomes are told apart by their kind.
LEMMA OutcomesDiffer ==
    /\ Ok # Refusal /\ Ok # Unset /\ Refusal # Unset
    /\ \A e \in Faults : e # Ok /\ e # Refusal /\ e # Unset
    /\ ~IsRetryable(Ok) /\ ~IsRetryable(Unset) /\ ~IsRetryable(Refusal)
  BY FaultsAssumption DEF Ok, Refusal, Unset, Plain, Rpc, IsRetryable

LEMMA InitIInv == Init => IInv
  BY DepthAssumption, RetryAssumption, LimitPositive, OutcomesDiffer
  DEF Init, IInv, TypeOK, HeldInv, EnteredInv, AttemptInv, LimitOf, Over,
      Outcomes, Middleware

\* Each action keeps the variables in their types.
LEMMA TypeStep == IInv /\ [Next]_vars => TypeOK'
  <1> SUFFICES ASSUME IInv, [Next]_vars PROVE TypeOK'
    OBVIOUS
  <1> USE DepthAssumption, RetryAssumption, LimitPositive
      DEF IInv, TypeOK, EnteredInv, AttemptInv, Over, Outcomes, Goto, LimitOf, Middleware
  <1>1. ASSUME NEW c \in Calls, CallWithRetry(c) PROVE TypeOK'
    BY <1>1 DEF CallWithRetry
  <1>2. ASSUME NEW c \in Calls, Before(c) PROVE TypeOK'
    BY <1>2 DEF Before
  <1>3. ASSUME NEW c \in Calls, Refuse(c) PROVE TypeOK'
    BY <1>3 DEF Refuse
  <1>4. ASSUME NEW c \in Calls, Attempt(c) PROVE TypeOK'
    <2>0. attempts[c] \in Nat /\ attempts[c] < LimitOf(c) /\ LimitOf(c) <= AttemptLimit
      BY <1>4 DEF Attempt
    <2>1. attempts[c] + 1 \in 0..AttemptLimit
      BY <2>0
    <2> QED BY <1>4, <2>1 DEF Attempt
  <1>5. ASSUME NEW c \in Calls, Succeed(c) PROVE TypeOK'
    BY <1>5 DEF Succeed, Finish
  <1>6. ASSUME NEW c \in Calls, NEW e \in Faults, FailFinally(c, e) PROVE TypeOK'
    BY <1>6 DEF FailFinally, Finish
  <1>7. ASSUME NEW c \in Calls, NEW e \in Faults, FailRetryably(c, e) PROVE TypeOK'
    BY <1>7 DEF FailRetryably
  <1>8. ASSUME NEW c \in Calls, Wake(c) PROVE TypeOK'
    <2>1. NextBackoff(backoff[c]) \in Nat
      BY DEF NextBackoff
    <2> QED BY <1>8, <2>1 DEF Wake
  <1>9. ASSUME NEW c \in Calls, After(c) PROVE TypeOK'
    <2>1. entered[c] \in Middleware /\ entered[c] - 1 \in 0..Depth
      BY <1>9 DEF After
    <2> QED BY <1>9, <2>1 DEF After
  <1>10. ASSUME NEW c \in Calls, BroadcastTransaction(c) PROVE TypeOK'
    BY <1>10 DEF BroadcastTransaction
  <1>11. ASSUME NEW c \in Calls, NEW r \in Faults \cup {Ok}, BroadcastReturn(c, r)
         PROVE TypeOK'
    BY <1>11 DEF BroadcastReturn
  <1>12. ASSUME NEW c \in Calls, Drop(c) PROVE TypeOK'
    BY <1>12 DEF Drop
  <1>13. CASE UNCHANGED vars
    BY <1>13 DEF vars
  <1> QED
    BY <1>1, <1>2, <1>3, <1>4, <1>5, <1>6, <1>7, <1>8, <1>9, <1>10, <1>11,
       <1>12, <1>13 DEF Next, CallStep, Done
\* Entering and leaving keep the held middleware a prefix of the chain.
LEMMA HeldStep == IInv /\ [Next]_vars => HeldInv'
  <1> SUFFICES ASSUME IInv, [Next]_vars PROVE HeldInv'
    OBVIOUS
  <1> USE DepthAssumption
      DEF IInv, TypeOK, HeldInv, EnteredInv, Goto, Middleware
  <1>1. ASSUME NEW c \in Calls, CallWithRetry(c)
         PROVE HeldInv'
    BY <1>1 DEF CallWithRetry
  <1>2. ASSUME NEW c \in Calls, Before(c)
         PROVE HeldInv'
    BY <1>2 DEF Before
  <1>3. ASSUME NEW c \in Calls, Refuse(c)
         PROVE HeldInv'
    BY <1>3 DEF Refuse
  <1>4. ASSUME NEW c \in Calls, Attempt(c)
         PROVE HeldInv'
    BY <1>4 DEF Attempt
  <1>5. ASSUME NEW c \in Calls, Succeed(c)
         PROVE HeldInv'
    BY <1>5 DEF Succeed, Finish
  <1>6. ASSUME NEW c \in Calls, NEW e \in Faults, FailFinally(c, e)
         PROVE HeldInv'
    BY <1>6 DEF FailFinally, Finish
  <1>7. ASSUME NEW c \in Calls, NEW e \in Faults, FailRetryably(c, e)
         PROVE HeldInv'
    BY <1>7 DEF FailRetryably
  <1>8. ASSUME NEW c \in Calls, Wake(c)
         PROVE HeldInv'
    BY <1>8 DEF Wake
  <1>9. ASSUME NEW c \in Calls, After(c)
         PROVE HeldInv'
    BY <1>9 DEF After
  <1>10. ASSUME NEW c \in Calls, BroadcastTransaction(c)
         PROVE HeldInv'
    BY <1>10 DEF BroadcastTransaction
  <1>11. ASSUME NEW c \in Calls, NEW r \in Faults \cup {Ok}, BroadcastReturn(c, r)
         PROVE HeldInv'
    BY <1>11 DEF BroadcastReturn
  <1>12. ASSUME NEW c \in Calls, Drop(c)
         PROVE HeldInv'
    BY <1>12 DEF Drop
  <1>13. CASE UNCHANGED vars
    BY <1>13 DEF vars
  <1> QED
    BY <1>1, <1>2, <1>3, <1>4, <1>5, <1>6, <1>7, <1>8, <1>9, <1>10, <1>11, <1>12, <1>13 DEF Next, CallStep, Done

\* The program point tells how deep the call is.
LEMMA EnteredStep == IInv /\ [Next]_vars => EnteredInv'
  <1> SUFFICES ASSUME IInv, [Next]_vars PROVE EnteredInv'
    OBVIOUS
  <1> USE DepthAssumption
      DEF IInv, TypeOK, EnteredInv, Goto, Middleware
  <1>1. ASSUME NEW c \in Calls, CallWithRetry(c)
         PROVE EnteredInv'
    BY <1>1 DEF CallWithRetry
  <1>2. ASSUME NEW c \in Calls, Before(c)
         PROVE EnteredInv'
    BY <1>2 DEF Before
  <1>3. ASSUME NEW c \in Calls, Refuse(c)
         PROVE EnteredInv'
    BY <1>3 DEF Refuse
  <1>4. ASSUME NEW c \in Calls, Attempt(c)
         PROVE EnteredInv'
    BY <1>4 DEF Attempt
  <1>5. ASSUME NEW c \in Calls, Succeed(c)
         PROVE EnteredInv'
    BY <1>5 DEF Succeed, Finish
  <1>6. ASSUME NEW c \in Calls, NEW e \in Faults, FailFinally(c, e)
         PROVE EnteredInv'
    BY <1>6 DEF FailFinally, Finish
  <1>7. ASSUME NEW c \in Calls, NEW e \in Faults, FailRetryably(c, e)
         PROVE EnteredInv'
    BY <1>7 DEF FailRetryably
  <1>8. ASSUME NEW c \in Calls, Wake(c)
         PROVE EnteredInv'
    BY <1>8 DEF Wake
  <1>9. ASSUME NEW c \in Calls, After(c)
         PROVE EnteredInv'
    BY <1>9 DEF After
  <1>10. ASSUME NEW c \in Calls, BroadcastTransaction(c)
         PROVE EnteredInv'
    BY <1>10 DEF BroadcastTransaction
  <1>11. ASSUME NEW c \in Calls, NEW r \in Faults \cup {Ok}, BroadcastReturn(c, r)
         PROVE EnteredInv'
    BY <1>11 DEF BroadcastReturn
  <1>12. ASSUME NEW c \in Calls, Drop(c)
         PROVE EnteredInv'
    BY <1>12 DEF Drop
  <1>13. CASE UNCHANGED vars
    BY <1>13 DEF vars
  <1> QED
    BY <1>1, <1>2, <1>3, <1>4, <1>5, <1>6, <1>7, <1>8, <1>9, <1>10, <1>11, <1>12, <1>13 DEF Next, CallStep, Done

\* The loop counts what it sends and remembers why it failed.
LEMMA AttemptStep == IInv /\ [Next]_vars => AttemptInv'
  <1> SUFFICES ASSUME IInv, [Next]_vars PROVE AttemptInv'
    OBVIOUS
  <1> USE LimitPositive, OutcomesDiffer
      DEF IInv, TypeOK, EnteredInv, AttemptInv, LimitOf, Goto
  <1>1. ASSUME NEW c \in Calls, CallWithRetry(c)
         PROVE AttemptInv'
    BY <1>1 DEF CallWithRetry
  <1>2. ASSUME NEW c \in Calls, Before(c)
         PROVE AttemptInv'
    BY <1>2 DEF Before
  <1>3. ASSUME NEW c \in Calls, Refuse(c)
         PROVE AttemptInv'
    BY <1>3 DEF Refuse
  <1>4. ASSUME NEW c \in Calls, Attempt(c)
         PROVE AttemptInv'
    BY <1>4 DEF Attempt
  <1>5. ASSUME NEW c \in Calls, Succeed(c)
         PROVE AttemptInv'
    BY <1>5 DEF Succeed, Finish
  <1>6. ASSUME NEW c \in Calls, NEW e \in Faults, FailFinally(c, e)
         PROVE AttemptInv'
    BY <1>6 DEF FailFinally, Finish
  <1>7. ASSUME NEW c \in Calls, NEW e \in Faults, FailRetryably(c, e)
         PROVE AttemptInv'
    BY <1>7 DEF FailRetryably
  <1>8. ASSUME NEW c \in Calls, Wake(c)
         PROVE AttemptInv'
    BY <1>8 DEF Wake
  <1>9. ASSUME NEW c \in Calls, After(c)
         PROVE AttemptInv'
    BY <1>9 DEF After
  <1>10. ASSUME NEW c \in Calls, BroadcastTransaction(c)
         PROVE AttemptInv'
    BY <1>10 DEF BroadcastTransaction
  <1>11. ASSUME NEW c \in Calls, NEW r \in Faults \cup {Ok}, BroadcastReturn(c, r)
         PROVE AttemptInv'
    BY <1>11 DEF BroadcastReturn
  <1>12. ASSUME NEW c \in Calls, Drop(c)
         PROVE AttemptInv'
    BY <1>12 DEF Drop
  <1>13. CASE UNCHANGED vars
    BY <1>13 DEF vars
  <1> QED
    BY <1>1, <1>2, <1>3, <1>4, <1>5, <1>6, <1>7, <1>8, <1>9, <1>10, <1>11, <1>12, <1>13 DEF Next, CallStep, Done

\* The conjunction is inductive.
LEMMA IInvariant == Spec => []IInv
  <1>1. IInv /\ [Next]_vars => IInv'
    BY TypeStep, HeldStep, EnteredStep, AttemptStep DEF IInv
  <1> QED BY InitIInv, <1>1, PTL DEF Spec

\* Type correctness of the call path for every configuration.
THEOREM TypeCorrect == Spec => []TypeOK
  <1>1. IInv => TypeOK
    BY DEF IInv
  <1> QED BY IInvariant, <1>1, PTL

(***************************************************************************)
(* Whatever the chain and the interleaving, a call that returned gave back *)
(* every slot it took (call_with_retry's unwinding).                       *)
(***************************************************************************)
THEOREM OwedAfterHolds == Spec => []OwedAfter
  <1>1. IInv => OwedAfter
    BY DepthAssumption
    DEF IInv, TypeOK, HeldInv, EnteredInv, OwedAfter, Middleware
  <1> QED BY IInvariant, <1>1, PTL

\* `before` in order and `after` in reverse keep the brackets nested.
THEOREM NestedBracketsHolds == Spec => []NestedBrackets
  <1>1. IInv => NestedBrackets
    BY DepthAssumption DEF IInv, TypeOK, HeldInv, NestedBrackets, Middleware
  <1> QED BY IInvariant, <1>1, PTL

(***************************************************************************)
(* Nothing is sent again except after a transient failure, and a broadcast *)
(* is never sent again (retry, broadcast_transaction).                     *)
(***************************************************************************)
THEOREM ResendOnlyTransientHolds == Spec => ResendOnlyTransient
  <1>1. ASSUME IInv, [Next]_vars, NEW d \in Calls,
               attempts'[d] # attempts[d], attempts[d] > 0
        PROVE  IsRetryable(result[d]) /\ d \notin Broadcasts
    <2>1. PICK c \in Calls : Attempt(c)
      BY <1>1 DEF Next, CallStep, Done, vars, CallWithRetry, Before, Refuse,
         Succeed, FailFinally, FailRetryably, Wake, After, BroadcastTransaction,
         BroadcastReturn, Drop
    <2> QED BY <1>1, <2>1 DEF Attempt, IInv, TypeOK, AttemptInv
  <1>2. IInv /\ [Next]_vars =>
          [\A c \in Calls :
              attempts'[c] # attempts[c] /\ attempts[c] > 0 =>
                  IsRetryable(result[c]) /\ c \notin Broadcasts]_vars
    BY <1>1
  <1> QED BY IInvariant, <1>2, PTL DEF Spec, ResendOnlyTransient

\* The caller's view of one call: phase, executions and answer.
PhaseFn == [c \in Calls |-> Phase(c)]
AnswerFn == [c \in Calls |-> IF pc[c] = "returned" THEN result[c] ELSE Unset]

\* A step that moves one call between points of the same phase shows nothing.
LEMMA HiddenStep ==
    ASSUME IInv, NEW c \in Calls, NEW label, pc' = [pc EXCEPT ![c] = label],
           pc[c] \notin {"idle", "returned", "dropped"},
           label \notin {"idle", "returned", "dropped"},
           result' \in [Calls -> Outcomes],
           \A d \in Calls \ {c} : result'[d] = result[d]
    PROVE  UNCHANGED <<PhaseFn, AnswerFn>>
  BY DEF IInv, TypeOK, PhaseFn, AnswerFn, Phase

\* A step that returns answer r from an open call closes it.
LEMMA ReturnStep ==
    ASSUME IInv, NEW c \in Calls, NEW r \in Outcomes,
           pc' = [pc EXCEPT ![c] = "returned"],
           result' = [result EXCEPT ![c] = r],
           pc[c] \notin {"idle", "returned", "dropped"}
    PROVE  /\ PhaseFn[c] = "open"
           /\ PhaseFn' = [PhaseFn EXCEPT ![c] = "closed"]
           /\ AnswerFn' = [AnswerFn EXCEPT ![c] = r]
  BY DEF IInv, TypeOK, PhaseFn, AnswerFn, Phase

\* Initial states map to initial states.
LEMMA RefinesInit == Init => Rpcs!Init
  BY DEF Init, Rpcs!Init, Phase

\* The abstract next-state relation, in terms of the mapped variables.
LEMMA RefinesStep == IInv /\ [Next]_vars => [Rpcs!Next]_(Rpcs!rpcVars)
  <1> SUFFICES ASSUME IInv, [Next]_vars PROVE [Rpcs!Next]_(Rpcs!rpcVars)
    OBVIOUS
  <1> USE DEF Goto
  <1>a. TypeOK' BY TypeStep
  <1>1. ASSUME NEW c \in Calls, CallWithRetry(c) \/ BroadcastTransaction(c)
        PROVE Rpcs!Open(c)
    BY <1>1 DEF CallWithRetry, BroadcastTransaction, Rpcs!Open, Phase, IInv, TypeOK
  <1>2. ASSUME NEW c \in Calls, Attempt(c) PROVE Rpcs!Execute(c)
    <2>1. attempts[c] < LimitOf(c)
      BY <1>2 DEF Attempt, IInv, AttemptInv
    <2> QED BY <1>2, <2>1 DEF Attempt, Rpcs!Execute, Phase, LimitOf, IInv, TypeOK
  <1>3. ASSUME NEW c \in Calls, Drop(c) PROVE Rpcs!Abandon(c)
    BY <1>3 DEF Drop, Rpcs!Abandon, Phase, IInv, TypeOK, Over
  <1>4. ASSUME NEW c \in Calls, Before(c) \/ Wake(c)
        PROVE UNCHANGED Rpcs!rpcVars
    BY <1>4, HiddenStep DEF Before, Wake, Rpcs!rpcVars, PhaseFn, AnswerFn, IInv, TypeOK
  <1>5. ASSUME NEW c \in Calls, NEW e \in Faults, FailRetryably(c, e)
        PROVE UNCHANGED Rpcs!rpcVars
    <2>1. result' \in [Calls -> Outcomes] /\ \A d \in Calls \ {c} : result'[d] = result[d]
      BY <1>5, <1>a DEF FailRetryably, IInv, TypeOK
    <2> QED BY <1>5, <2>1, HiddenStep DEF FailRetryably, Rpcs!rpcVars, PhaseFn, AnswerFn
  <1>6. ASSUME NEW c \in Calls, NEW r \in Outcomes \ {Unset},
               pc[c] \notin {"idle", "returned", "dropped"},
               pc' = [pc EXCEPT ![c] = "returned"],
               result' = [result EXCEPT ![c] = r], attempts' = attempts,
               r = Ok => attempts[c] > 0, r = Refusal => attempts[c] = 0
        PROVE Rpcs!Close(c, r)
    BY <1>6, ReturnStep DEF Rpcs!Close, PhaseFn, AnswerFn
  <1>7. ASSUME NEW c \in Calls, NEW r \in Outcomes \ {Unset},
               pc[c] \notin {"idle", "returned", "dropped"},
               result' = [result EXCEPT ![c] = r], attempts' = attempts,
               pc' = [pc EXCEPT ![c] = IF entered[c] = 0 THEN "returned" ELSE "after"],
               r = Ok => attempts[c] > 0, r = Refusal => attempts[c] = 0
        PROVE Rpcs!Close(c, r) \/ UNCHANGED Rpcs!rpcVars
    <2>1. CASE entered[c] = 0
      BY <1>6, <1>7, <2>1
    <2>2. CASE entered[c] # 0
      <3>1. result' \in [Calls -> Outcomes] /\ \A d \in Calls \ {c} : result'[d] = result[d]
        BY <1>7, <1>a DEF IInv, TypeOK
      <3> QED BY <1>7, <2>2, <3>1, HiddenStep DEF Rpcs!rpcVars, PhaseFn, AnswerFn
    <2> QED BY <2>1, <2>2
  <1>8. ASSUME NEW c \in Calls, Refuse(c)
        PROVE Rpcs!Close(c, Refusal) \/ UNCHANGED Rpcs!rpcVars
    BY <1>8, <1>7, OutcomesDiffer DEF Refuse, IInv, AttemptInv, Outcomes
  <1>9. ASSUME NEW c \in Calls, Succeed(c)
        PROVE Rpcs!Close(c, Ok) \/ UNCHANGED Rpcs!rpcVars
    BY <1>9, <1>7, OutcomesDiffer DEF Succeed, Finish, IInv, AttemptInv, Outcomes
  <1>10. ASSUME NEW c \in Calls, NEW e \in Faults, FailFinally(c, e)
         PROVE Rpcs!Close(c, e) \/ UNCHANGED Rpcs!rpcVars
    BY <1>10, <1>7, OutcomesDiffer DEF FailFinally, Finish, Outcomes
  <1>11. ASSUME NEW c \in Calls, NEW r \in Faults \cup {Ok}, BroadcastReturn(c, r)
         PROVE Rpcs!Close(c, r)
    BY <1>11, <1>6, OutcomesDiffer DEF BroadcastReturn, IInv, AttemptInv, Outcomes
  <1>12. ASSUME NEW c \in Calls, After(c)
         PROVE \/ \E r \in Outcomes \ {Unset} : Rpcs!Close(c, r)
               \/ UNCHANGED Rpcs!rpcVars
    <2>1. PICK r \in Outcomes \ {Unset} : r = result[c]
      BY <1>12 DEF After, IInv, TypeOK, AttemptInv
    <2>2. /\ result' = [result EXCEPT ![c] = r] /\ attempts' = attempts
          /\ (r = Ok => attempts[c] > 0) /\ (r = Refusal => attempts[c] = 0)
      BY <1>12, <2>1 DEF After, IInv, TypeOK, AttemptInv
    <2>3. CASE entered[c] = 1
      <3>1. pc[c] = "after" /\ pc' = [pc EXCEPT ![c] = "returned"]
        BY <1>12, <2>3 DEF After
      <3>2. Rpcs!Close(c, r)
        BY <3>1, <1>6, <2>2
      <3> QED BY <3>2
    <2>4. CASE entered[c] # 1
      <3>1. UNCHANGED <<PhaseFn, AnswerFn>>
        BY <1>12, <2>4, HiddenStep DEF After, IInv, TypeOK
      <3> QED BY <1>12, <3>1 DEF After, Rpcs!rpcVars, PhaseFn, AnswerFn
    <2> QED BY <2>3, <2>4
  <1>13. CASE UNCHANGED vars
    BY <1>13 DEF vars, Rpcs!rpcVars, Phase
  <1>14. \A e \in Faults : e \in Outcomes \ {Unset}
    BY OutcomesDiffer DEF Outcomes
  <1>15. Ok \in Outcomes \ {Unset} /\ Refusal \in Outcomes \ {Unset}
    BY OutcomesDiffer DEF Outcomes
  <1>16. ASSUME NEW c \in Calls, CallStep(c) \/ Refuse(c) \/ Drop(c)
         PROVE [Rpcs!Next]_(Rpcs!rpcVars)
    <2>1. CASE CallWithRetry(c) \/ BroadcastTransaction(c)
      BY <1>1, <2>1 DEF Rpcs!Next
    <2>2. CASE Attempt(c)
      BY <1>2, <2>2 DEF Rpcs!Next
    <2>3. CASE Drop(c)
      BY <1>3, <2>3 DEF Rpcs!Next
    <2>4. CASE Before(c) \/ Wake(c)
      BY <1>4, <2>4
    <2>5. CASE Refuse(c)
      BY <1>8, <1>15, <2>5 DEF Rpcs!Next
    <2>6. CASE Succeed(c)
      BY <1>9, <1>15, <2>6 DEF Rpcs!Next
    <2>7. ASSUME NEW e \in Faults, FailFinally(c, e) PROVE [Rpcs!Next]_(Rpcs!rpcVars)
      BY <1>10, <1>14, <2>7 DEF Rpcs!Next
    <2>8. ASSUME NEW e \in Faults, FailRetryably(c, e) PROVE [Rpcs!Next]_(Rpcs!rpcVars)
      BY <1>5, <2>8
    <2>9. ASSUME NEW r \in Faults \cup {Ok}, BroadcastReturn(c, r)
          PROVE [Rpcs!Next]_(Rpcs!rpcVars)
      BY <1>11, <1>14, <1>15, <2>9 DEF Rpcs!Next
    <2>10. CASE After(c)
      BY <1>12, <2>10 DEF Rpcs!Next
    <2>11. CASE \E e \in Faults : FailFinally(c, e) \/ FailRetryably(c, e)
      BY <2>7, <2>8, <2>11
    <2>12. CASE \E r \in Faults \cup {Ok} : BroadcastReturn(c, r)
      BY <2>9, <2>12
    <2> QED
      BY <1>16, <2>1, <2>2, <2>3, <2>4, <2>5, <2>6, <2>10, <2>11, <2>12, Zenon
      DEF CallStep
  <1> QED
    BY <1>13, <1>16 DEF Next, Done

(***************************************************************************)
(* For every configuration the call path implements one logical RPC per    *)
(* call: at most the configured executions (one for a broadcast), none if  *)
(* a middleware refused, none after the answer.                            *)
(***************************************************************************)
THEOREM Refinement == Spec => ImplementsLogicalRpc
  BY RefinesInit, RefinesStep, IInvariant, PTL DEF Spec, ImplementsLogicalRpc, Rpcs!Spec

===============================================================================
