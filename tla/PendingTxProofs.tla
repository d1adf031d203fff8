---------------------------- MODULE PendingTxProofs ----------------------------
(***************************************************************************)
(* Proofs about waiting for a transaction, for any number of waiters, any  *)
(* budget, interval and number of attempts, and any faults.                *)
(***************************************************************************)
EXTENDS PendingTx, TLAPS

\* Only a wait that is over has a result.
ResultInv == \A w \in Waiters : pc[w] # "done" => result[w] = Nothing

\* Questions are counted, and one is only prepared while attempts are left.
AskInv ==
    \A w \in Waiters :
        /\ pc[w] = "idle" => asks[w] = 0
        /\ mode[w] = "attempts" =>
              /\ asks[w] <= MaxAttempts
              /\ pc[w] = "sleeping" => asks[w] < MaxAttempts

\* An error is kept exactly when a question has failed.
LastInv ==
    \A w \in Waiters :
        /\ failed[w] <=> last[w] # None
        /\ pc[w] = "idle" => last[w] = None

IInv ==
    /\ TypeOK /\ ResultInv /\ AskInv /\ LastInv
    /\ SolidReceiptIsFinal /\ TransientNeverFatal /\ NoEarlyTimeout
    /\ TimeoutCarriesReason

-------------------------------------------------------------------------------
(* Facts about errors.                                                     *)

\* An error that ends a wait is neither a status nor a lost connection.
LEMMA FatalIsNeither ==
    ASSUME NEW e, IsFatal(e)
    PROVE  e.kind \notin {"Rpc", "Connect"}
<1>1. CASE e.kind = "NodeError"
    BY <1>1
<1>2. CASE e.kind # "NodeError"
  <2>1. FromTransport(e).kind = "Transport" /\ FromTransport(e).source = e
    BY <1>2 DEF FromTransport
  <2> QED BY <2>1 DEF IsFatal, IsWorthReasking
<1> QED BY <1>1, <1>2

\* No fault is mistaken for the absence of one.
LEMMA FaultIsSome ==
    ASSUME NEW e \in Faults
    PROVE  e # None
BY FaultsAssumption
   DEF TransportErrorKind, Rpc, Plain, PlainKinds, RpcStatusCode, None

\* The result of a wait that is not over is told apart by its kind.
LEMMA NothingKind ==
    Nothing.kind = "none" /\ Nothing \in [kind : Kinds, exec : Execution, error : Faults \cup {None}]
BY DEF Nothing, Kinds, Execution

-------------------------------------------------------------------------------
(* The invariant holds at first, and every step keeps it.                  *)

LEMMA InitIInv == Init => IInv
<1> SUFFICES ASSUME Init PROVE IInv
    OBVIOUS
<1>1. TypeOK
    BY BudgetAssumption, NothingKind DEF Init, TypeOK, Chain, Execution, Kinds
<1>2. ResultInv /\ AskInv /\ LastInv
    BY BudgetAssumption DEF Init, ResultInv, AskInv, LastInv
<1>3. SolidReceiptIsFinal /\ TransientNeverFatal /\ NoEarlyTimeout /\ TimeoutCarriesReason
    BY NothingKind
    DEF Init, SolidReceiptIsFinal, TransientNeverFatal, NoEarlyTimeout, TimeoutCarriesReason
<1> QED BY <1>1, <1>2, <1>3 DEF IInv

\* The chain moves; what is solid stays.
LEMMA ChainStep ==
    ASSUME IInv, (\E x \in Execution : Include(x)) \/ Reorganize \/ Solidify
    PROVE  IInv'
<1>1. /\ chain' \in Chain
      /\ chain.place = "solid" => chain' = chain
    BY DEF IInv, TypeOK, Include, Reorganize, Solidify, Chain
<1>2. UNCHANGED <<pc, mode, strict, left, nap, asks, last, failed, result>>
    BY DEF Include, Reorganize, Solidify
<1>3. TypeOK'
    BY <1>1, <1>2 DEF IInv, TypeOK
<1>4. (ResultInv /\ AskInv /\ LastInv)'
    BY <1>2 DEF IInv, ResultInv, AskInv, LastInv
<1>5. SolidReceiptIsFinal'
    BY <1>1, <1>2 DEF IInv, SolidReceiptIsFinal
<1>6. (TransientNeverFatal /\ NoEarlyTimeout /\ TimeoutCarriesReason)'
    BY <1>2 DEF IInv, TransientNeverFatal, NoEarlyTimeout, TimeoutCarriesReason, Deadline
<1> QED BY <1>3, <1>4, <1>5, <1>6 DEF IInv

LEMMA TickStep == ASSUME IInv, Tick PROVE IInv'
<1>1. TypeOK'
    BY BudgetAssumption DEF IInv, TypeOK, Tick, Waiting, Deadline
<1>2. (ResultInv /\ AskInv /\ LastInv)'
    BY DEF IInv, Tick, ResultInv, AskInv, LastInv
<1>3. (SolidReceiptIsFinal /\ TransientNeverFatal /\ TimeoutCarriesReason)'
    BY DEF IInv, Tick, SolidReceiptIsFinal, TransientNeverFatal, TimeoutCarriesReason
<1>4. NoEarlyTimeout'
  <2>1. \A w \in Waiters : result[w].kind = "ConfirmationTimeout" => left'[w] = left[w]
    BY NothingKind DEF IInv, TypeOK, ResultInv, Tick, Waiting
  <2> QED BY <2>1 DEF IInv, Tick, NoEarlyTimeout, Deadline
<1> QED BY <1>1, <1>2, <1>3, <1>4 DEF IInv

\* A step that gives no result: the questions and the reason are all it changes.
LEMMA QuietStep ==
    ASSUME IInv, TypeOK', NEW w \in Waiters,
           UNCHANGED <<chain, mode, result>>,
           \A v \in Waiters : pc[v] # "done" \/ pc'[v] = pc[v],
           \A v \in Waiters : v # w => pc'[v] = pc[v],
           pc[w] # "done", pc'[w] # "done",
           \A v \in Waiters : v # w =>
              asks'[v] = asks[v] /\ last'[v] = last[v] /\ failed'[v] = failed[v] /\ left'[v] = left[v],
           pc'[w] # "idle",
           mode[w] = "attempts" =>
              asks'[w] <= MaxAttempts /\ (pc'[w] = "sleeping" => asks'[w] < MaxAttempts),
           failed'[w] <=> last'[w] # None
    PROVE  IInv'
<1>1. result[w] = Nothing
    BY DEF IInv, ResultInv
<1>2. (ResultInv /\ AskInv /\ LastInv)'
    BY <1>1 DEF IInv, ResultInv, AskInv, LastInv
<1>3. (SolidReceiptIsFinal /\ TransientNeverFatal)'
    BY DEF IInv, SolidReceiptIsFinal, TransientNeverFatal
<1>4. NoEarlyTimeout'
    BY <1>1, NothingKind DEF IInv, NoEarlyTimeout, Deadline
<1>5. TimeoutCarriesReason'
    BY <1>1, NothingKind DEF IInv, TimeoutCarriesReason
<1> QED BY <1>2, <1>3, <1>4, <1>5 DEF IInv

\* A step that ends a wait with the result (kind, exec, error).
LEMMA FinalStep ==
    ASSUME IInv, TypeOK', NEW w \in Waiters,
           UNCHANGED <<chain, mode, left>>,
           NEW kind, NEW exec, NEW error, Finish(w, kind, exec, error), pc[w] # "done",
           \A v \in Waiters : v # w =>
              asks'[v] = asks[v] /\ last'[v] = last[v] /\ failed'[v] = failed[v],
           mode[w] = "attempts" => asks'[w] <= MaxAttempts,
           failed'[w] <=> last'[w] # None,
           mode[w] # "full" /\ kind \in {"Receipt", "Reverted"} =>
              chain.place = "solid" /\ chain.exec = exec,
           kind = "Transport" => error.kind \notin {"Rpc", "Connect"},
           kind = "ConfirmationTimeout" =>
              IF Deadline(w) THEN left[w] = 0 ELSE asks'[w] = MaxAttempts,
           kind = "ConfirmationTimeout" /\ mode[w] # "solid" =>
              (failed'[w] <=> error # None)
    PROVE  IInv'
<1>1. /\ pc'[w] = "done"
      /\ result'[w] = [kind |-> kind, exec |-> exec, error |-> error]
      /\ \A v \in Waiters : v # w => pc'[v] = pc[v] /\ result'[v] = result[v]
    BY DEF IInv, TypeOK, Finish
<1>2. /\ result'[w].kind = kind /\ result'[w].exec = exec /\ result'[w].error = error
    BY <1>1
<1>3. (ResultInv /\ AskInv /\ LastInv)'
    BY <1>1 DEF IInv, ResultInv, AskInv, LastInv
<1>4. SolidReceiptIsFinal'
    BY <1>1, <1>2 DEF IInv, SolidReceiptIsFinal
<1>5. TransientNeverFatal'
    BY <1>1, <1>2 DEF IInv, TransientNeverFatal
<1>6. NoEarlyTimeout'
    BY <1>1, <1>2 DEF IInv, NoEarlyTimeout, Deadline
<1>7. TimeoutCarriesReason'
    BY <1>1, <1>2 DEF IInv, TimeoutCarriesReason
<1> QED BY <1>3, <1>4, <1>5, <1>6, <1>7 DEF IInv

-------------------------------------------------------------------------------
(* The steps of a waiter.                                                  *)

LEMMA StartStep == ASSUME IInv, NEW w \in Waiters, Start(w) PROVE IInv'
<1>1. CASE mode[w] = "attempts" /\ MaxAttempts = 0
  <2>1. /\ Finish(w, "ConfirmationTimeout", "success", None)
        /\ UNCHANGED <<chain, mode, strict, left, nap, asks, last, failed>>
    BY <1>1 DEF Start, TimedOut
  <2>2. TypeOK'
    BY <2>1 DEF IInv, TypeOK, Finish, Kinds, Execution
  <2>3. pc[w] = "idle" /\ asks[w] = 0 /\ ~Deadline(w)
    BY <1>1 DEF Start, IInv, AskInv, Deadline
  <2>4. (failed[w] <=> last[w] # None) /\ last[w] = None
    BY <2>3 DEF IInv, LastInv
  <2> QED BY <1>1, <2>1, <2>2, <2>3, <2>4, FinalStep
<1>2. CASE ~(mode[w] = "attempts" /\ MaxAttempts = 0)
  <2>1. /\ pc[w] = "idle"
        /\ pc' = [pc EXCEPT ![w] = "asking"]
        /\ asks' = [asks EXCEPT ![w] = 1]
        /\ UNCHANGED <<chain, mode, strict, left, nap, last, failed, result>>
    BY <1>2 DEF Start
  <2>2. TypeOK'
    BY <2>1 DEF IInv, TypeOK
  <2>3. mode[w] = "attempts" => asks'[w] <= MaxAttempts
    BY <1>2, <2>1, BudgetAssumption DEF IInv, TypeOK
  <2>4. /\ \A v \in Waiters : v # w => pc'[v] = pc[v] /\ asks'[v] = asks[v]
        /\ pc'[w] = "asking"
    BY <2>1 DEF IInv, TypeOK
  <2>5. failed'[w] <=> last'[w] # None
    BY <2>1 DEF IInv, LastInv
  <2> QED BY <2>1, <2>2, <2>3, <2>4, <2>5, QuietStep
<1> QED BY <1>1, <1>2

LEMMA ReceiptStep == ASSUME IInv, NEW w \in Waiters, AnswerReceipt(w) PROVE IInv'
<1>1. PICK kind \in {"Receipt", "Reverted"} : Finish(w, kind, chain.exec, None)
    BY DEF AnswerReceipt
<1>2. /\ pc[w] = "asking" /\ HasReceipt(w)
      /\ UNCHANGED <<chain, mode, strict, left, nap, asks, last, failed>>
    BY DEF AnswerReceipt
<1>3. TypeOK'
    BY <1>1, <1>2 DEF IInv, TypeOK, Finish, Kinds, Chain
<1>4. mode[w] # "full" => chain.place = "solid"
    BY <1>2 DEF HasReceipt
<1>5. /\ failed[w] <=> last[w] # None
      /\ mode[w] = "attempts" => asks[w] <= MaxAttempts
    BY DEF IInv, LastInv, AskInv
<1> QED BY <1>1, <1>2, <1>3, <1>4, <1>5, FinalStep

LEMMA FatalStep ==
    ASSUME IInv, NEW w \in Waiters, NEW e \in Faults, AnswerFatal(w, e)
    PROVE  IInv'
<1>1. /\ pc[w] = "asking" /\ Finish(w, "Transport", "success", e)
      /\ UNCHANGED <<chain, mode, strict, left, nap, asks, last, failed>>
    BY DEF AnswerFatal
<1>2. TypeOK'
    BY <1>1 DEF IInv, TypeOK, Finish, Kinds, Execution
<1>3. e.kind \notin {"Rpc", "Connect"}
    BY FatalIsNeither DEF AnswerFatal
<1>4. /\ failed[w] <=> last[w] # None
      /\ mode[w] = "attempts" => asks[w] <= MaxAttempts
    BY DEF IInv, LastInv, AskInv
<1> QED BY <1>1, <1>2, <1>3, <1>4, FinalStep

\* An empty answer or a transient failure: the wait goes on, or is given up.
LEMMA AgainStep ==
    ASSUME IInv, NEW w \in Waiters, pc[w] = "asking",
           UNCHANGED <<chain, mode, strict, asks>>,
           last' \in [Waiters -> Faults \cup {None}], failed' \in [Waiters -> BOOLEAN],
           \A v \in Waiters : v # w => last'[v] = last[v] /\ failed'[v] = failed[v],
           failed'[w] <=> last'[w] # None,
           IF OutOfAttempts(w) THEN TimedOut(w, last'[w]) /\ UNCHANGED <<nap, left>>
           ELSE Sleep(w)
    PROVE  IInv'
<1>1. mode[w] = "attempts" => asks[w] <= MaxAttempts
    BY DEF IInv, AskInv
<1>2. CASE OutOfAttempts(w)
  <2>1. /\ Finish(w, "ConfirmationTimeout", "success", last'[w])
        /\ UNCHANGED <<nap, left>>
    BY <1>2 DEF TimedOut
  <2>2. TypeOK'
    BY <2>1 DEF IInv, TypeOK, Finish, Kinds, Execution
  <2>3. mode[w] = "attempts" /\ asks[w] >= MaxAttempts /\ ~Deadline(w)
    BY <1>2 DEF OutOfAttempts, Deadline
  <2>4. asks[w] \in Nat
    BY DEF IInv, TypeOK
  <2>5. asks'[w] = MaxAttempts
    BY <1>1, <2>3, <2>4, BudgetAssumption
  <2> QED BY <1>1, <2>1, <2>2, <2>3, <2>5, FinalStep
<1>3. CASE ~OutOfAttempts(w)
  <2>1. /\ pc' = [pc EXCEPT ![w] = "sleeping"]
        /\ nap' = [nap EXCEPT ![w] = Interval]
        /\ UNCHANGED <<left, result>>
    BY <1>3 DEF Sleep
  <2>2. TypeOK'
    BY <2>1, BudgetAssumption DEF IInv, TypeOK
  <2>3. /\ pc'[w] = "sleeping"
        /\ \A v \in Waiters : v # w => pc'[v] = pc[v]
    BY <2>1 DEF IInv, TypeOK
  <2>4. mode[w] = "attempts" => asks'[w] <= MaxAttempts /\ asks'[w] < MaxAttempts
    BY <1>1, <1>3, BudgetAssumption DEF OutOfAttempts, IInv, TypeOK
  <2> QED BY <2>1, <2>2, <2>3, <2>4, QuietStep
<1> QED BY <1>2, <1>3

LEMMA NoneStep == ASSUME IInv, NEW w \in Waiters, AnswerNone(w) PROVE IInv'
<1>1. /\ failed[w] <=> last[w] # None
      /\ last \in [Waiters -> Faults \cup {None}] /\ failed \in [Waiters -> BOOLEAN]
    BY DEF IInv, LastInv, TypeOK
<1>2. /\ pc[w] = "asking"
      /\ UNCHANGED <<chain, mode, strict, asks, last, failed>>
      /\ IF OutOfAttempts(w) THEN TimedOut(w, last[w]) /\ UNCHANGED <<nap, left>>
         ELSE Sleep(w)
    BY DEF AnswerNone
<1>3. IF OutOfAttempts(w) THEN TimedOut(w, last'[w]) /\ UNCHANGED <<nap, left>>
      ELSE Sleep(w)
    BY <1>2
<1> QED BY <1>1, <1>2, <1>3, AgainStep

LEMMA TransientStep ==
    ASSUME IInv, NEW w \in Waiters, NEW e \in Faults, AnswerTransient(w, e)
    PROVE  IInv'
<1>1. /\ last' = [last EXCEPT ![w] = e] /\ failed' = [failed EXCEPT ![w] = TRUE]
      /\ last \in [Waiters -> Faults \cup {None}] /\ failed \in [Waiters -> BOOLEAN]
    BY DEF AnswerTransient, Keep, IInv, TypeOK
<1>2. /\ last' \in [Waiters -> Faults \cup {None}] /\ failed' \in [Waiters -> BOOLEAN]
      /\ \A v \in Waiters : v # w => last'[v] = last[v] /\ failed'[v] = failed[v]
      /\ last'[w] = e /\ failed'[w] = TRUE
    BY <1>1
<1>3. failed'[w] <=> last'[w] # None
    BY <1>2, FaultIsSome
<1>4. /\ pc[w] = "asking"
      /\ UNCHANGED <<chain, mode, strict, asks>>
      /\ IF OutOfAttempts(w) THEN TimedOut(w, last'[w]) /\ UNCHANGED <<nap, left>>
         ELSE Sleep(w)
    BY DEF AnswerTransient
<1> QED BY <1>2, <1>3, <1>4, AgainStep

LEMMA WakeStep == ASSUME IInv, NEW w \in Waiters, Wake(w) PROVE IInv'
<1>1. /\ pc[w] = "sleeping"
      /\ pc' = [pc EXCEPT ![w] = "asking"]
      /\ asks' = [asks EXCEPT ![w] = IF mode[w] = "attempts" THEN asks[w] + 1 ELSE asks[w]]
      /\ UNCHANGED <<chain, mode, strict, left, nap, last, failed, result>>
    BY DEF Wake
<1>2. TypeOK'
    BY <1>1 DEF IInv, TypeOK
<1>3. mode[w] = "attempts" => asks'[w] <= MaxAttempts
    BY <1>1, BudgetAssumption DEF IInv, TypeOK, AskInv
<1>4. /\ \A v \in Waiters : v # w => pc'[v] = pc[v] /\ asks'[v] = asks[v]
      /\ pc'[w] = "asking"
    BY <1>1 DEF IInv, TypeOK
<1>5. failed'[w] <=> last'[w] # None
    BY <1>1 DEF IInv, LastInv
<1> QED BY <1>1, <1>2, <1>3, <1>4, <1>5, QuietStep

LEMMA TimesOutStep == ASSUME IInv, NEW w \in Waiters, TimesOut(w) PROVE IInv'
<1>1. PICK reason \in Faults \cup {None} :
          /\ Finish(w, "ConfirmationTimeout", "success", reason)
          /\ mode[w] # "solid" => reason = last[w]
    BY DEF TimesOut, TimedOut, IInv, TypeOK, Deadline
<1>2. /\ pc[w] # "done" /\ left[w] = 0 /\ Deadline(w)
      /\ UNCHANGED <<chain, mode, strict, left, nap, asks, last, failed>>
    BY DEF TimesOut, Waiting
<1>3. TypeOK'
    BY <1>1, <1>2 DEF IInv, TypeOK, Finish, Kinds, Execution
<1>4. /\ failed[w] <=> last[w] # None
      /\ mode[w] = "attempts" => asks[w] <= MaxAttempts
    BY DEF IInv, LastInv, AskInv
<1> QED BY <1>1, <1>2, <1>3, <1>4, FinalStep

LEMMA IInvStep == IInv /\ [Next]_vars => IInv'
<1> SUFFICES ASSUME IInv, [Next]_vars PROVE IInv'
    OBVIOUS
<1>1. CASE UNCHANGED vars
    BY <1>1 DEF vars, IInv, TypeOK, ResultInv, AskInv, LastInv, SolidReceiptIsFinal,
                TransientNeverFatal, NoEarlyTimeout, TimeoutCarriesReason, Deadline
<1>2. CASE (\E x \in Execution : Include(x)) \/ Reorganize \/ Solidify
    BY <1>2, ChainStep
<1>3. CASE Tick
    BY <1>3, TickStep
<1>4. ASSUME NEW w \in Waiters, WaiterStep(w) PROVE IInv'
  <2>1. CASE Start(w)
    BY <2>1, StartStep
  <2>2. CASE AnswerReceipt(w)
    BY <2>2, ReceiptStep
  <2>3. CASE AnswerNone(w)
    BY <2>3, NoneStep
  <2>4. ASSUME NEW e \in Faults, AnswerTransient(w, e) PROVE IInv'
    BY <2>4, TransientStep
  <2>5. ASSUME NEW e \in Faults, AnswerFatal(w, e) PROVE IInv'
    BY <2>5, FatalStep
  <2>6. CASE Wake(w)
    BY <2>6, WakeStep
  <2>7. CASE TimesOut(w)
    BY <2>7, TimesOutStep
  <2> QED BY <1>4, <2>1, <2>2, <2>3, <2>4, <2>5, <2>6, <2>7 DEF WaiterStep, Answer
<1> QED BY <1>1, <1>2, <1>3, <1>4 DEF Next, Done

-------------------------------------------------------------------------------
(* The results.                                                            *)

(***************************************************************************)
(* The types hold, the countdowns among them: no budget is overdrawn.      *)
(***************************************************************************)
THEOREM TypeCorrect == Spec => []TypeOK
<1>1. IInv => TypeOK
    BY DEF IInv
<1> QED BY <1>1, InitIInv, IInvStep, PTL DEF Spec

(***************************************************************************)
(* A receipt from a wait on solidified state (get_solidified_receipt,      *)
(* wait_for_transaction_with) is never contradicted by the chain again.    *)
(***************************************************************************)
THEOREM SolidReceiptIsFinalHolds == Spec => []SolidReceiptIsFinal
<1>1. IInv => SolidReceiptIsFinal
    BY DEF IInv
<1> QED BY <1>1, InitIInv, IInvStep, PTL DEF Spec

(***************************************************************************)
(* No status and no lost connection ends a wait (is_worth_reasking).       *)
(***************************************************************************)
THEOREM TransientNeverFatalHolds == Spec => []TransientNeverFatal
<1>1. IInv => TransientNeverFatal
    BY DEF IInv
<1> QED BY <1>1, InitIInv, IInvStep, PTL DEF Spec

(***************************************************************************)
(* A wait times out only with its budget, or its attempts, all spent.      *)
(***************************************************************************)
THEOREM NoEarlyTimeoutHolds == Spec => []NoEarlyTimeout
<1>1. IInv => NoEarlyTimeout
    BY DEF IInv
<1> QED BY <1>1, InitIInv, IInvStep, PTL DEF Spec

(***************************************************************************)
(* Except for get_solidified_receipt, a timeout reports a failure exactly  *)
(* when a question had failed (last_error).                                *)
(***************************************************************************)
THEOREM TimeoutCarriesReasonHolds == Spec => []TimeoutCarriesReason
<1>1. IInv => TimeoutCarriesReason
    BY DEF IInv
<1> QED BY <1>1, InitIInv, IInvStep, PTL DEF Spec
================================================================================
