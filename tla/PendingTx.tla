------------------------------- MODULE PendingTx -------------------------------
(***************************************************************************)
(* Waiting for a broadcast transaction (provider/pending.rs and the wait_* *)
(* methods of provider/solidity.rs), while the chain includes it, orphans  *)
(* it and solidifies it.  There are three ways to wait:                    *)
(*   "full"     get_receipt: ask a FullNode under one wall-clock budget;   *)
(*   "solid"    get_solidified_receipt: the same budget around             *)
(*              wait_for_transaction_with(.., u32::MAX), whose attempts    *)
(*              never run out within it;                                   *)
(*   "attempts" wait_for_transaction_with / wait_for_success_with, bounded *)
(*              by a number of questions alone.                            *)
(* Time is counted down in ticks.  A due timer fires before the next tick; *)
(* an answer that arrives in the same tick may come first.                 *)
(***************************************************************************)
EXTENDS Naturals, TransportErrors

CONSTANTS
    Waiters,
    Modes,        \* the ways to wait that are used
    Timeout,      \* with_timeout, in ticks
    Interval,     \* with_poll_interval, in ticks
    MaxAttempts,  \* max_attempts of the "attempts" mode, may be 0
    Faults        \* what get_transaction_info can fail with

ASSUME ModesAssumption == Modes \subseteq {"full", "solid", "attempts"}
ASSUME BudgetAssumption ==
    Timeout \in Nat /\ Interval \in Nat /\ MaxAttempts \in Nat
ASSUME FaultsAssumption == Faults \subseteq TransportErrorKind

VARIABLES
    chain,   \* what became of the transaction: its place and its execution
    pc,      \* idle, asking, sleeping, done
    mode,    \* the way each waiter waits
    strict,  \* require_success / wait_for_success
    left,    \* what is left of the budget
    nap,     \* what is left of the sleep
    asks,    \* questions asked in the "attempts" mode; elsewhere only the first
    last,    \* last_error, as kept by the loop
    failed,  \* whether a question failed transiently (history)
    result   \* what the wait returned

vars == <<chain, pc, mode, strict, left, nap, asks, last, failed, result>>

None == Plain("none")
Execution == {"success", "failure"}
Chain == [place : {"nowhere", "included", "solid"}, exec : Execution]
Nothing == [kind |-> "none", exec |-> "success", error |-> None]
Deadline(w) == mode[w] \in {"full", "solid"}
Waiting(w) == pc[w] \in {"asking", "sleeping"}

Init ==
    /\ chain = [place |-> "nowhere", exec |-> "success"]
    /\ pc = [w \in Waiters |-> "idle"]
    /\ mode \in [Waiters -> Modes]
    /\ strict \in [Waiters -> BOOLEAN]
    /\ left = [w \in Waiters |-> Timeout]
    /\ nap = [w \in Waiters |-> 0]
    /\ asks = [w \in Waiters |-> 0]
    /\ last = [w \in Waiters |-> None]
    /\ failed = [w \in Waiters |-> FALSE]
    /\ result = [w \in Waiters |-> Nothing]

Finish(w, kind, exec, error) ==
    /\ pc' = [pc EXCEPT ![w] = "done"]
    /\ result' = [result EXCEPT ![w] = [kind |-> kind, exec |-> exec, error |-> error]]

TimedOut(w, reason) == Finish(w, "ConfirmationTimeout", "success", reason)

-------------------------------------------------------------------------------
(* The chain: inclusion can be undone until the block is solidified.       *)

Include(x) ==
    /\ chain.place = "nowhere"
    /\ chain' = [place |-> "included", exec |-> x]
    /\ UNCHANGED <<pc, mode, strict, left, nap, asks, last, failed, result>>

Reorganize ==
    /\ chain.place = "included"
    /\ chain' = [chain EXCEPT !.place = "nowhere"]
    /\ UNCHANGED <<pc, mode, strict, left, nap, asks, last, failed, result>>

Solidify ==
    /\ chain.place = "included"
    /\ chain' = [chain EXCEPT !.place = "solid"]
    /\ UNCHANGED <<pc, mode, strict, left, nap, asks, last, failed, result>>

-------------------------------------------------------------------------------
(* Mutated forms of the definitions below.                                 *)

\* The solidified receipt read from the FullNode.
HasReceiptAnywhere(w) == chain.place \in {"included", "solid"}

\* The loop breaks on the first empty answer of the last-but-one attempt.
OutOfAttemptsEarly(w) == mode[w] = "attempts" /\ asks[w] + 1 >= MaxAttempts

\* The deadline is only looked at between polls, not around the call.
TimesOutWhileAsleep(w) ==
    /\ Deadline(w) /\ pc[w] = "sleeping" /\ left[w] = 0
    /\ TimedOut(w, IF mode[w] = "full" THEN last[w] ELSE None)
    /\ UNCHANGED <<chain, mode, strict, left, nap, asks, last, failed>>

-------------------------------------------------------------------------------
(* The wait.                                                               *)

\* The first question goes out at once, unless no attempt is allowed.
Start(w) ==
    /\ pc[w] = "idle"
    /\ IF mode[w] = "attempts" /\ MaxAttempts = 0
       THEN TimedOut(w, None) /\ UNCHANGED asks
       ELSE /\ pc' = [pc EXCEPT ![w] = "asking"]
            /\ asks' = [asks EXCEPT ![w] = 1]
            /\ UNCHANGED result
    /\ UNCHANGED <<chain, mode, strict, left, nap, last, failed>>

\* Which node is asked, and whether it could know: a SolidityNode only knows
\* what is solid.
HasReceipt(w) ==
    IF mode[w] = "full" THEN chain.place \in {"included", "solid"}
    ELSE chain.place = "solid"

\* Ok(Some(info)): check(), or wait_for_success_with's test.
AnswerReceipt(w) ==
    /\ pc[w] = "asking"
    /\ HasReceipt(w)
    /\ IF strict[w] /\ chain.exec = "failure"
       THEN Finish(w, "Reverted", chain.exec, None)
       ELSE Finish(w, "Receipt", chain.exec, None)
    /\ UNCHANGED <<chain, mode, strict, left, nap, asks, last, failed>>

\* `for attempt in 0..max_attempts` is exhausted.
OutOfAttempts(w) == mode[w] = "attempts" /\ asks[w] >= MaxAttempts

\* tokio::time::sleep(interval)
Sleep(w) ==
    /\ pc' = [pc EXCEPT ![w] = "sleeping"]
    /\ nap' = [nap EXCEPT ![w] = Interval]
    /\ UNCHANGED <<left, result>>

\* Ok(None), also from a node that has not indexed it yet.
AnswerNone(w) ==
    /\ pc[w] = "asking"
    /\ IF OutOfAttempts(w) THEN TimedOut(w, last[w]) /\ UNCHANGED <<nap, left>>
       ELSE Sleep(w)
    /\ UNCHANGED <<chain, mode, strict, asks, last, failed>>

IsFatal(e) == ~IsWorthReasking(FromTransport(e))

\* last_error = Some(err)
Keep(w, e) == last' = [last EXCEPT ![w] = e]

\* Err(err) if is_worth_reasking(&err): kept, and asked again if there is time.
AnswerTransient(w, e) ==
    /\ pc[w] = "asking"
    /\ ~IsFatal(e)
    /\ Keep(w, e)
    /\ failed' = [failed EXCEPT ![w] = TRUE]
    /\ IF OutOfAttempts(w) THEN TimedOut(w, last'[w]) /\ UNCHANGED <<nap, left>>
       ELSE Sleep(w)
    /\ UNCHANGED <<chain, mode, strict, asks>>

\* Err(err): the wait ends with it.
AnswerFatal(w, e) ==
    /\ pc[w] = "asking"
    /\ IsFatal(e)
    /\ Finish(w, "Transport", "success", e)
    /\ UNCHANGED <<chain, mode, strict, left, nap, asks, last, failed>>

Wake(w) ==
    /\ pc[w] = "sleeping" /\ nap[w] = 0
    /\ pc' = [pc EXCEPT ![w] = "asking"]
    /\ asks' = [asks EXCEPT ![w] = IF mode[w] = "attempts" THEN @ + 1 ELSE @]
    /\ UNCHANGED <<chain, mode, strict, left, nap, last, failed, result>>

\* tokio::time::timeout elapses and drops the poll, wherever it is.  Only
\* get_receipt's own loop keeps its last error outside the dropped future.
TimesOut(w) ==
    /\ Deadline(w) /\ Waiting(w) /\ left[w] = 0
    /\ TimedOut(w, IF mode[w] = "full" THEN last[w] ELSE None)
    /\ UNCHANGED <<chain, mode, strict, left, nap, asks, last, failed>>

\* A tick passes for everybody, once no timer is due.
Tick ==
    /\ \E w \in Waiters : Waiting(w)
    /\ \A w \in Waiters :
        Waiting(w) => /\ Deadline(w) => left[w] > 0
                      /\ pc[w] = "sleeping" => nap[w] > 0
    /\ left' = [w \in Waiters |-> IF Waiting(w) /\ Deadline(w) THEN left[w] - 1 ELSE left[w]]
    /\ nap' = [w \in Waiters |-> IF pc[w] = "sleeping" THEN nap[w] - 1 ELSE nap[w]]
    /\ UNCHANGED <<chain, pc, mode, strict, asks, last, failed, result>>

Answer(w) ==
    \/ AnswerReceipt(w) \/ AnswerNone(w)
    \/ \E e \in Faults : AnswerTransient(w, e) \/ AnswerFatal(w, e)

WaiterStep(w) == Start(w) \/ Answer(w) \/ Wake(w) \/ TimesOut(w)

\* Every wait is over: nothing more has to happen.
Done == (\A w \in Waiters : pc[w] = "done") /\ UNCHANGED vars

Next ==
    \/ \E w \in Waiters : WaiterStep(w)
    \/ \E x \in Execution : Include(x)
    \/ Reorganize \/ Solidify \/ Tick \/ Done

(***************************************************************************)
(* Time passes, timers fire, and in the "attempts" mode, which has no      *)
(* deadline of its own, a call is answered or fails (the channel's request *)
(* timeout).  Within a budget nobody has to answer: the node may stay      *)
(* silent until the timeout.                                               *)
(***************************************************************************)
Fairness ==
    /\ WF_vars(Tick)
    /\ \A w \in Waiters :
        /\ WF_vars(Wake(w)) /\ WF_vars(TimesOut(w))
        /\ WF_vars(mode[w] = "attempts" /\ Answer(w))

Spec == Init /\ [][Next]_vars /\ Fairness

-------------------------------------------------------------------------------
Kinds == {"none", "Receipt", "Reverted", "Transport", "ConfirmationTimeout"}

TypeOK ==
    /\ chain \in Chain
    /\ pc \in [Waiters -> {"idle", "asking", "sleeping", "done"}]
    /\ mode \in [Waiters -> Modes]
    /\ strict \in [Waiters -> BOOLEAN]
    /\ left \in [Waiters -> 0..Timeout]
    /\ nap \in [Waiters -> 0..Interval]
    /\ asks \in [Waiters -> Nat]
    /\ last \in [Waiters -> Faults \cup {None}]
    /\ failed \in [Waiters -> BOOLEAN]
    /\ result \in [Waiters -> [kind : Kinds, exec : Execution,
                               error : Faults \cup {None}]]

(***************************************************************************)
(* "Solidified state is irreversible": once a wait on solidified state has *)
(* returned a receipt, or reported the execution as failed, no later       *)
(* reorganization contradicts it; the chain says the same for ever.        *)
(***************************************************************************)
SolidReceiptIsFinal ==
    \A w \in Waiters :
        /\ mode[w] # "full"
        /\ result[w].kind \in {"Receipt", "Reverted"}
        => chain.place = "solid" /\ chain.exec = result[w].exec

(***************************************************************************)
(* A node that is unreachable, busy or slow never ends a wait: whatever    *)
(* error a wait ends with was not a status and not a lost connection.      *)
(***************************************************************************)
TransientNeverFatal ==
    \A w \in Waiters :
        result[w].kind = "Transport" => result[w].error.kind \notin {"Rpc", "Connect"}

(***************************************************************************)
(* A wait is given up only when all it was allowed is spent: the whole     *)
(* wall-clock budget, or every attempt.                                    *)
(***************************************************************************)
NoEarlyTimeout ==
    \A w \in Waiters :
        result[w].kind = "ConfirmationTimeout" =>
            IF Deadline(w) THEN left[w] = 0 ELSE asks[w] = MaxAttempts

(***************************************************************************)
(* get_receipt and wait_for_transaction_with keep the reason: a wait that  *)
(* timed out after a transient failure reports a failure.                  *)
(***************************************************************************)
TimeoutCarriesReason ==
    \A w \in Waiters :
        /\ mode[w] # "solid"
        /\ result[w].kind = "ConfirmationTimeout"
        => (failed[w] <=> result[w].error # None)

(***************************************************************************)
(* Every wait that was started comes to an end, although the node may      *)
(* never answer and the transaction may never be included.                 *)
(***************************************************************************)
EveryWaitEnds == \A w \in Waiters : pc[w] # "idle" ~> pc[w] = "done"
===============================================================================
