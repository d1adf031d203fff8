------------------------- MODULE SendTransactionProofs -------------------------
(***************************************************************************)
(* Why nobody who follows the documented recovery pays twice, for any      *)
(* number of senders, any expiry, cache lifetime and number of sends: as   *)
(* long as no two senders ask for the same thing (so that a transaction    *)
(* has one owner) and nobody re-broadcasts (so that a transaction has one  *)
(* copy).  The two violation runs show that both conditions are needed.    *)
(***************************************************************************)
EXTENDS SendTransaction, TLAPS

OneOwner == \A s, u \in Senders : Payload[s] = Payload[u] => s = u

\* The sender's current transaction is, or may become, a payment.
Live(s) == pc[s] \in {"sending", "settled"} \/ Open(s)

ErrorsTotal == err = [s \in Senders |-> err[s]]

Owned ==
    \A s \in Senders :
        /\ cur[s].pay = Payload[s]
        /\ \A t \in mine[s] : t.pay = Payload[s]

\* Whatever the network or the node holds was signed by somebody.
Signed ==
    /\ \A s \in Senders : pc[s] = "signed" \/ Live(s) => cur[s] \in mine[s]
    /\ \A r \in inbox : r.tx \in mine[r.s]
    /\ \A t \in pool \cup chain : \E s \in Senders : t \in mine[s]

\* Of what a sender signed, only the current transaction may still matter.
OneLive ==
    \A s \in Senders : \A t \in mine[s] : (t = cur[s] /\ Live(s)) \/ Gone(t)

\* A request that can still be taken is the current one of its sender.
Requests ==
    /\ \A r \in inbox :
        /\ r.n <= sends[r.s]
        /\ r.tx \notin chain
        /\ \/ Expired(r.tx)
           \/ /\ r.tx \notin pool
              /\ r.tx = cur[r.s] /\ Live(r.s) /\ r.n = sends[r.s]
        /\ pc[r.s] = "sending" /\ r.n = sends[r.s] => r.tx = cur[r.s]
    /\ \A r, q \in inbox : r.s = q.s /\ r.n = q.n => r = q

\* A reply is the only trace of its request and says what became of it.
Replies ==
    \A q \in replies :
        /\ pc[q.s] = "sending" /\ q.n = sends[q.s]
        /\ \A r \in inbox : r.s = q.s => r.n # q.n
        /\ IF q.answer.result
           THEN /\ q.answer.code = "Ok"
                /\ cur[q.s] \in pool \cup chain \/ Expired(cur[q.s])
           ELSE Gone(cur[q.s])

IInv ==
    /\ TypeOK /\ ErrorsTotal /\ Owned /\ Signed /\ OneLive /\ Requests
    /\ Replies /\ PendingWasTaken

-------------------------------------------------------------------------------
(* What the error algebra says about a broadcast.                          *)

\* An answer is accepted exactly when it arrived and its result flag is set.
LEMMA OutcomeOfAnswer ==
    ASSUME NEW a \in Answers
    PROVE  BroadcastOutcome(a) = Accepted <=> (a.code = "Ok" /\ a.result)
<1>1. CASE a.code = "Ok"
    BY <1>1 DEF BroadcastOutcome, CheckReturn, Accepted, Plain, Answers
<1>2. CASE a.code # "Ok"
    BY <1>2 DEF BroadcastOutcome, Accepted, Plain, MapStatus, Rpc
<1> QED BY <1>1, <1>2

\* Every failed broadcast becomes one of the four kinds of error.
LEMMA KindOfError ==
    ASSUME NEW tx, NEW e
    PROVE  BroadcastError(tx, e).kind \in Errors
BY DEF BroadcastError, FromTransport, Errors

\* A broadcast that was lost is always reported as open.
LEMMA LostIsOpen ==
    ASSUME NEW f \in LostAs, NEW tx
    PROVE  BroadcastError(tx, MapStatus(f.code, f.http)).kind = "Broadcast"
<1> DEFINE e == MapStatus(f.code, f.http)
<1>1. f.http \notin {401, 403} /\ f.code \in RpcStatusCode
      /\ f.code \notin {"InvalidArgument", "PermissionDenied", "Unauthenticated",
                        "Unimplemented"}
    BY LossAssumption, StatusAssumption DEF Statuses
<1>2. MapHttpStatus(f.http) \in {"ResourceExhausted", "Unavailable", "none"}
    BY <1>1 DEF MapHttpStatus
<1>3. f.code # "Ok"
    BY <1>1 DEF RpcStatusCode
<1>4. e.kind = "Rpc" /\ e.code \in {"ResourceExhausted", "Unavailable", f.code}
    BY <1>2, <1>3 DEF MapStatus, MapCode, Rpc
<1>5. ~RefusedBy(e)
    BY <1>1, <1>4 DEF RefusedBy
<1> QED BY <1>5 DEF BroadcastError

-------------------------------------------------------------------------------
(* Types.                                                                  *)

LEMMA InitIInv == Init => IInv
<1> SUFFICES ASSUME Init PROVE IInv
    OBVIOUS
<1>1. TypeOK /\ ErrorsTotal
    BY DEF Init, TypeOK, ErrorsTotal, Labels, Tx, NoBlock
<1>2. Owned /\ Signed /\ OneLive /\ Requests /\ Replies /\ PendingWasTaken
    BY DEF Init, Owned, Signed, OneLive, Requests, Replies, PendingWasTaken, Live, Open
<1> QED BY <1>1, <1>2 DEF IInv

LEMMA TypeStep ==
    ASSUME TypeOK, ErrorsTotal, [Next]_vars
    PROVE  TypeOK' /\ ErrorsTotal'
<1> USE DEF TypeOK, ErrorsTotal, Labels, Goto
<1>1. ASSUME NEW s \in Senders, Fill(s) PROVE TypeOK' /\ ErrorsTotal'
    BY <1>1, TimeAssumption DEF Fill, nodeVars, Tx, NoBlock
<1>2. ASSUME NEW s \in Senders, FillFails(s) \/ BuildFails(s) \/ SignFails(s)
      PROVE TypeOK' /\ ErrorsTotal'
    BY <1>2 DEF FillFails, BuildFails, SignFails, Fail, nodeVars, LocalUsage,
                FromTransport, Errors, Rpc, Plain
<1>3. ASSUME NEW s \in Senders,
             BuildTransaction(s) \/ Retry(s) \/ LookUp(s) \/ Replace(s)
      PROVE TypeOK' /\ ErrorsTotal'
    BY <1>3 DEF BuildTransaction, Retry, LookUp, Replace, nodeVars
<1>4. ASSUME NEW s \in Senders, Sign(s) PROVE TypeOK' /\ ErrorsTotal'
    BY <1>4 DEF Sign, nodeVars
<1>5. ASSUME NEW s \in Senders, SendOnce(s) PROVE TypeOK' /\ ErrorsTotal'
    BY <1>5 DEF SendOnce
<1>6. ASSUME NEW s \in Senders, NEW e, BroadcastFails(s, e) PROVE TypeOK' /\ ErrorsTotal'
    BY <1>6, KindOfError DEF BroadcastFails, Fail, Forget
<1>7. ASSUME NEW s \in Senders, Answered(s) PROVE TypeOK' /\ ErrorsTotal'
    <2>1. PICK q \in replies :
            \/ /\ Goto(s, "pending") /\ Forget(s)
               /\ UNCHANGED <<clock, tapos, cur, err, sends, mine, inbox, pool, chain>>
            \/ BroadcastFails(s, BroadcastOutcome(q.answer))
        BY <1>7 DEF Answered
    <2>2. CASE BroadcastFails(s, BroadcastOutcome(q.answer))
        BY <2>2, <1>6
    <2>3. CASE ~BroadcastFails(s, BroadcastOutcome(q.answer))
        BY <2>1, <2>3 DEF Forget
    <2> QED BY <2>2, <2>3
<1>8. ASSUME NEW s \in Senders, Unanswered(s) PROVE TypeOK' /\ ErrorsTotal'
    BY <1>8, <1>6 DEF Unanswered
<1>9. CASE LoseRequest
    BY <1>9 DEF LoseRequest, callVars
<1>10. ASSUME NEW r \in inbox, NEW a \in Answers,
              Reply(r, a)
       PROVE replies' \subseteq [s : Senders, n : Nat, answer : Answers]
    BY <1>10 DEF Reply
<1>11. CASE ProxyRefuses
    <2>1. PICK r \in inbox, f \in RefusedAs :
            /\ inbox' = inbox \ {r}
            /\ Reply(r, Status(f))
            /\ UNCHANGED <<clock, tapos, callVars, pool, chain>>
        BY <1>11 DEF ProxyRefuses
    <2>2. Status(f) \in Answers
        BY StatusAssumption DEF Status, Statuses, Answers
    <2> QED BY <2>1, <2>2, <1>10 DEF callVars
<1>12. ASSUME NEW b \in BOOLEAN
       PROVE Return(b) \in Answers
    BY DEF Return, Answers
<1>13. CASE NodeTakes
    <2>1. PICK r \in inbox :
            /\ inbox' = inbox \ {r} /\ pool' = pool \cup {r.tx}
            /\ Reply(r, Return(TRUE))
            /\ UNCHANGED <<clock, tapos, callVars, chain>>
        BY <1>13 DEF NodeTakes
    <2>2. Return(TRUE) \in Answers
        BY <1>12
    <2> QED BY <2>1, <2>2, <1>10 DEF callVars
<1>14. CASE NodeRefuses
    <2>1. PICK r \in inbox :
            /\ inbox' = inbox \ {r}
            /\ Reply(r, Return(FALSE))
            /\ UNCHANGED <<clock, tapos, callVars, pool, chain>>
        BY <1>14 DEF NodeRefuses
    <2>2. Return(FALSE) \in Answers
        BY <1>12
    <2> QED BY <2>1, <2>2, <1>10 DEF callVars
<1>15. CASE Include
    BY <1>15 DEF Include, callVars
<1>16. CASE Tick
    BY <1>16 DEF Tick, callVars
<1>17. CASE UNCHANGED vars
    BY <1>17 DEF vars
<1>18. ASSUME NEW s \in Senders, SenderStep(s) PROVE TypeOK' /\ ErrorsTotal'
    BY <1>18, <1>1, <1>2, <1>3, <1>4, <1>5, <1>7, <1>8
       DEF SenderStep, Broadcast, Rebroadcast
<1> QED BY <1>9, <1>11, <1>13, <1>14, <1>15, <1>16, <1>17, <1>18 DEF Next

-------------------------------------------------------------------------------
(* The steps, one action or one group of alike actions at a time.          *)

Rest == Owned /\ Signed /\ OneLive /\ Requests /\ Replies /\ PendingWasTaken

\* A step inside the caller, before anything was sent or after a refusal.
LEMMA QuietStep ==
    ASSUME IInv, TypeOK', NEW s \in Senders,
           \/ FillFails(s) \/ BuildTransaction(s) \/ BuildFails(s)
           \/ SignFails(s) \/ Retry(s)
    PROVE  Rest'
<1> USE DEF IInv
<1>1. /\ UNCHANGED <<clock, tapos, cur, sends, mine, inbox, replies, pool, chain>>
      /\ \A u \in Senders : u # s => pc'[u] = pc[u] /\ err'[u] = err[u]
      /\ pc[s] \notin {"sending", "settled", "pending"} /\ ~Open(s)
      /\ pc'[s] \notin {"sending", "settled", "pending", "signed"} /\ ~Open(s)'
    BY DEF FillFails, BuildTransaction, BuildFails, SignFails, Retry, Fail, Goto,
           nodeVars, TypeOK, ErrorsTotal, Open, LocalUsage, FromTransport, Rpc, Plain
<1>2. \A u \in Senders : Live(u)' = Live(u)
    BY <1>1 DEF Live, Open
<1>3. \A t : Gone(t)' = Gone(t) /\ Expired(t)' = Expired(t)
    BY <1>1 DEF Gone, Expired
<1>4. Owned' /\ Signed' /\ OneLive'
    BY <1>1, <1>2, <1>3 DEF Owned, Signed, OneLive
<1>5. Requests'
    BY <1>1, <1>2, <1>3 DEF Requests, TypeOK
<1>6. Replies' /\ PendingWasTaken'
    BY <1>1, <1>3 DEF Replies, PendingWasTaken, TypeOK
<1> QED BY <1>4, <1>5, <1>6 DEF Rest

\* The look-up that settles, and the replacement past the expiry.
LEMMA RecoveryStep ==
    ASSUME IInv, TypeOK', NEW s \in Senders, LookUp(s) \/ Replace(s)
    PROVE  Rest'
<1> USE DEF IInv
<1>1. /\ UNCHANGED <<clock, tapos, cur, err, sends, mine, inbox, replies, pool, chain>>
      /\ \A u \in Senders : u # s => pc'[u] = pc[u]
      /\ Open(s)
      /\ \/ pc'[s] = "settled" /\ cur[s] \in chain
         \/ pc'[s] = "idle" /\ Expired(cur[s]) /\ cur[s] \notin chain
    BY DEF LookUp, Replace, Goto, nodeVars, TypeOK
<1>2. \A u \in Senders : u # s => Live(u)' = Live(u)
    BY <1>1 DEF Live, Open
<1>3. \A t : Gone(t)' = Gone(t) /\ Expired(t)' = Expired(t)
    BY <1>1 DEF Gone, Expired
<1>4. Live(s) /\ (Live(s)' \/ Gone(cur[s])) /\ (Live(s)' \/ Expired(cur[s]))
    BY <1>1 DEF Live, Gone
<1>5. Owned' /\ Signed'
    BY <1>1, <1>2, <1>4 DEF Owned, Signed, Live, Open
<1>6. OneLive'
    BY <1>1, <1>2, <1>3, <1>4 DEF OneLive
<1>7. Requests'
    BY <1>1, <1>2, <1>3, <1>4 DEF Requests, TypeOK
<1>8. Replies' /\ PendingWasTaken'
    BY <1>1, <1>3 DEF Replies, PendingWasTaken, TypeOK, Open
<1> QED BY <1>5, <1>6, <1>7, <1>8 DEF Rest

LEMMA FillStep ==
    ASSUME IInv, TypeOK', NEW s \in Senders, Fill(s)
    PROVE  Rest'
<1> USE DEF IInv
<1>1. /\ UNCHANGED <<clock, err, sends, mine, inbox, replies, pool, chain>>
      /\ \A u \in Senders : u # s => pc'[u] = pc[u] /\ cur'[u] = cur[u]
      /\ pc[s] = "idle" /\ pc'[s] = "filled" /\ cur'[s].pay = Payload[s]
    BY DEF Fill, Goto, nodeVars, TypeOK
<1>2. \A u \in Senders : Live(u)' = Live(u)
    BY <1>1 DEF Live, Open
<1>3. \A t : Gone(t)' = Gone(t) /\ Expired(t)' = Expired(t)
    BY <1>1 DEF Gone, Expired
<1>4. ~Live(s)
    BY <1>1 DEF Live, Open
<1>5. Owned' /\ Signed' /\ OneLive'
    BY <1>1, <1>2, <1>3, <1>4 DEF Owned, Signed, OneLive
<1>6. Requests'
    BY <1>1, <1>2, <1>3, <1>4 DEF Requests, TypeOK
<1>7. Replies' /\ PendingWasTaken'
    BY <1>1, <1>3 DEF Replies, PendingWasTaken, TypeOK
<1> QED BY <1>5, <1>6, <1>7 DEF Rest

\* What a sender is about to sign is gone: it never left, or came to nothing.
LEMMA UnsignedIsGone ==
    ASSUME OneOwner, IInv, NEW s \in Senders, ~Live(s)
    PROVE  Gone(cur[s])
<1> USE DEF IInv
<1>1. CASE cur[s] \in mine[s]
    BY <1>1 DEF OneLive
<1>2. CASE cur[s] \notin mine[s]
    <2>1. \A u \in Senders : cur[s] \notin mine[u]
        BY <1>2 DEF Owned, OneOwner
    <2> QED BY <2>1 DEF Signed, Gone, TypeOK
<1> QED BY <1>1, <1>2

LEMMA SignStep ==
    ASSUME OneOwner, IInv, TypeOK', NEW s \in Senders, Sign(s)
    PROVE  Rest'
<1> USE DEF IInv
<1>1. /\ UNCHANGED <<clock, tapos, cur, err, sends, inbox, replies, pool, chain>>
      /\ \A u \in Senders : u # s => pc'[u] = pc[u] /\ mine'[u] = mine[u]
      /\ pc[s] = "built" /\ pc'[s] = "signed" /\ mine'[s] = mine[s] \cup {cur[s]}
    BY DEF Sign, Goto, nodeVars, TypeOK
<1>2. \A u \in Senders : Live(u)' = Live(u)
    BY <1>1 DEF Live, Open
<1>3. \A t : Gone(t)' = Gone(t) /\ Expired(t)' = Expired(t)
    BY <1>1 DEF Gone, Expired
<1>4. Gone(cur[s])
    BY <1>1, UnsignedIsGone DEF Live, Open
<1>5. Owned' /\ OneLive'
    BY <1>1, <1>2, <1>3, <1>4 DEF Owned, OneLive
<1>6. Signed'
    BY <1>1, <1>2 DEF Signed, TypeOK
<1>7. Requests'
    BY <1>1, <1>2, <1>3 DEF Requests, TypeOK
<1>8. Replies' /\ PendingWasTaken'
    BY <1>1, <1>3 DEF Replies, PendingWasTaken, TypeOK
<1> QED BY <1>5, <1>6, <1>7, <1>8 DEF Rest

LEMMA BroadcastStep ==
    ASSUME OneOwner, IInv, TypeOK', NEW s \in Senders, Broadcast(s)
    PROVE  Rest'
<1> USE DEF IInv
<1> DEFINE r == [s |-> s, n |-> sends[s] + 1, tx |-> cur[s]]
<1>1. /\ UNCHANGED <<clock, tapos, cur, err, mine, replies, pool, chain>>
      /\ \A u \in Senders : u # s => pc'[u] = pc[u] /\ sends'[u] = sends[u]
      /\ pc[s] = "signed" /\ pc'[s] = "sending" /\ sends'[s] = sends[s] + 1
      /\ inbox' = inbox \cup {r}
    BY DEF Broadcast, SendOnce, Goto, TypeOK
<1>2. \A u \in Senders : u # s => Live(u)' = Live(u)
    BY <1>1 DEF Live, Open
<1>3. Live(s)' /\ ~Live(s)
    BY <1>1 DEF Live, Open
<1>4. Gone(cur[s]) /\ cur[s] \in mine[s]
    BY <1>1, <1>3, UnsignedIsGone DEF Signed
<1>5. \A t : /\ Expired(t)' = Expired(t)
             /\ t # cur[s] => Gone(t)' = Gone(t)
    BY <1>1 DEF Gone, Expired
<1>6. Owned' /\ Signed'
    BY <1>1, <1>2, <1>4 DEF Owned, Signed, TypeOK
<1>7. OneLive'
    <2> SUFFICES ASSUME NEW u \in Senders, NEW t \in mine[u]
                 PROVE  (t = cur[u] /\ Live(u)') \/ Gone(t)'
        BY <1>1 DEF OneLive
    <2>1. CASE t = cur[s]
        <3>1. u = s
            BY <2>1 DEF Owned, OneOwner
        <3> QED BY <2>1, <3>1, <1>3
    <2>2. CASE t # cur[s]
        BY <2>2, <1>2, <1>5 DEF OneLive
    <2> QED BY <2>1, <2>2
<1>8. \A q \in inbox : q.s = s => Expired(q.tx)
    BY <1>3 DEF Requests
<1>9. Requests'
    <2>1. \A q \in inbox :
            /\ q.n <= sends'[q.s] /\ q.tx \notin chain
            /\ \/ Expired(q.tx)
               \/ /\ q.tx \notin pool
                  /\ q.tx = cur[q.s] /\ Live(q.s)' /\ q.n = sends'[q.s]
            /\ pc'[q.s] = "sending" /\ q.n = sends'[q.s] => q.tx = cur[q.s]
        BY <1>1, <1>2, <1>8 DEF Requests, TypeOK
    <2>2. /\ r.n = sends'[r.s] /\ r.n \in Nat /\ r.tx \notin chain
          /\ Expired(r.tx) \/ r.tx \notin pool
          /\ r.tx = cur[r.s] /\ Live(r.s)'
        BY <1>1, <1>3, <1>4 DEF Gone, TypeOK
    <2>3. \A q \in inbox : q.s = s => q.n # sends[s] + 1
        BY DEF Requests, TypeOK
    <2>4. \A p, q \in inbox' : p.s = q.s /\ p.n = q.n => p = q
        BY <1>1, <2>3 DEF Requests
    <2>5. \A q \in inbox' :
            /\ q.n <= sends'[q.s] /\ q.tx \notin chain
            /\ \/ Expired(q.tx)
               \/ /\ q.tx \notin pool
                  /\ q.tx = cur[q.s] /\ Live(q.s)' /\ q.n = sends'[q.s]
            /\ pc'[q.s] = "sending" /\ q.n = sends'[q.s] => q.tx = cur[q.s]
        BY <1>1, <2>1, <2>2
    <2> QED BY <1>1, <1>5, <2>4, <2>5 DEF Requests
<1>10. Replies'
    <2>1. \A q \in replies : q.s # s
        BY <1>1 DEF Replies
    <2> QED BY <1>1, <1>5, <2>1 DEF Replies, TypeOK, Owned, OneOwner
<1>11. PendingWasTaken'
    BY <1>1, <1>5 DEF PendingWasTaken
<1> QED BY <1>6, <1>7, <1>9, <1>10, <1>11 DEF Rest

\* The call ends with an error; without an id the transaction must be gone.
LEMMA FailStep ==
    ASSUME IInv, TypeOK', NEW s \in Senders, NEW e, pc[s] = "sending",
           BroadcastFails(s, e),
           \/ BroadcastError(cur[s], e).kind = "Broadcast"
           \/ /\ Gone(cur[s])
              /\ \A r \in inbox : r.s = s => r.n # sends[s]
    PROVE  Rest'
<1> USE DEF IInv
<1>1. /\ UNCHANGED <<clock, tapos, cur, sends, mine, inbox, pool, chain>>
      /\ \A u \in Senders : u # s => pc'[u] = pc[u] /\ err'[u] = err[u]
      /\ pc'[s] = "error" /\ err'[s] = BroadcastError(cur[s], e)
      /\ replies' = {q \in replies : q.s # s}
    BY DEF BroadcastFails, Fail, Forget, Goto, TypeOK, ErrorsTotal
<1>2. \A u \in Senders : u # s => Live(u)' = Live(u)
    BY <1>1 DEF Live, Open
<1>3. \A t : Gone(t)' = Gone(t) /\ Expired(t)' = Expired(t)
    BY <1>1 DEF Gone, Expired
<1>4. Live(s) /\ (Live(s)' \/ Gone(cur[s]))
      /\ (Live(s)' \/ \A r \in inbox : r.s = s => r.n # sends[s])
    BY <1>1 DEF Live, Open
<1>5. Owned' /\ Signed'
    BY <1>1, <1>2, <1>4 DEF Owned, Signed
<1>6. OneLive'
    BY <1>1, <1>2, <1>3, <1>4 DEF OneLive
<1>7. Requests'
    BY <1>1, <1>2, <1>3, <1>4 DEF Requests, TypeOK
<1>8. Replies' /\ PendingWasTaken'
    BY <1>1, <1>3 DEF Replies, PendingWasTaken, TypeOK
<1> QED BY <1>5, <1>6, <1>7, <1>8 DEF Rest

LEMMA AnswerStep ==
    ASSUME IInv, TypeOK', NEW s \in Senders, Answered(s)
    PROVE  Rest'
<1> USE DEF IInv
<1>1. PICK q \in replies :
        /\ pc[s] = "sending" /\ q.s = s /\ q.n = sends[s]
        /\ IF BroadcastOutcome(q.answer) = Accepted
           THEN /\ Goto(s, "pending")
                /\ Forget(s)
                /\ UNCHANGED <<clock, tapos, cur, err, sends, mine, inbox, pool, chain>>
           ELSE BroadcastFails(s, BroadcastOutcome(q.answer))
    BY DEF Answered
<1>2. q.answer \in Answers
    BY DEF TypeOK
<1>3. CASE BroadcastOutcome(q.answer) # Accepted
    <2>1. ~q.answer.result
        BY <1>2, <1>3, OutcomeOfAnswer DEF Replies
    <2>2. Gone(cur[s]) /\ \A r \in inbox : r.s = s => r.n # sends[s]
        BY <1>1, <2>1 DEF Replies
    <2>3. PICK e : e = BroadcastOutcome(q.answer)
        OBVIOUS
    <2>4. BroadcastFails(s, e)
        BY <1>1, <1>3, <2>3
    <2> QED BY <1>1, <2>2, <2>4, FailStep
<1>4. CASE BroadcastOutcome(q.answer) = Accepted
    <2>1. q.answer.result
        BY <1>2, <1>4, OutcomeOfAnswer
    <2>2. cur[s] \in pool \cup chain \/ Expired(cur[s])
        BY <1>1, <2>1 DEF Replies
    <2>3. /\ UNCHANGED <<clock, tapos, cur, err, sends, mine, inbox, pool, chain>>
          /\ \A u \in Senders : u # s => pc'[u] = pc[u]
          /\ pc'[s] = "pending"
          /\ replies' = {p \in replies : p.s # s}
        BY <1>1, <1>4 DEF Forget, Goto, TypeOK
    <2>4. \A u \in Senders : Live(u)' = Live(u)
        BY <1>1, <2>3 DEF Live, Open
    <2>5. \A t : Gone(t)' = Gone(t) /\ Expired(t)' = Expired(t)
        BY <2>3 DEF Gone, Expired
    <2>6. Owned' /\ Signed' /\ OneLive'
        BY <1>1, <2>3, <2>4, <2>5 DEF Owned, Signed, OneLive, Live
    <2>7. Requests'
        BY <2>3, <2>4, <2>5 DEF Requests, TypeOK
    <2>8. Replies' /\ PendingWasTaken'
        BY <2>2, <2>3, <2>5 DEF Replies, PendingWasTaken, TypeOK
    <2> QED BY <2>6, <2>7, <2>8 DEF Rest
<1> QED BY <1>3, <1>4

LEMMA LossStep ==
    ASSUME IInv, TypeOK', NEW s \in Senders, Unanswered(s)
    PROVE  Rest'
<1>1. PICK f \in LostAs :
        pc[s] = "sending" /\ BroadcastFails(s, MapStatus(f.code, f.http))
    BY DEF Unanswered
<1>2. PICK e : e = MapStatus(f.code, f.http)
    OBVIOUS
<1>3. PICK tx : tx = cur[s]
    OBVIOUS
<1>4. BroadcastError(tx, e).kind = "Broadcast"
    BY <1>2, LostIsOpen
<1> QED BY <1>1, <1>2, <1>3, <1>4, FailStep

\* A request leaves the network without having been taken.
LEMMA DroppedStep ==
    ASSUME OneOwner, IInv, TypeOK', NEW r \in inbox, inbox' = inbox \ {r},
           UNCHANGED <<clock, tapos, callVars, pool, chain>>,
           \/ UNCHANGED replies
           \/ \E a \in Answers : ~a.result /\ Reply(r, a)
    PROVE  Rest'
<1> USE DEF IInv, callVars
<1>1. \A u \in Senders : Live(u)' = Live(u)
    BY DEF Live, Open
<1>2. \A t : (Gone(t) => Gone(t)') /\ Expired(t)' = Expired(t)
    BY DEF Gone, Expired
<1>3. Owned' /\ Signed' /\ OneLive'
    BY <1>1, <1>2 DEF Owned, Signed, OneLive
<1>4. Requests'
    BY <1>1, <1>2 DEF Requests, TypeOK
<1>5. PendingWasTaken'
    BY <1>2 DEF PendingWasTaken
<1>6. ASSUME NEW q \in replies'
      PROVE  /\ pc[q.s] = "sending" /\ q.n = sends[q.s]
             /\ \A p \in inbox' : p.s = q.s => p.n # q.n
             /\ IF q.answer.result
                THEN /\ q.answer.code = "Ok"
                     /\ cur[q.s] \in pool \cup chain \/ Expired(cur[q.s])
                ELSE Gone(cur[q.s])'
    <2>1. CASE q \in replies
        BY <2>1, <1>2 DEF Replies, TypeOK
    <2>2. CASE q \notin replies
        <3>1. /\ q.s = r.s /\ q.n = r.n /\ ~q.answer.result
              /\ pc[q.s] = "sending" /\ q.n = sends[q.s]
            BY <1>6, <2>2 DEF Reply
        <3>2. \A p \in inbox' : p.s = q.s => p.n # q.n
            BY <3>1 DEF Requests
        <3>3. r.s \in Senders /\ cur[r.s] \in mine[r.s]
            BY <3>1 DEF Signed, Live, TypeOK
        <3>4. Gone(cur[r.s])'
            <4>1. r.tx = cur[r.s] /\ r.tx \notin chain
                  /\ (Expired(r.tx) \/ r.tx \notin pool)
                BY <3>1 DEF Requests
            <4>2. ASSUME NEW p \in inbox', p.tx = cur[r.s] PROVE Expired(cur[r.s])
                <5>1. p.s = r.s
                    BY <3>3, <4>2 DEF Signed, Owned, OneOwner, TypeOK
                <5>2. p.n # sends[r.s]
                    BY <3>1, <3>2, <5>1
                <5> QED BY <4>2, <5>1, <5>2 DEF Requests
            <4> QED BY <4>1, <4>2, <1>2 DEF Gone
        <3> QED BY <3>1, <3>2, <3>4
    <2> QED BY <2>1, <2>2
<1>7. Replies'
    BY <1>2, <1>6 DEF Replies
<1> QED BY <1>3, <1>4, <1>5, <1>7 DEF Rest

LEMMA TakeStep ==
    ASSUME OneOwner, IInv, TypeOK', NodeTakes
    PROVE  Rest'
<1> USE DEF IInv, callVars
<1>1. PICK r \in inbox :
        /\ ~Expired(r.tx) /\ r.tx \notin pool \cup chain
        /\ inbox' = inbox \ {r} /\ pool' = pool \cup {r.tx}
        /\ Reply(r, Return(TRUE))
        /\ UNCHANGED <<clock, tapos, callVars, chain>>
    BY DEF NodeTakes
<1>2. \A u \in Senders : Live(u)' = Live(u)
    BY <1>1 DEF Live, Open
<1>3. \A t : /\ Expired(t)' = Expired(t)
             /\ t # r.tx /\ Gone(t) => Gone(t)'
    BY <1>1 DEF Gone, Expired
<1>4. /\ r.s \in Senders /\ r.tx = cur[r.s] /\ Live(r.s) /\ r.n = sends[r.s]
      /\ r.tx \in mine[r.s]
    BY <1>1 DEF Requests, Signed, TypeOK
<1>5. \A u \in Senders : r.tx \in mine[u] => u = r.s
    BY <1>4 DEF Owned, OneOwner
<1>6. Owned' /\ Signed'
    BY <1>1, <1>2, <1>4 DEF Owned, Signed
<1>7. OneLive'
    BY <1>1, <1>2, <1>3, <1>4, <1>5 DEF OneLive
<1>8. \A p \in inbox' : p.tx # r.tx
    <2> SUFFICES ASSUME NEW p \in inbox', p.tx = r.tx PROVE FALSE
        OBVIOUS
    <2>1. p.s = r.s
        BY <1>1, <1>5 DEF Signed, TypeOK
    <2>2. p.n = r.n
        BY <1>1, <1>4, <2>1 DEF Requests
    <2> QED BY <1>1, <2>1, <2>2 DEF Requests
<1>9. Requests'
    BY <1>1, <1>2, <1>3, <1>8 DEF Requests, TypeOK
<1>10. PendingWasTaken'
    BY <1>1, <1>3 DEF PendingWasTaken
<1>11. ASSUME NEW q \in replies'
       PROVE  /\ pc[q.s] = "sending" /\ q.n = sends[q.s]
              /\ \A p \in inbox' : p.s = q.s => p.n # q.n
              /\ IF q.answer.result
                 THEN /\ q.answer.code = "Ok"
                      /\ cur[q.s] \in pool' \cup chain \/ Expired(cur[q.s])
                 ELSE Gone(cur[q.s])'
    <2>1. CASE q \in replies
        <3>1. q.s \in Senders /\ pc[q.s] = "sending"
            BY <2>1 DEF Replies, TypeOK
        <3>2. q.s # r.s
            BY <1>4, <2>1 DEF Replies
        <3>3. cur[q.s] # r.tx
            BY <1>5, <3>1, <3>2 DEF Signed, Live
        <3> QED BY <1>1, <1>3, <2>1, <3>3 DEF Replies
    <2>2. CASE q \notin replies
        <3>1. /\ q.s = r.s /\ q.n = r.n /\ q.answer = Return(TRUE)
              /\ pc[q.s] = "sending" /\ q.n = sends[q.s]
            <4>1. PICK a : a = Return(TRUE)
                OBVIOUS
            <4>2. Reply(r, a)
                BY <1>1, <4>1
            <4>3. q \in {[s |-> r.s, n |-> r.n, answer |-> a]}
                  /\ pc[q.s] = "sending" /\ q.n = sends[q.s]
                BY <1>11, <2>2, <4>2 DEF Reply
            <4>4. q.s = r.s /\ q.n = r.n /\ q.answer = a
                BY <4>3
            <4> QED BY <4>1, <4>3, <4>4, Zenon
        <3>2. \A p \in inbox' : p.s = q.s => p.n # q.n
            BY <1>1, <3>1 DEF Requests
        <3> QED BY <1>1, <1>4, <3>1, <3>2 DEF Return
    <2> QED BY <2>1, <2>2
<1>12. Replies'
    BY <1>1, <1>3, <1>11 DEF Replies
<1> QED BY <1>6, <1>7, <1>9, <1>10, <1>12 DEF Rest

LEMMA IncludeStep ==
    ASSUME OneOwner, IInv, TypeOK', Include
    PROVE  Rest'
<1> USE DEF IInv, callVars
<1>1. PICK t \in pool :
        /\ ~Expired(t)
        /\ pool' = pool \ {t} /\ chain' = chain \cup {t}
        /\ UNCHANGED <<clock, tapos, callVars, inbox, replies>>
    BY DEF Include
<1>2. \A u \in Senders : Live(u)' = Live(u)
    BY <1>1 DEF Live, Open
<1>3. ~Gone(t) /\ \A x : Expired(x)' = Expired(x) /\ (Gone(x) => Gone(x)')
    BY <1>1 DEF Gone, Expired
<1>4. \A r \in inbox : r.tx # t
    BY <1>1 DEF Requests
<1>5. Owned' /\ Signed' /\ OneLive'
    BY <1>1, <1>2, <1>3 DEF Owned, Signed, OneLive
<1>6. Requests'
    BY <1>1, <1>2, <1>3, <1>4 DEF Requests, TypeOK
<1>7. Replies' /\ PendingWasTaken'
    BY <1>1, <1>3 DEF Replies, PendingWasTaken
<1> QED BY <1>5, <1>6, <1>7 DEF Rest

LEMMA TickStep ==
    ASSUME IInv, TypeOK', Tick
    PROVE  Rest'
<1> USE DEF IInv, callVars
<1>1. /\ clock' = clock + 1 /\ pool' = {t \in pool : clock + 1 < Expiration(t)}
      /\ UNCHANGED <<tapos, callVars, inbox, replies, chain>>
    BY DEF Tick
<1>2. \A u \in Senders : Live(u)' = Live(u)
    BY <1>1 DEF Live, Open
<1>3. \A t \in Tx : /\ Expired(t) => Expired(t)'
                    /\ Gone(t) => Gone(t)'
                    /\ t \in pool => t \in pool' \/ Expired(t)'
    BY <1>1, TimeAssumption DEF Gone, Expired, Expiration, Tx, TypeOK
<1>4. Owned' /\ Signed'
    BY <1>1, <1>2 DEF Owned, Signed
<1>5. OneLive'
    BY <1>1, <1>2, <1>3 DEF OneLive, TypeOK
<1>6. Requests'
    BY <1>1, <1>2, <1>3 DEF Requests, TypeOK
<1>7. Replies' /\ PendingWasTaken'
    BY <1>1, <1>3 DEF Replies, PendingWasTaken, TypeOK
<1> QED BY <1>4, <1>5, <1>6, <1>7 DEF Rest

LEMMA IInvStep ==
    ASSUME OneOwner, ~MayRebroadcast, IInv, [Next]_vars
    PROVE  IInv'
<1>1. TypeOK' /\ ErrorsTotal'
    BY TypeStep DEF IInv
<1> SUFFICES Rest'
    BY <1>1 DEF IInv, Rest
<1>2. ASSUME NEW s \in Senders, SenderStep(s) PROVE Rest'
    BY <1>1, <1>2, QuietStep, RecoveryStep, FillStep, SignStep, BroadcastStep,
       AnswerStep, LossStep DEF SenderStep, Rebroadcast
<1>3. CASE LoseRequest
    <2>1. PICK r \in inbox :
            /\ inbox' = inbox \ {r}
            /\ UNCHANGED <<clock, tapos, callVars, replies, pool, chain>>
        BY <1>3 DEF LoseRequest
    <2>2. UNCHANGED replies /\ UNCHANGED <<clock, tapos, callVars, pool, chain>>
        BY <2>1
    <2> QED BY <1>1, <2>1, <2>2, DroppedStep
<1>4. CASE ProxyRefuses
    <2>1. PICK r \in inbox, f \in RefusedAs :
            /\ inbox' = inbox \ {r}
            /\ Reply(r, Status(f))
            /\ UNCHANGED <<clock, tapos, callVars, pool, chain>>
        BY <1>4 DEF ProxyRefuses
    <2>2. Status(f) \in Answers /\ ~Status(f).result
        BY StatusAssumption DEF Status, Statuses, Answers
    <2>3. \E a \in Answers : ~a.result /\ Reply(r, a)
        BY <2>1, <2>2
    <2> QED BY <1>1, <2>1, <2>3, DroppedStep
<1>5. CASE NodeRefuses
    <2>1. PICK r \in inbox :
            /\ inbox' = inbox \ {r}
            /\ Reply(r, Return(FALSE))
            /\ UNCHANGED <<clock, tapos, callVars, pool, chain>>
        BY <1>5 DEF NodeRefuses
    <2>2. Return(FALSE) \in Answers /\ ~Return(FALSE).result
        BY DEF Return, Answers
    <2>3. \E a \in Answers : ~a.result /\ Reply(r, a)
        BY <2>1, <2>2
    <2> QED BY <1>1, <2>1, <2>3, DroppedStep
<1>6. CASE UNCHANGED vars
    <2>1. \A u : Live(u)' = Live(u) /\ Gone(u)' = Gone(u) /\ Expired(u)' = Expired(u)
        BY <1>6 DEF vars, Live, Open, Gone, Expired
    <2>2. Owned' /\ Signed' /\ OneLive'
        BY <1>6, <2>1 DEF vars, IInv, Owned, Signed, OneLive
    <2>3. Requests'
        BY <1>6, <2>1 DEF vars, IInv, Requests
    <2>4. Replies' /\ PendingWasTaken'
        BY <1>6, <2>1 DEF vars, IInv, Replies, PendingWasTaken
    <2> QED BY <2>2, <2>3, <2>4 DEF Rest
<1>7. CASE NodeTakes
    BY <1>1, <1>7, TakeStep
<1>8. CASE Include
    BY <1>1, <1>8, IncludeStep
<1>9. CASE Tick
    BY <1>1, <1>9, TickStep
<1> QED BY <1>2, <1>3, <1>4, <1>5, <1>6, <1>7, <1>8, <1>9 DEF Next

-------------------------------------------------------------------------------
(* The results.                                                            *)

(***************************************************************************)
(* The types hold whatever the callers do.                                 *)
(***************************************************************************)
THEOREM TypeCorrect == Spec => []TypeOK
<1>1. Init => TypeOK /\ ErrorsTotal
    BY InitIInv DEF IInv
<1>2. TypeOK /\ ErrorsTotal /\ [Next]_vars => (TypeOK /\ ErrorsTotal)'
    BY TypeStep
<1> QED BY <1>1, <1>2, PTL DEF Spec

(***************************************************************************)
(* The inductive invariant of the send path, for senders whose payloads    *)
(* differ and who do not re-broadcast (send_transaction, RpcError).        *)
(***************************************************************************)
THEOREM IInvHolds ==
    ASSUME OneOwner, ~MayRebroadcast
    PROVE  Spec => []IInv
<1>1. IInv /\ [Next]_vars => IInv'
    BY IInvStep
<1> QED BY <1>1, InitIInv, PTL DEF Spec

(***************************************************************************)
(* With one owner and one copy of every transaction, nobody who follows    *)
(* the documented recovery of a lost broadcast is paid for twice.          *)
(***************************************************************************)
THEOREM NeverPaidTwiceHolds ==
    ASSUME OneOwner, ~MayRebroadcast
    PROVE  Spec => []NeverPaidTwice
<1>1. IInv => NeverPaidTwice
    BY DEF IInv, OneLive, NeverPaidTwice, Gone
<1> QED BY <1>1, IInvHolds, PTL

(***************************************************************************)
(* Under the same conditions an error without an id (RpcError::tx_id is    *)
(* None) means the transaction was not taken and never will be.            *)
(***************************************************************************)
THEOREM NoIdNotTakenHolds ==
    ASSUME OneOwner, ~MayRebroadcast
    PROVE  Spec => []NoIdNotTaken
<1>1. IInv => NoIdNotTaken
    BY UnsignedIsGone DEF NoIdNotTaken, Live, Open
<1> QED BY <1>1, IInvHolds, PTL

-------------------------------------------------------------------------------
(* A pending transaction was taken: this needs neither condition, only     *)
(* that an answer is matched with the very broadcast it is about.          *)

\* The node has the transaction, or had it until it expired.
Held(t) == t \in pool \cup chain \/ Expired(t)

\* The broadcast under way carries the sender's current transaction.
Asked ==
    \A r \in inbox :
        /\ r.n <= sends[r.s]
        /\ pc[r.s] = "sending" /\ r.n = sends[r.s] => r.tx = cur[r.s]

\* An answer belongs to it, and a positive one says that the node has it.
Confirmed ==
    \A q \in replies :
        /\ pc[q.s] = "sending" /\ q.n = sends[q.s]
        /\ q.answer.result => Held(cur[q.s])

AnswersMatch == TypeOK /\ ErrorsTotal /\ Asked /\ Confirmed /\ PendingWasTaken

LEMMA HeldStays ==
    ASSUME TypeOK, [Next]_vars, NEW t \in Tx, Held(t)
    PROVE  Held(t)'
<1> USE DEF Held, Expired, TypeOK
<1>1. Expiration(t) \in Nat
    BY TimeAssumption DEF Expiration, Tx
<1>2. CASE Tick
    BY <1>1, <1>2 DEF Tick, Expiration
<1>3. CASE Include
    BY <1>3 DEF Include
<1>4. CASE NodeTakes
    BY <1>4 DEF NodeTakes
<1>5. CASE UNCHANGED <<clock, pool, chain>>
    BY <1>5
<1>6. ASSUME NEW u \in Senders, SenderStep(u) PROVE UNCHANGED <<clock, pool, chain>>
    BY <1>6 DEF SenderStep, Fill, FillFails, BuildTransaction, BuildFails, Sign, SignFails,
                Broadcast, SendOnce, Answered, Unanswered, BroadcastFails, Retry, LookUp,
                Replace, Rebroadcast, nodeVars
<1>7. ASSUME LoseRequest \/ ProxyRefuses \/ NodeRefuses \/ UNCHANGED vars
      PROVE  UNCHANGED <<clock, pool, chain>>
    BY <1>7 DEF LoseRequest, ProxyRefuses, NodeRefuses, vars
<1> QED BY <1>2, <1>3, <1>4, <1>5, <1>6, <1>7 DEF Next

\* One sender's call moves on; no answer is under way for it afterwards.
LEMMA CallMoves ==
    ASSUME AnswersMatch, [Next]_vars, NEW s \in Senders,
           \A u \in Senders \ {s} :
               pc'[u] = pc[u] /\ cur'[u] = cur[u] /\ sends'[u] = sends[u],
           pc'[s] = "pending" => Held(cur[s]) /\ cur'[s] = cur[s],
           replies' \subseteq {q \in replies : q.s # s},
           \A r \in inbox' :
               \/ r \in inbox /\ (r.s = s => pc'[s] # "sending" /\ sends'[s] = sends[s])
               \/ r \in inbox /\ r.s = s /\ sends'[s] = sends[s] + 1
               \/ r.s = s /\ r.n = sends'[s] /\ r.tx = cur'[s] /\ sends'[s] = sends[s] + 1
    PROVE  Asked' /\ Confirmed' /\ PendingWasTaken'
<1> USE DEF AnswersMatch, TypeOK
<1>1. \A u \in Senders : Held(cur[u]) => Held(cur[u])' \/ cur'[u] # cur[u]
    <2> SUFFICES ASSUME NEW u \in Senders, Held(cur[u]), cur'[u] = cur[u] PROVE Held(cur[u])'
        OBVIOUS
    <2>1. \A t \in Tx : Held(t) => Held(t)'
        BY HeldStays
    <2> QED BY <2>1 DEF Held, Expired, Expiration
<1>2. Asked'
    <2> SUFFICES ASSUME NEW r \in inbox'
                 PROVE  /\ r.n <= sends'[r.s]
                        /\ pc'[r.s] = "sending" /\ r.n = sends'[r.s] => r.tx = cur'[r.s]
        BY DEF Asked
    <2>1. CASE r \in inbox /\ r.s # s
        <3>1. r.s \in Senders \ {s}
            BY <2>1
        <3> QED BY <2>1, <3>1 DEF Asked
    <2>2. CASE r \in inbox /\ r.s = s
        <3>1. r.n \in Nat /\ sends[s] \in Nat /\ r.n <= sends[s]
            BY <2>2 DEF Asked
        <3> QED BY <2>2, <3>1
    <2>3. CASE r \notin inbox
        <3>1. sends'[s] \in Nat
            BY <2>3
        <3> QED BY <2>3, <3>1
    <2> QED BY <2>1, <2>2, <2>3
<1>3. Confirmed'
    <2> SUFFICES ASSUME NEW q \in replies, q.s # s
                 PROVE  /\ pc'[q.s] = "sending" /\ q.n = sends'[q.s]
                        /\ q.answer.result => Held(cur[q.s])'
        BY DEF Confirmed, Held, Expired, Expiration
    <2>1. q.s \in Senders \ {s}
        OBVIOUS
    <2> QED BY <2>1, <1>1 DEF Confirmed
<1>4. PendingWasTaken'
    <2>1. ASSUME NEW u \in Senders, pc'[u] = "pending" PROVE Held(cur[u])'
        <3>1. CASE u = s
            BY <2>1, <3>1, <1>1
        <3>2. CASE u # s
            BY <2>1, <3>2, <1>1 DEF PendingWasTaken, Held
        <3> QED BY <3>1, <3>2
    <2> QED BY <2>1 DEF PendingWasTaken, Held
<1> QED BY <1>2, <1>3, <1>4

\* The node or the network handles one request; no call moves.
LEMMA RequestHandled ==
    ASSUME AnswersMatch, [Next]_vars, NEW r \in inbox, NEW a \in Answers,
           inbox' = inbox \ {r}, Reply(r, a), UNCHANGED callVars,
           a.result => Held(r.tx)'
    PROVE  Asked' /\ Confirmed' /\ PendingWasTaken'
<1> USE DEF AnswersMatch, TypeOK, callVars
<1>1. \A u \in Senders : Held(cur[u]) => Held(cur[u])'
    BY HeldStays DEF Held, Expired, Expiration
<1>2. Asked'
    BY DEF Asked
<1>3. Confirmed'
    <2> SUFFICES ASSUME NEW q \in replies'
                 PROVE  /\ pc[q.s] = "sending" /\ q.n = sends[q.s]
                        /\ q.answer.result => Held(cur[q.s])'
        BY DEF Confirmed, Held, Expired, Expiration
    <2>1. CASE q \in replies
        BY <2>1, <1>1 DEF Confirmed
    <2>2. CASE q \notin replies
        <3>1. q = [s |-> r.s, n |-> r.n, answer |-> a] /\ pc[q.s] = "sending" /\ q.n = sends[q.s]
            BY <2>2 DEF Reply
        <3>2. r.tx = cur[r.s]
            BY <3>1 DEF Asked
        <3> QED BY <3>1, <3>2 DEF Held, Expired, Expiration
    <2> QED BY <2>1, <2>2
<1>4. PendingWasTaken'
    BY <1>1 DEF PendingWasTaken, Held
<1> QED BY <1>2, <1>3, <1>4

LEMMA AnswersMatchStep ==
    ASSUME AnswersMatch, [Next]_vars
    PROVE  AnswersMatch'
<1>1. TypeOK' /\ ErrorsTotal'
    BY TypeStep DEF AnswersMatch
<1> SUFFICES Asked' /\ Confirmed' /\ PendingWasTaken'
    BY <1>1 DEF AnswersMatch
<1>2. TypeOK
    BY DEF AnswersMatch
<1>3. ASSUME NEW s \in Senders,
             \/ Fill(s) \/ FillFails(s) \/ BuildTransaction(s) \/ BuildFails(s)
             \/ Sign(s) \/ SignFails(s) \/ Retry(s) \/ LookUp(s) \/ Replace(s)
      PROVE  Asked' /\ Confirmed' /\ PendingWasTaken'
    <2>1. /\ pc[s] # "sending"
          /\ pc'[s] \in {"filled", "error", "built", "signed", "idle", "settled"}
          /\ \A u \in Senders \ {s} : pc'[u] = pc[u] /\ cur'[u] = cur[u]
          /\ UNCHANGED <<sends, inbox, replies>>
        BY <1>2, <1>3 DEF Fill, FillFails, BuildTransaction, BuildFails, Sign, SignFails, Retry,
                LookUp, Replace, Goto, Fail, Open, nodeVars, TypeOK
    <2>2. \A q \in replies : q.s # s
        BY <2>1 DEF AnswersMatch, Confirmed
    <2>3. \A u \in Senders \ {s} :
              pc'[u] = pc[u] /\ cur'[u] = cur[u] /\ sends'[u] = sends[u]
        BY <2>1
    <2>4. pc'[s] # "pending" /\ pc'[s] # "sending" /\ sends'[s] = sends[s]
        BY <2>1
    <2>5. replies' \subseteq {q \in replies : q.s # s}
        BY <2>1, <2>2
    <2>6. \A r \in inbox' : r \in inbox /\ (r.s = s => pc'[s] # "sending" /\ sends'[s] = sends[s])
        BY <2>1, <2>4
    <2> QED BY <2>3, <2>4, <2>5, <2>6, CallMoves
<1>4. ASSUME NEW s \in Senders, Broadcast(s) \/ Rebroadcast(s)
      PROVE  Asked' /\ Confirmed' /\ PendingWasTaken'
    <2>1. pc[s] # "sending" /\ SendOnce(s)
        BY <1>4 DEF Broadcast, Rebroadcast
    <2>2. /\ pc'[s] = "sending" /\ sends'[s] = sends[s] + 1 /\ cur' = cur
          /\ \A u \in Senders \ {s} : pc'[u] = pc[u] /\ sends'[u] = sends[u]
          /\ inbox' = inbox \cup {[s |-> s, n |-> sends[s] + 1, tx |-> cur[s]]}
          /\ replies' = replies
        BY <2>1, <1>2 DEF SendOnce, Goto, TypeOK
    <2>3. \A q \in replies : q.s # s
        BY <2>1 DEF AnswersMatch, Confirmed
    <2>4. \A u \in Senders \ {s} :
              pc'[u] = pc[u] /\ cur'[u] = cur[u] /\ sends'[u] = sends[u]
        BY <2>2
    <2>5. pc'[s] # "pending" /\ replies' \subseteq {q \in replies : q.s # s}
        BY <2>2, <2>3
    <2>6. \A r \in inbox' :
              \/ r \in inbox /\ (r.s = s => pc'[s] # "sending" /\ sends'[s] = sends[s])
              \/ r \in inbox /\ r.s = s /\ sends'[s] = sends[s] + 1
              \/ r.s = s /\ r.n = sends'[s] /\ r.tx = cur'[s] /\ sends'[s] = sends[s] + 1
        BY <2>2
    <2> QED BY <2>4, <2>5, <2>6, CallMoves
<1>5. ASSUME NEW s \in Senders, NEW label \in {"pending", "error"}, Goto(s, label), Forget(s),
             UNCHANGED <<cur, sends, inbox>>, label = "pending" => Held(cur[s])
      PROVE  Asked' /\ Confirmed' /\ PendingWasTaken'
    <2>1. /\ pc'[s] = label
          /\ \A u \in Senders \ {s} : pc'[u] = pc[u] /\ cur'[u] = cur[u] /\ sends'[u] = sends[u]
        BY <1>2, <1>5 DEF Goto, TypeOK
    <2>2. pc'[s] = "pending" => Held(cur[s]) /\ cur'[s] = cur[s]
        BY <1>5, <2>1
    <2>3. replies' \subseteq {q \in replies : q.s # s}
        BY <1>5 DEF Forget
    <2>4. \A r \in inbox' : r \in inbox /\ (r.s = s => pc'[s] # "sending" /\ sends'[s] = sends[s])
        BY <1>5, <2>1
    <2> QED BY <2>1, <2>2, <2>3, <2>4, CallMoves
<1>6. ASSUME NEW s \in Senders, NEW e, BroadcastFails(s, e)
      PROVE  Asked' /\ Confirmed' /\ PendingWasTaken'
    <2>1. Goto(s, "error") /\ Forget(s) /\ UNCHANGED <<cur, sends, inbox>>
        BY <1>6 DEF BroadcastFails, Fail
    <2> QED BY <2>1, <1>5
<1>7. ASSUME NEW s \in Senders, Answered(s)
      PROVE  Asked' /\ Confirmed' /\ PendingWasTaken'
    <2>1. PICK q \in replies :
            /\ q.s = s /\ q.n = sends[s]
            /\ IF BroadcastOutcome(q.answer) = Accepted
               THEN /\ Goto(s, "pending") /\ Forget(s)
                    /\ UNCHANGED <<clock, tapos, cur, err, sends, mine, inbox, pool, chain>>
               ELSE BroadcastFails(s, BroadcastOutcome(q.answer))
        BY <1>7 DEF Answered
    <2>2. CASE BroadcastOutcome(q.answer) = Accepted
        <3>1. q.answer \in Answers
            BY <1>2 DEF TypeOK
        <3>2. q.answer.result
            BY <2>2, <3>1, OutcomeOfAnswer
        <3>3. Held(cur[s])
            BY <2>1, <3>2 DEF AnswersMatch, Confirmed
        <3>4. Goto(s, "pending") /\ Forget(s) /\ UNCHANGED <<cur, sends, inbox>>
            BY <2>1, <2>2
        <3> QED BY <3>3, <3>4, <1>5
    <2>3. CASE BroadcastOutcome(q.answer) # Accepted
        BY <2>1, <2>3, <1>6
    <2> QED BY <2>2, <2>3
<1>8. ASSUME NEW s \in Senders, Unanswered(s)
      PROVE  Asked' /\ Confirmed' /\ PendingWasTaken'
    BY <1>6, <1>8 DEF Unanswered
<1>9. ASSUME UNCHANGED <<callVars, replies>>, inbox' \subseteq inbox
      PROVE  Asked' /\ Confirmed' /\ PendingWasTaken'
    <2>1. \A u \in Senders : Held(cur[u]) => Held(cur[u])'
        BY <1>2, <1>9, HeldStays DEF TypeOK, callVars, Held, Expired, Expiration
    <2>2. Asked'
        BY <1>9 DEF AnswersMatch, Asked, callVars
    <2>3. Confirmed'
        BY <1>2, <1>9, <2>1 DEF AnswersMatch, Confirmed, callVars, TypeOK
    <2>4. PendingWasTaken'
        BY <1>9, <2>1 DEF AnswersMatch, PendingWasTaken, callVars, Held
    <2> QED BY <2>2, <2>3, <2>4
<1>10. CASE LoseRequest \/ Include \/ Tick \/ UNCHANGED vars
    BY <1>9, <1>10 DEF LoseRequest, Include, Tick, vars, callVars
<1>11. CASE ProxyRefuses
    <2>1. PICK r \in inbox, f \in RefusedAs :
            inbox' = inbox \ {r} /\ Reply(r, Status(f)) /\ UNCHANGED callVars
        BY <1>11 DEF ProxyRefuses, callVars
    <2>2. Status(f) \in Answers /\ ~Status(f).result
        BY StatusAssumption DEF Status, Statuses, Answers
    <2> QED BY <2>1, <2>2, RequestHandled
<1>12. CASE NodeRefuses
    <2>1. PICK r \in inbox :
            inbox' = inbox \ {r} /\ Reply(r, Return(FALSE)) /\ UNCHANGED callVars
        BY <1>12 DEF NodeRefuses, callVars
    <2>2. Return(FALSE) \in Answers /\ ~Return(FALSE).result
        BY DEF Return, Answers
    <2> QED BY <2>1, <2>2, RequestHandled
<1>13. CASE NodeTakes
    <2>1. PICK r \in inbox :
            /\ inbox' = inbox \ {r} /\ Reply(r, Return(TRUE)) /\ UNCHANGED callVars
            /\ pool' = pool \cup {r.tx}
        BY <1>13 DEF NodeTakes, callVars
    <2>2. Return(TRUE) \in Answers
        BY DEF Return, Answers
    <2>3. Held(r.tx)'
        BY <2>1 DEF Held
    <2> QED BY <2>1, <2>2, <2>3, RequestHandled
<1> QED BY <1>3, <1>4, <1>7, <1>8, <1>10, <1>11, <1>12, <1>13 DEF Next, SenderStep

(***************************************************************************)
(* A PendingTransaction is only handed out for a transaction the node took *)
(* (check_return, broadcast_transaction): for any senders and payloads,    *)
(* with lost, late and repeated broadcasts.                                *)
(***************************************************************************)
THEOREM PendingWasTakenHolds == Spec => []PendingWasTaken
<1>1. Init => AnswersMatch
    BY InitIInv DEF IInv, AnswersMatch, Init, Asked, Confirmed
<1>2. AnswersMatch /\ [Next]_vars => AnswersMatch'
    BY AnswersMatchStep
<1>3. AnswersMatch => PendingWasTaken
    BY DEF AnswersMatch
<1> QED BY <1>1, <1>2, <1>3, PTL DEF Spec
===============================================================================
