---------------------------- MODULE SendTransaction ----------------------------
(***************************************************************************)
(* From a request to a payment: FilledProvider::send_transaction fills the *)
(* TAPOS reference from a shared cache, has the node build, signs, and     *)
(* broadcasts once; RpcError::broadcast sorts a failure into "refused" (no *)
(* id) and "open" (the id is carried).  What the caller does next is the   *)
(* recovery that RpcError::Broadcast documents.                            *)
(*                                                                         *)
(* A transaction is its payload and its reference block: the bytes hold    *)
(* nothing else that varies, so the record is also its id.  The node, the  *)
(* network between and the caller are outside the code and are modelled    *)
(* from how the code uses them.                                            *)
(***************************************************************************)
EXTENDS Naturals, FiniteSets, TransportErrors

CONSTANTS
    Senders,        \* intents, each wanting one payment
    Payload,        \* sender -> what it asks for
    Expiry,         \* TaposFiller::expiry, in ticks
    BlockTtl,       \* TaposFiller::block_ttl, in ticks
    MaxClock,       \* bound on time
    MaxSends,       \* bound on broadcasts per sender
    LostAs,         \* statuses seen when the outcome is unknown
    RefusedAs,      \* statuses of a proxy that never passed the call on
    MayRebroadcast  \* whether the caller re-sends the signed bytes

Statuses == [code : RpcStatusCode, http : Nat]

ASSUME TimeAssumption ==
    Expiry \in Nat /\ BlockTtl \in Nat /\ MaxClock \in Nat /\ MaxSends \in Nat
ASSUME StatusAssumption == LostAs \subseteq Statuses /\ RefusedAs \subseteq Statuses
\* "Never reached the point of being applied": these four come from a refusal.
ASSUME LossAssumption ==
    \A f \in LostAs :
        /\ f.code \notin {"InvalidArgument", "PermissionDenied",
                          "Unauthenticated", "Unimplemented"}
        /\ f.http \notin {401, 403}
ASSUME RebroadcastAssumption == MayRebroadcast \in BOOLEAN

VARIABLES
    clock,   \* block time
    tapos,   \* the filler's cached block: its time and when it was fetched
    pc,      \* where each sender's call is
    cur,     \* the transaction it is about
    err,     \* the error it last got
    sends,   \* broadcasts made so far; numbers the current one
    mine,    \* every transaction the sender signed (history)
    inbox,   \* broadcasts on their way to the node
    replies, \* answers on their way back
    pool,    \* transactions the node took and has not included
    chain    \* transactions included in a block

vars == <<clock, tapos, pc, cur, err, sends, mine, inbox, replies, pool, chain>>
callVars == <<pc, cur, err, sends, mine>>
nodeVars == <<inbox, replies, pool, chain>>

Tx == [pay : {Payload[s] : s \in Senders}, ref : Nat]
NoError == [kind |-> "none"]
NoBlock == [ref |-> 0, at |-> 0, cached |-> FALSE]

Expiration(t) == t.ref + Expiry
Expired(t) == clock >= Expiration(t)
\* Not on the chain, and nothing is left that could still bring it there.
Gone(t) ==
    /\ t \notin chain
    /\ Expired(t) \/ (t \notin pool /\ \A r \in inbox : r.tx # t)

Init ==
    /\ clock = 0
    /\ tapos = NoBlock
    /\ pc = [s \in Senders |-> "idle"]
    /\ cur = [s \in Senders |-> [pay |-> Payload[s], ref |-> 0]]
    /\ err = [s \in Senders |-> NoError]
    /\ sends = [s \in Senders |-> 0]
    /\ mine = [s \in Senders |-> {}]
    /\ inbox = {} /\ replies = {} /\ pool = {} /\ chain = {}

Goto(s, label) == pc' = [pc EXCEPT ![s] = label]

\* `?`: the call ends with this error.
Fail(s, e) == Goto(s, "error") /\ err' = [err EXCEPT ![s] = e]

-------------------------------------------------------------------------------
(* Answers on the wire, and what broadcast_transaction makes of them.      *)

Return(b) == [result |-> b, code |-> "Ok", http |-> 0]
Status(f) == [result |-> FALSE, code |-> f.code, http |-> f.http]
Answers == [result : BOOLEAN, code : RpcStatusCode \cup {"Ok"}, http : Nat]
Accepted == Plain("Accepted")

\* Mutated form: the `result` flag of the node's Return is not looked at.
CheckReturnIgnored(a) == Accepted

\* codec::check_return on an answer that arrived.
CheckReturn(a) == IF a.result THEN Accepted ELSE Plain("NodeError")

\* fullnode.rs, broadcast_transaction.
BroadcastOutcome(a) ==
    IF a.code = "Ok" THEN CheckReturn(a) ELSE MapStatus(a.code, a.http)

-------------------------------------------------------------------------------
(* send_transaction.                                                       *)

\* fetched_at.elapsed() < block_ttl
TaposHit == tapos.cached /\ clock - tapos.at < BlockTtl

\* TaposFiller::fill: the cached block, or the latest one, which is cached.
Fill(s) ==
    LET block == IF TaposHit THEN tapos
                 ELSE [ref |-> clock, at |-> clock, cached |-> TRUE] IN
    /\ pc[s] = "idle"
    /\ tapos' = block
    /\ cur' = [cur EXCEPT ![s] = [pay |-> Payload[s], ref |-> block.ref]]
    /\ Goto(s, "filled")
    /\ UNCHANGED <<clock, err, sends, mine, nodeVars>>

\* The owner is missing, or get_now_block failed: the cache is left alone.
FillFails(s) ==
    /\ pc[s] = "idle"
    /\ Fail(s, LocalUsage) \/ Fail(s, FromTransport(Rpc("Unavailable")))
    /\ UNCHANGED <<clock, tapos, cur, sends, mine, nodeVars>>

\* build_transaction: the node's transaction, checked against the request.
BuildTransaction(s) ==
    /\ pc[s] = "filled"
    /\ Goto(s, "built")
    /\ UNCHANGED <<clock, tapos, cur, err, sends, mine, nodeVars>>

BuildFails(s) ==
    /\ pc[s] = "filled"
    /\ \E kind \in {"NodeError", "Malformed"} : Fail(s, FromTransport(Plain(kind)))
    /\ UNCHANGED <<clock, tapos, cur, sends, mine, nodeVars>>

\* sign_with on the id of the bytes that go out.
Sign(s) ==
    /\ pc[s] = "built"
    /\ mine' = [mine EXCEPT ![s] = @ \cup {cur[s]}]
    /\ Goto(s, "signed")
    /\ UNCHANGED <<clock, tapos, cur, err, sends, nodeVars>>

SignFails(s) ==
    /\ pc[s] = "built"
    /\ Fail(s, LocalUsage)
    /\ UNCHANGED <<clock, tapos, cur, sends, mine, nodeVars>>

\* One broadcast of the signed bytes leaves the process.
SendOnce(s) ==
    /\ sends[s] < MaxSends
    /\ sends' = [sends EXCEPT ![s] = @ + 1]
    /\ inbox' = inbox \cup {[s |-> s, n |-> sends[s] + 1, tx |-> cur[s]]}
    /\ Goto(s, "sending")
    /\ UNCHANGED <<clock, tapos, cur, err, mine, replies, pool, chain>>

\* inner.broadcast(signed)
Broadcast(s) == pc[s] = "signed" /\ SendOnce(s)

\* The call is over: its stream is closed and what arrives later is dropped.
Forget(s) == replies' = {q \in replies : q.s # s}

\* Mutated form: a broadcast is repeated like any other call.
BroadcastFailsAndRetries(s, e) ==
    /\ IF IsRetryable(e) /\ sends[s] < MaxSends
       THEN /\ Goto(s, "signed")
            /\ err' = err
       ELSE Fail(s, BroadcastError(cur[s], e))
    /\ Forget(s)
    /\ UNCHANGED <<clock, tapos, cur, sends, mine, inbox, pool, chain>>

\* map_err(|source| Error::broadcast(tx_id, source))
BroadcastFails(s, e) ==
    /\ Fail(s, BroadcastError(cur[s], e))
    /\ Forget(s)
    /\ UNCHANGED <<clock, tapos, cur, sends, mine, inbox, pool, chain>>

\* The answer to this very broadcast arrives.
Answered(s) ==
    \E q \in replies :
        /\ pc[s] = "sending"
        /\ q.s = s /\ q.n = sends[s]
        /\ IF BroadcastOutcome(q.answer) = Accepted
           THEN /\ Goto(s, "pending")
                /\ Forget(s)
                /\ UNCHANGED <<clock, tapos, cur, err, sends, mine, inbox, pool, chain>>
           ELSE BroadcastFails(s, BroadcastOutcome(q.answer))

\* The call times out, or the connection goes: the outcome is unknown.
Unanswered(s) ==
    \E f \in LostAs :
        /\ pc[s] = "sending"
        /\ BroadcastFails(s, MapStatus(f.code, f.http))

-------------------------------------------------------------------------------
(* The caller's documented recovery.                                       *)

Open(s) == pc[s] = "pending" \/ (pc[s] = "error" /\ err[s].kind = "Broadcast")

\* An error without an id: the caller is free to try again from the start.
Retry(s) ==
    /\ pc[s] = "error" /\ ~Open(s)
    /\ Goto(s, "idle")
    /\ UNCHANGED <<clock, tapos, cur, err, sends, mine, nodeVars>>

\* "A node that answers with the transaction settles the question."
LookUp(s) ==
    /\ Open(s)
    /\ cur[s] \in chain
    /\ Goto(s, "settled")
    /\ UNCHANGED <<clock, tapos, cur, err, sends, mine, nodeVars>>

\* Past the expiry, and a node that has every block up to it lacks it.
Replace(s) ==
    /\ Open(s)
    /\ Expired(cur[s]) /\ cur[s] \notin chain
    /\ Goto(s, "idle")
    /\ UNCHANGED <<clock, tapos, cur, err, sends, mine, nodeVars>>

\* "prefer re-broadcasting the same signed bytes"
Rebroadcast(s) ==
    /\ MayRebroadcast
    /\ pc[s] = "error" /\ Open(s)
    /\ ~Expired(cur[s])
    /\ SendOnce(s)

-------------------------------------------------------------------------------
(* The network and the node.                                               *)

\* An answer travels back only while the call it belongs to still waits.
Reply(r, answer) ==
    replies' = replies \cup {q \in {[s |-> r.s, n |-> r.n, answer |-> answer]} :
                                pc[q.s] = "sending" /\ q.n = sends[q.s]}

LoseRequest ==
    \E r \in inbox :
        /\ inbox' = inbox \ {r}
        /\ UNCHANGED <<clock, tapos, callVars, replies, pool, chain>>

\* A proxy in front of the node turns the call away.
ProxyRefuses ==
    \E r \in inbox, f \in RefusedAs :
        /\ inbox' = inbox \ {r}
        /\ Reply(r, Status(f))
        /\ UNCHANGED <<clock, tapos, callVars, pool, chain>>

NodeTakes ==
    \E r \in inbox :
        /\ ~Expired(r.tx) /\ r.tx \notin pool \cup chain
        /\ inbox' = inbox \ {r}
        /\ pool' = pool \cup {r.tx}
        /\ Reply(r, Return(TRUE))
        /\ UNCHANGED <<clock, tapos, callVars, chain>>

\* Any refusal of the node's own; a duplicate and an expired one always are.
NodeRefuses ==
    \E r \in inbox :
        /\ inbox' = inbox \ {r}
        /\ Reply(r, Return(FALSE))
        /\ UNCHANGED <<clock, tapos, callVars, pool, chain>>

Include ==
    \E t \in pool :
        /\ ~Expired(t)
        /\ pool' = pool \ {t}
        /\ chain' = chain \cup {t}
        /\ UNCHANGED <<clock, tapos, callVars, inbox, replies>>

\* Time passes, and the node drops what has expired.
Tick ==
    /\ clock < MaxClock
    /\ clock' = clock + 1
    /\ pool' = {t \in pool : clock + 1 < Expiration(t)}
    /\ UNCHANGED <<tapos, callVars, inbox, replies, chain>>

SenderStep(s) ==
    \/ Fill(s) \/ FillFails(s) \/ BuildTransaction(s) \/ BuildFails(s)
    \/ Sign(s) \/ SignFails(s) \/ Broadcast(s) \/ Answered(s) \/ Unanswered(s)
    \/ Retry(s) \/ LookUp(s) \/ Replace(s) \/ Rebroadcast(s)

Next ==
    \/ \E s \in Senders : SenderStep(s)
    \/ LoseRequest \/ ProxyRefuses \/ NodeTakes \/ NodeRefuses \/ Include \/ Tick

Spec == Init /\ [][Next]_vars

-------------------------------------------------------------------------------
Labels == {"idle", "filled", "built", "signed", "sending", "pending", "error",
           "settled"}
Errors == {"LocalUsageError", "Transport", "NodeError", "Broadcast"}

TypeOK ==
    /\ clock \in Nat
    /\ tapos \in [ref : Nat, at : Nat, cached : BOOLEAN]
    /\ pc \in [Senders -> Labels]
    /\ cur \in [Senders -> Tx]
    /\ \A s \in Senders : pc[s] = "error" => err[s].kind \in Errors
    /\ sends \in [Senders -> Nat]
    /\ mine \in [Senders -> SUBSET Tx]
    /\ inbox \subseteq [s : Senders, n : Nat, tx : Tx]
    /\ replies \subseteq [s : Senders, n : Nat,
                          answer : Answers]
    /\ pool \subseteq Tx
    /\ chain \subseteq Tx

(***************************************************************************)
(* An error that carries no id says the truth: the transaction it is about *)
(* is not on the chain and can no longer get there, neither from the       *)
(* node's pool nor from a request that is still travelling.                *)
(* (RpcError::broadcast: only an open outcome becomes Broadcast.)          *)
(***************************************************************************)
NoIdNotTaken ==
    \A s \in Senders :
        pc[s] = "error" /\ err[s].kind # "Broadcast" => Gone(cur[s])

(***************************************************************************)
(* A PendingTransaction is only handed out for a transaction the node      *)
(* really took; it may have expired there since.                           *)
(***************************************************************************)
PendingWasTaken ==
    \A s \in Senders :
        pc[s] = "pending" => cur[s] \in pool \cup chain \/ Expired(cur[s])

(***************************************************************************)
(* A caller who follows the recovery RpcError::Broadcast documents pays    *)
(* once: of all the transactions a sender signed, over refusals, lost      *)
(* answers, late requests and replacements, at most one is on the chain.   *)
(***************************************************************************)
NeverPaidTwice ==
    \A s \in Senders : \A t, u \in mine[s] \cap chain : t = u

(***************************************************************************)
(* error.rs: "A node that answered ... has told us it did not take the     *)
(* transaction": after a node error it neither holds nor included it.      *)
(***************************************************************************)
NodeErrorMeansNotTaken ==
    \A s \in Senders :
        pc[s] = "error" /\ err[s].kind = "NodeError" => cur[s] \notin pool \cup chain
===============================================================================
