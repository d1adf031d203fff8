----------------------------- MODULE EventWatcher -----------------------------
(***************************************************************************)
(* Following a contract's events (contract/src/event_filter.rs).  A poll   *)
(* asks for the head, scans the confirmed blocks past the cursor with      *)
(* several fetches in flight, and moves the cursor only when all of them   *)
(* came back; `into_stream` hands the events out one by one and sleeps     *)
(* when it has caught up or failed.  An application that drives `poll`     *)
(* itself persists `next_block` after each batch and resumes from it.      *)
(*                                                                         *)
(* Meanwhile the chain grows and reorganizes, and the pool of nodes that   *)
(* answers may lag behind it.  A block has at most one matching event,     *)
(* named by a number; 0 is a block without one, and Garbled one whose log  *)
(* matches the filter but cannot be decoded.                               *)
(***************************************************************************)
EXTENDS Integers, Sequences

CONSTANTS
    Confirmations,  \* EventWatcher::confirmations
    MaxBlocks,      \* EventWatcher::max_blocks
    Concurrency,    \* TronEventFilter::concurrency
    MaxHead,        \* bound on the chain's height
    EventNames,     \* events a block can hold
    Depth,          \* deepest reorganization
    MaxReorgs,      \* bound on their number
    Lag,            \* how many blocks a node of the pool may be behind
    MaxFaults       \* bound on failed requests, dropped polls and crashes

ASSUME SizesAssumption ==
    /\ Confirmations \in Nat /\ MaxBlocks \in Nat \ {0} /\ Concurrency \in Nat \ {0}
    /\ MaxHead \in Nat /\ MaxReorgs \in Nat /\ MaxFaults \in Nat
ASSUME EventsAssumption == EventNames \subseteq Nat \ {0}
\* What makes a confirmed block trustworthy: it is final, and everybody has it.
ASSUME FinalityAssumption ==
    Depth \in Nat /\ Lag \in Nat /\ Depth <= Confirmations /\ Lag <= Confirmations

Blocks == 1..MaxHead
NotYet == -1   \* a block that is not fetched
Failed == -2   \* a block whose fetch failed
Garbled == -3  \* a block whose log decode_logs refuses
Readable == {0} \cup EventNames
Contents == Readable \cup {Garbled}

VARIABLES
    head,       \* height of the chain
    content,    \* block -> the event it holds
    reorgs,     \* reorganizations so far
    faults,     \* failed requests so far
    pc,         \* next, scanning, sleeping
    next,       \* next_block
    caughtUp,   \* caught_up
    confirmed,  \* last_confirmed of the poll under way
    target,     \* the last block it scans
    fetched,    \* what it has fetched
    at,         \* the block whose events try_fold takes next
    acc,        \* the events it has collected
    pending,    \* the batch not handed out yet
    delivered,  \* what the application got (history)
    saved,      \* the cursor the application persisted
    crashed     \* whether it has crashed (history)

vars == <<head, content, reorgs, faults, pc, next, caughtUp, confirmed, target,
          fetched, at, acc, pending, delivered, saved, crashed>>
chainVars == <<head, content, reorgs>>
scanVars == <<fetched, at, acc>>
pollVars == <<caughtUp, confirmed, target, scanVars>>
resumeVars == <<saved, crashed>>

Unfetched == [n \in Blocks |-> NotYet]

\* watch_from(1).
Init ==
    /\ head = 0 /\ content = [n \in Blocks |-> 0] /\ reorgs = 0 /\ faults = 0
    /\ pc = "next"
    /\ next = 1 /\ caughtUp = FALSE /\ confirmed = 0 /\ target = 0
    /\ fetched = Unfetched /\ at = 1 /\ acc = <<>>
    /\ pending = <<>> /\ delivered = <<>> /\ saved = 1 /\ crashed = FALSE

-------------------------------------------------------------------------------
(* The chain.                                                              *)

Produce(e) ==
    /\ head < MaxHead
    /\ head' = head + 1
    /\ content' = [content EXCEPT ![head + 1] = e]
    /\ UNCHANGED <<reorgs, faults, pc, next, pollVars, pending, delivered, resumeVars>>

\* A longer fork replaces the top of the chain.
Reorganize(d, e) ==
    /\ reorgs < MaxReorgs /\ d <= head
    /\ reorgs' = reorgs + 1
    /\ content' = [n \in Blocks |-> IF n \in (head - d + 1)..head THEN e ELSE content[n]]
    /\ UNCHANGED <<head, faults, pc, next, pollVars, pending, delivered, resumeVars>>

-------------------------------------------------------------------------------
(* One poll.                                                               *)

\* Mutated form: a window that runs past the confirmed blocks.
PollTargetLong(nextBlock, lastConfirmed) == nextBlock + MaxBlocks - 1
\* poll_target, when something is confirmed past the cursor.
PollTarget(nextBlock, lastConfirmed) ==
    IF lastConfirmed < nextBlock + MaxBlocks - 1 THEN lastConfirmed
    ELSE nextBlock + MaxBlocks - 1

\* The head as one node of the pool sees it; nothing confirmed: sleep.
PollNothing(lag) ==
    LET last == head - lag - Confirmations IN
    /\ pc = "next" /\ pending = <<>>
    /\ lag <= head /\ last < next
    /\ caughtUp' = TRUE
    /\ pc' = "sleeping"
    /\ UNCHANGED <<chainVars, faults, next, confirmed, target, scanVars, pending,
                   delivered, resumeVars>>

PollStart(lag) ==
    LET last == head - lag - Confirmations IN
    /\ pc = "next" /\ pending = <<>>
    /\ lag <= head /\ last >= next
    /\ confirmed' = last
    /\ target' = PollTarget(next, last)
    /\ fetched' = Unfetched /\ at' = next /\ acc' = <<>>
    /\ pc' = "scanning"
    /\ UNCHANGED <<chainVars, faults, next, caughtUp, pending, delivered, resumeVars>>

\* buffered: the first Concurrency blocks that were not taken yet.
InFlight == {n \in at..target : n < at + Concurrency /\ fetched[n] = NotYet}

\* query_block and decode_logs: one log that cannot be decoded fails the block.
\* A node that does not have the block answers an empty list.
Decoded(n, lag) ==
    IF n > head - lag THEN 0
    ELSE IF content[n] = Garbled THEN Failed ELSE content[n]

FetchBlock(n, lag) ==
    /\ pc = "scanning" /\ n \in InFlight /\ lag <= head
    /\ fetched' = [fetched EXCEPT ![n] = Decoded(n, lag)]
    /\ UNCHANGED <<chainVars, faults, pc, next, caughtUp, confirmed, target, at, acc,
                   pending, delivered, resumeVars>>

FetchFails(n) ==
    /\ pc = "scanning" /\ n \in InFlight
    /\ faults < MaxFaults
    /\ faults' = faults + 1
    /\ fetched' = [fetched EXCEPT ![n] = Failed]
    /\ UNCHANGED <<chainVars, pc, next, caughtUp, confirmed, target, at, acc,
                   pending, delivered, resumeVars>>

\* try_fold: blocks are taken in their order, whichever came back first.
TakeBlock ==
    /\ pc = "scanning" /\ at <= target /\ fetched[at] \in Readable
    /\ acc' = IF fetched[at] = 0 THEN acc
              ELSE Append(acc, [block |-> at, event |-> fetched[at]])
    /\ at' = at + 1
    /\ UNCHANGED <<chainVars, faults, pc, next, caughtUp, confirmed, target, fetched,
                   pending, delivered, resumeVars>>

\* Mutated form: the cursor is left on the block it scanned last.
PollDoneInclusive ==
    /\ pc = "scanning" /\ at > target
    /\ pending' = acc
    /\ next' = target
    /\ caughtUp' = (target = confirmed)
    /\ pc' = IF acc = <<>> /\ caughtUp' THEN "sleeping" ELSE "next"
    /\ UNCHANGED <<chainVars, faults, confirmed, target, scanVars, delivered, resumeVars>>

\* Every block came back: the cursor moves, and the batch is queued.
PollDone ==
    /\ pc = "scanning" /\ at > target
    /\ pending' = acc
    /\ next' = target + 1
    /\ caughtUp' = (target = confirmed)
    /\ pc' = IF acc = <<>> /\ caughtUp' THEN "sleeping" ELSE "next"
    /\ UNCHANGED <<chainVars, faults, confirmed, target, scanVars, delivered, resumeVars>>

\* Mutated form: the cursor moves before the scan is known to have worked.
PollFailsAhead ==
    /\ pc = "scanning" /\ at <= target /\ fetched[at] = Failed
    /\ pc' = "sleeping"
    /\ next' = target + 1
    /\ UNCHANGED <<chainVars, faults, pollVars, pending, delivered, resumeVars>>

\* The next block to be taken failed: the scan is thrown away, the
\* error is yielded, and the next poll waits one interval (`throttle`).
PollFails ==
    /\ pc = "scanning" /\ at <= target /\ fetched[at] = Failed
    /\ pc' = "sleeping"
    /\ UNCHANGED <<chainVars, faults, next, pollVars, pending, delivered, resumeVars>>

\* The caller drops the poll (a timeout around it): the cursor has not moved.
DropPoll ==
    /\ pc = "scanning"
    /\ faults < MaxFaults
    /\ faults' = faults + 1
    /\ pc' = "next"
    /\ UNCHANGED <<chainVars, next, pollVars, pending, delivered, resumeVars>>

HeadFails ==
    /\ pc = "next" /\ pending = <<>>
    /\ faults < MaxFaults
    /\ faults' = faults + 1
    /\ pc' = "sleeping"
    /\ UNCHANGED <<chainVars, next, pollVars, pending, delivered, resumeVars>>

-------------------------------------------------------------------------------
(* into_stream, and the application.                                       *)

\* pending.pop_front()
Pop ==
    /\ pc = "next" /\ pending # <<>>
    /\ delivered' = Append(delivered, Head(pending))
    /\ pending' = Tail(pending)
    /\ UNCHANGED <<chainVars, faults, pc, next, pollVars, resumeVars>>

\* Mutated form: the sleep ends only if the watcher had not caught up.
WakeUnlessCaughtUp ==
    /\ pc = "sleeping" /\ ~caughtUp
    /\ pc' = "next"
    /\ UNCHANGED <<chainVars, faults, next, pollVars, pending, delivered, resumeVars>>

Wake ==
    /\ pc = "sleeping"
    /\ pc' = "next"
    /\ UNCHANGED <<chainVars, faults, next, pollVars, pending, delivered, resumeVars>>

\* The batch is handled, and next_block() is written down.
Persist ==
    /\ pending = <<>> /\ saved # next
    /\ saved' = next
    /\ UNCHANGED <<chainVars, faults, pc, next, pollVars, pending, delivered, crashed>>

\* The process dies anywhere and resumes with watch_from(saved).
Crash ==
    /\ faults < MaxFaults
    /\ faults' = faults + 1
    /\ pc' = "next" /\ next' = saved
    /\ caughtUp' = FALSE /\ confirmed' = 0 /\ target' = 0
    /\ fetched' = Unfetched /\ at' = 1 /\ acc' = <<>>
    /\ pending' = <<>>
    /\ crashed' = TRUE
    /\ UNCHANGED <<chainVars, delivered, saved>>

Poll ==
    \/ \E lag \in 0..Lag : PollNothing(lag) \/ PollStart(lag)
    \/ \E n \in Blocks, lag \in 0..Lag : FetchBlock(n, lag)
    \/ TakeBlock \/ PollDone \/ PollFails \/ Pop \/ Wake

Next ==
    \/ \E e \in Contents : Produce(e) \/ \E d \in 1..Depth : Reorganize(d, e)
    \/ Poll
    \/ HeadFails \/ DropPoll \/ \E n \in Blocks : FetchFails(n)
    \/ Persist \/ Crash

\* The stream is polled: requests are answered and sleeps end.
Spec == Init /\ [][Next]_vars /\ WF_vars(Poll)

-------------------------------------------------------------------------------
Reported == delivered \o pending
Event(n) == [block |-> n, event |-> content[n]]
Has(s, x) == \E i \in DOMAIN s : s[i] = x

(***************************************************************************)
(* No event is missed: of every block behind the cursor, the event that is *)
(* on the chain now was handed out or is queued, although fetches overlap, *)
(* polls fail or are dropped, the chain reorganizes and nodes lag; nor is  *)
(* a block whose log cannot be decoded passed over (poll, query_range).    *)
(***************************************************************************)
NoneMissed ==
    \A n \in 1..(next - 1) :
        content[n] # 0 => Has(Reported, Event(n))

(***************************************************************************)
(* No event is made up: what was handed out is on the chain, for good.     *)
(***************************************************************************)
NoneReverted ==
    \A i \in DOMAIN Reported : Reported[i] = Event(Reported[i].block)

(***************************************************************************)
(* Without a crash every event is handed out once, in block order: a       *)
(* failed poll that is retried repeats nothing.                            *)
(***************************************************************************)
InOrderOnce ==
    ~crashed =>
        \A i, j \in DOMAIN Reported : i < j => Reported[i].block < Reported[j].block

(***************************************************************************)
(* Resuming from a cursor that is persisted after each batch loses         *)
(* nothing: whatever lies before it was really handed out before.          *)
(***************************************************************************)
ResumeLosesNothing ==
    \A n \in 1..(saved - 1) :
        content[n] # 0 => Has(delivered, Event(n))

\* The window of some poll covers the block and a log that cannot be decoded.
Poisoned(n) == \E k \in Blocks : k < n + MaxBlocks /\ content[k] = Garbled

(***************************************************************************)
(* The stream makes progress: once a block is confirmed in the eyes of     *)
(* every node, its event is eventually handed out, unless a log that       *)
(* cannot be decoded lies before it or within one window after it: that    *)
(* one fails every poll over it (query_block's `?` on decode_logs).        *)
(***************************************************************************)
EventuallyDelivered ==
    \A n \in Blocks :
        head - Lag - Confirmations >= n /\ content[n] \in EventNames
            ~> Poisoned(n) \/ \E i \in DOMAIN delivered : delivered[i].block = n
===============================================================================
