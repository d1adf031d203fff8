------------------------- MODULE EventWatcherProofs -------------------------
(***************************************************************************)
(* Why the watcher neither misses nor makes up an event, for every chain,  *)
(* window, concurrency, lag and depth of reorganization that the           *)
(* confirmations cover, and any number of faults and crashes: a block that *)
(* a poll looks at is final and every node has it, so what was read of it  *)
(* stays true, and the cursor passes it only with its event in hand.       *)
(***************************************************************************)
EXTENDS EventWatcher, TLAPS

Record == [block : Blocks, event : EventNames]

TypeOK ==
    /\ head \in 0..MaxHead
    /\ content \in [Blocks -> Contents]
    /\ pc \in {"next", "scanning", "sleeping"}
    /\ next \in Nat \ {0} /\ saved \in Nat \ {0} /\ at \in Nat \ {0}
    /\ confirmed \in Int /\ target \in Int
    /\ fetched \in [Blocks -> Readable \cup {NotYet, Failed}]
    /\ acc \in Seq(Record) /\ pending \in Seq(Record) /\ delivered \in Seq(Record)
    /\ crashed \in BOOLEAN

\* A block that no reorganization reaches any more.
Final(n) == n \in Blocks /\ n <= head - Confirmations

\* A list of events is true when each is on the chain, in a final block.
True(s) == \A i \in 1..Len(s) : Final(s[i].block) /\ s[i] = Event(s[i].block)
Ascending(s) == \A i, j \in 1..Len(s) : i < j => s[i].block < s[j].block
\* ... and complete for blocks a..b when it lists every event in them.
Lists(s, a, b) == \A n \in a..b : content[n] # 0 => Has(s, Event(n))

\* The cursors stay behind what is final.
Cursors ==
    /\ saved <= next
    /\ next = 1 \/ Final(next - 1)

\* A poll under way: its window is final, and it has read what is there.
Scan ==
    pc = "scanning" =>
        /\ pending = <<>>
        /\ next <= at /\ at <= target + 1 /\ next <= target
        /\ target <= confirmed /\ Final(target)
        /\ \A n \in next..target : fetched[n] \in Readable => fetched[n] = content[n]
        /\ True(acc) /\ Ascending(acc) /\ Lists(acc, next, at - 1)
        /\ \A i \in 1..Len(acc) : acc[i].block >= next /\ acc[i].block < at

Told ==
    /\ True(delivered) /\ True(pending)
    /\ Lists(delivered \o pending, 1, next - 1)
    /\ Lists(delivered, 1, saved - 1)
    /\ ~crashed => /\ Ascending(delivered \o pending)
                   /\ \A i \in 1..Len(delivered) : delivered[i].block < next
                   /\ \A i \in 1..Len(pending) : pending[i].block < next

IInv == TypeOK /\ Cursors /\ Scan /\ Told

-------------------------------------------------------------------------------
(* The constants, and the chain.                                           *)

LEMMA Values ==
    /\ 0 \in Readable /\ EventNames \subseteq Readable /\ 0 \notin EventNames
    /\ NotYet \notin Readable /\ Failed \notin Readable /\ Garbled \notin Readable
    /\ NotYet # Failed /\ Readable \subseteq Contents
BY EventsAssumption DEF Readable, Contents, NotYet, Failed, Garbled

\* A poll's window is not empty and ends at the last confirmed block.
LEMMA WindowBounds ==
    ASSUME NEW n \in Nat \ {0}, NEW last \in Int, last >= n
    PROVE  /\ PollTarget(n, last) \in Int
           /\ n <= PollTarget(n, last) /\ PollTarget(n, last) <= last
BY SizesAssumption DEF PollTarget

LEMMA TypeStep ==
    ASSUME TypeOK, Scan, [Next]_vars
    PROVE  TypeOK'
<1> USE DEF TypeOK
<1>1. ASSUME NEW e \in Contents, Produce(e) PROVE TypeOK'
    BY <1>1, SizesAssumption DEF Produce, pollVars, scanVars, resumeVars, Blocks
<1>2. ASSUME NEW e \in Contents, NEW d \in 1..Depth, Reorganize(d, e) PROVE TypeOK'
    BY <1>2 DEF Reorganize, pollVars, scanVars, resumeVars
<1>3. ASSUME NEW lag \in 0..Lag, PollNothing(lag) PROVE TypeOK'
    BY <1>3 DEF PollNothing, chainVars, scanVars, resumeVars
<1>4. ASSUME NEW lag \in 0..Lag, PollStart(lag) PROVE TypeOK'
    <2>1. head - lag - Confirmations \in Int
        BY SizesAssumption, FinalityAssumption
    <2>2. target' \in Int
        BY <1>4, <2>1, WindowBounds DEF PollStart
    <2>3. Unfetched \in [Blocks -> Readable \cup {NotYet, Failed}]
        BY DEF Unfetched
    <2> QED BY <1>4, <2>1, <2>2, <2>3 DEF PollStart, chainVars, resumeVars
<1>5. ASSUME NEW n \in Blocks, NEW lag \in 0..Lag, FetchBlock(n, lag) PROVE TypeOK'
    <2>1. Decoded(n, lag) \in Readable \cup {NotYet, Failed}
        BY Values DEF Decoded, Contents
    <2> QED BY <1>5, <2>1 DEF FetchBlock, chainVars, resumeVars
<1>6. ASSUME NEW n \in Blocks, FetchFails(n) PROVE TypeOK'
    BY <1>6 DEF FetchFails, chainVars, resumeVars
<1>7. ASSUME TakeBlock PROVE TypeOK'
    <2>1. at \in Blocks
        BY <1>7, SizesAssumption DEF TakeBlock, Scan, Final, Blocks
    <2>2. fetched[at] # 0 => [block |-> at, event |-> fetched[at]] \in Record
        BY <1>7, <2>1 DEF TakeBlock, Record, Readable
    <2>3. acc' \in Seq(Record)
        BY <1>7, <2>2 DEF TakeBlock
    <2> QED BY <1>7, <2>3 DEF TakeBlock, chainVars, resumeVars
<1>8. CASE PollDone
    BY <1>8 DEF PollDone, chainVars, scanVars, resumeVars, Scan
<1>9. CASE PollFails \/ HeadFails \/ DropPoll \/ Wake
    BY <1>9 DEF PollFails, HeadFails, DropPoll, Wake, chainVars, pollVars, scanVars, resumeVars
<1>10. CASE Pop
    BY <1>10 DEF Pop, chainVars, pollVars, scanVars, resumeVars
<1>11. CASE Persist
    BY <1>11 DEF Persist, chainVars, pollVars, scanVars
<1>12. CASE Crash
    <2>1. Unfetched \in [Blocks -> Readable \cup {NotYet, Failed}]
        BY DEF Unfetched
    <2> QED BY <1>12, <2>1 DEF Crash, chainVars
<1>13. CASE UNCHANGED vars
    BY <1>13 DEF vars
<1> QED BY <1>1, <1>2, <1>3, <1>4, <1>5, <1>6, <1>7, <1>8, <1>9, <1>10, <1>11, <1>12, <1>13
        DEF Next, Poll

\* What is final stays: blocks come on top, and no reorganization is as deep
\* as the confirmations.
LEMMA FinalStays ==
    ASSUME TypeOK, [Next]_vars
    PROVE  /\ head' >= head
           /\ \A n : Final(n) => Final(n)' /\ content'[n] = content[n]
<1> USE SizesAssumption, FinalityAssumption DEF TypeOK, Final, Blocks
<1>1. ASSUME NEW e \in Contents, Produce(e)
      PROVE  head' = head + 1 /\ \A n \in Blocks : n <= head => content'[n] = content[n]
    BY <1>1 DEF Produce
<1>2. ASSUME NEW e \in Contents, NEW d \in 1..Depth, Reorganize(d, e)
      PROVE  head' = head /\ \A n \in Blocks : n <= head - d => content'[n] = content[n]
    BY <1>2 DEF Reorganize
<1>3. CASE UNCHANGED chainVars
    BY <1>3 DEF chainVars
<1>4. ASSUME Poll \/ HeadFails \/ DropPoll \/ (\E n \in Blocks : FetchFails(n))
             \/ Persist \/ Crash \/ UNCHANGED vars
      PROVE  UNCHANGED chainVars
    BY <1>4 DEF Poll, PollNothing, PollStart, FetchBlock, TakeBlock, PollDone, PollFails, Pop,
                Wake, HeadFails, DropPoll, FetchFails, Persist, Crash, chainVars, vars
<1>5. CASE \E e \in Contents : Produce(e)
    BY <1>1, <1>5
<1>6. CASE \E e \in Contents : \E d \in 1..Depth : Reorganize(d, e)
    BY <1>2, <1>6
<1> QED BY <1>3, <1>4, <1>5, <1>6 DEF Next

-------------------------------------------------------------------------------
(* Lists of events.                                                        *)

\* What was true of a list stays so.
LEMMA ListStays ==
    ASSUME TypeOK, [Next]_vars, NEW s \in Seq(Record), NEW a \in Nat, NEW b \in Int,
           True(s), \A n \in a..b : Final(n)
    PROVE  True(s)' /\ (Lists(s, a, b) => Lists(s, a, b)')
<1>1. True(s)'
    BY FinalStays DEF True, Event, Record
<1>2. ASSUME Lists(s, a, b) PROVE Lists(s, a, b)'
    BY <1>2, FinalStays DEF Lists, Has, Event
<1> QED BY <1>1, <1>2

LEMMA Concat ==
    ASSUME NEW s \in Seq(Record), NEW t \in Seq(Record)
    PROVE  /\ s \o t \in Seq(Record) /\ Len(s \o t) = Len(s) + Len(t)
           /\ \A i \in 1..Len(s) : (s \o t)[i] = s[i]
           /\ \A i \in 1..Len(t) : (s \o t)[Len(s) + i] = t[i]
           /\ \A i \in 1..Len(s \o t) : i > Len(s) => (s \o t)[i] = t[i - Len(s)] /\ i - Len(s) \in 1..Len(t)
OBVIOUS

LEMMA BlockNumber ==
    ASSUME NEW s \in Seq(Record), NEW i \in 1..Len(s)
    PROVE  s[i].block \in Int
<1>1. s[i] \in Record
    OBVIOUS
<1> QED BY <1>1, SizesAssumption DEF Record, Blocks

LEMMA HasConcat ==
    ASSUME NEW s \in Seq(Record), NEW t \in Seq(Record), NEW x, Has(s, x) \/ Has(t, x)
    PROVE  Has(s \o t, x)
<1>1. CASE Has(s, x)
    <2>1. PICK i \in 1..Len(s) : s[i] = x
        BY <1>1 DEF Has
    <2> QED BY <2>1, Concat DEF Has
<1>2. CASE Has(t, x)
    <2>1. PICK i \in 1..Len(t) : t[i] = x
        BY <1>2 DEF Has
    <2>2. Len(s) + i \in DOMAIN (s \o t)
        BY Concat
    <2> QED BY <2>1, <2>2, Concat DEF Has
<1> QED BY <1>1, <1>2

\* One list in block order after another that ends below it.
LEMMA AscendingConcat ==
    ASSUME NEW s \in Seq(Record), NEW t \in Seq(Record), NEW b \in Int,
           Ascending(s), Ascending(t),
           \A i \in 1..Len(s) : s[i].block < b, \A i \in 1..Len(t) : t[i].block >= b
    PROVE  Ascending(s \o t)
<1> DEFINE u == s \o t
<1> SUFFICES ASSUME NEW i \in 1..Len(u), NEW j \in 1..Len(u), i < j
             PROVE  u[i].block < u[j].block
    BY DEF Ascending
<1>1. /\ \A k \in 1..Len(s) : u[k] = s[k]
      /\ \A k \in 1..Len(u) : k > Len(s) => u[k] = t[k - Len(s)] /\ k - Len(s) \in 1..Len(t)
    BY Concat
<1>2. /\ Len(s) \in Nat /\ Len(u) \in Nat
      /\ \A k \in 1..Len(s) : s[k].block \in Int
      /\ \A k \in 1..Len(t) : t[k].block \in Int
    BY Concat, BlockNumber
<1> HIDE DEF u
<1>3. CASE j <= Len(s)
    BY <1>1, <1>2, <1>3 DEF Ascending
<1>4. CASE i <= Len(s) /\ j > Len(s)
    <2>1. i \in 1..Len(s) /\ u[i] = s[i]
        BY <1>1, <1>2, <1>4
    <2>2. PICK k \in 1..Len(t) : u[j] = t[k]
        BY <1>1, <1>2, <1>4
    <2>3. s[i].block < b /\ t[k].block >= b /\ s[i].block \in Int /\ t[k].block \in Int
        BY <1>2, <2>1
    <2> QED BY <2>1, <2>2, <2>3
<1>5. CASE i > Len(s)
    <2>1. i - Len(s) < j - Len(s) /\ j > Len(s)
        BY <1>2, <1>5
    <2> QED BY <1>1, <1>5, <2>1 DEF Ascending
<1> QED BY <1>2, <1>3, <1>4, <1>5

\* Handing out the first event of the queue changes nothing in what was told.
LEMMA PopKeeps ==
    ASSUME NEW s \in Seq(Record), NEW t \in Seq(Record), t # <<>>
    PROVE  Append(s, Head(t)) \o Tail(t) = s \o t
OBVIOUS

-------------------------------------------------------------------------------
(* The parts of the invariant, step by step.                               *)

LEMMA InitIInv == Init => IInv
<1> SUFFICES ASSUME Init PROVE IInv
    OBVIOUS
<1>1. TypeOK
    <2>1. head \in 0..MaxHead /\ next \in Nat \ {0} /\ saved \in Nat \ {0} /\ at \in Nat \ {0}
        BY SizesAssumption DEF Init
    <2>2. content \in [Blocks -> Contents]
        BY Values DEF Init
    <2>3. fetched \in [Blocks -> Readable \cup {NotYet, Failed}]
        BY DEF Init, Unfetched
    <2>4. acc \in Seq(Record) /\ pending \in Seq(Record) /\ delivered \in Seq(Record)
        <3>1. <<>> \in Seq(Record)
            OBVIOUS
        <3> QED BY <3>1 DEF Init
    <2>5. confirmed \in Int /\ target \in Int /\ pc \in {"next", "scanning", "sleeping"}
        BY DEF Init
    <2>6. crashed \in BOOLEAN
        BY Zenon DEF Init
    <2> QED BY <2>1, <2>2, <2>3, <2>4, <2>5, <2>6 DEF TypeOK
<1>2. Cursors /\ Scan /\ Told
    BY DEF Init, Cursors, Scan, Told, True, Lists, Ascending, Has
<1> QED BY <1>1, <1>2 DEF IInv

LEMMA CursorsStep ==
    ASSUME IInv, [Next]_vars
    PROVE  Cursors'
<1> USE SizesAssumption DEF IInv, TypeOK, Cursors
<1>1. ASSUME UNCHANGED <<next, saved>> PROVE Cursors'
    BY <1>1, FinalStays
<1>2. CASE PollDone
    <2>1. next' = target + 1 /\ saved' = saved /\ Final(target) /\ target >= next
        BY <1>2 DEF PollDone, Scan, resumeVars
    <2>2. Final(target)'
        BY <1>2, <2>1, FinalStays DEF PollDone, Final, Event
    <2>3. target' = target /\ target \in Int
        BY <1>2 DEF PollDone
    <2>4. next' - 1 = target'
        BY <2>1, <2>3
    <2>5. Final(next - 1)'
        BY <2>2, <2>4 DEF Final
    <2>6. saved' <= next'
        BY <2>1, <2>3
    <2> QED BY <2>5, <2>6
<1>3. CASE Persist
    BY <1>3, FinalStays DEF Persist
<1>4. CASE Crash
    <2>1. saved = 1 \/ Final(saved - 1)
        BY FinalityAssumption DEF Final, Blocks
    <2> QED BY <1>4, <2>1, FinalStays DEF Crash
<1>5. ASSUME ~PollDone, ~Persist, ~Crash PROVE UNCHANGED <<next, saved>>
    BY <1>5 DEF Next, Poll, Produce, Reorganize, PollNothing, PollStart, FetchBlock, TakeBlock,
                PollFails, Pop, Wake, HeadFails, DropPoll, FetchFails, resumeVars, vars
<1> QED BY <1>1, <1>2, <1>3, <1>4, <1>5

\* A step that leaves the poll alone leaves it right, whatever the chain does.
LEMMA ScanKept ==
    ASSUME IInv, [Next]_vars, UNCHANGED <<pc, next, confirmed, target, scanVars, pending>>
    PROVE  Scan'
<1> SUFFICES ASSUME pc = "scanning" PROVE Scan'
    BY DEF Scan
<1> USE DEF IInv, TypeOK
<1>1. \A n \in next..target : Final(n)
    BY SizesAssumption DEF Scan, Final, Blocks
<1>2. True(acc) /\ Lists(acc, next, at - 1) /\ \A n \in next..(at - 1) : Final(n)
    BY <1>1 DEF Scan
<1>3. True(acc)' /\ Lists(acc, next, at - 1)'
    <2>1. \A n : Final(n) => Final(n)' /\ content'[n] = content[n]
        BY FinalStays
    <2>2. acc' = acc /\ next' = next /\ at' = at
        BY DEF scanVars
    <2>3. True(acc)'
        BY <1>2, <2>1, <2>2 DEF True, Event
    <2>4. Lists(acc, next, at - 1)'
        BY <1>2, <2>1, <2>2 DEF Lists, Has, Event
    <2> QED BY <2>3, <2>4
<1>4. \A n \in next..target : fetched[n] \in Readable => fetched[n] = content'[n]
    BY <1>1, FinalStays DEF Scan
<1>5. Final(target)'
    BY FinalStays DEF Scan, Final
<1> QED BY <1>3, <1>4, <1>5 DEF Scan, scanVars, Ascending

LEMMA ScanStep ==
    ASSUME IInv, [Next]_vars
    PROVE  Scan'
<1> USE DEF IInv, TypeOK
<1>1. ASSUME NEW lag \in 0..Lag, PollStart(lag) PROVE Scan'
    <2> DEFINE last == head - lag - Confirmations
    <2>1. /\ pending' = <<>> /\ next' = next /\ at' = next /\ acc' = <<>> /\ confirmed' = last
          /\ target' = PollTarget(next, last) /\ fetched' = Unfetched
          /\ head' = head /\ content' = content
        BY <1>1 DEF PollStart, chainVars
    <2>2. next <= target' /\ target' <= last /\ target' \in Int
        BY <1>1, WindowBounds, SizesAssumption, FinalityAssumption DEF PollStart
    <2>3. Final(target)'
        BY <2>1, <2>2, SizesAssumption, FinalityAssumption DEF Final, Blocks
    <2>4. \A n \in next..target' : fetched'[n] \notin Readable
        BY <2>1, <2>3, Values, SizesAssumption DEF Unfetched, Final, Blocks
    <2>5. True(acc)' /\ Ascending(acc)' /\ Lists(acc, next, at - 1)'
        BY <2>1 DEF True, Ascending, Lists
    <2> QED BY <2>1, <2>2, <2>3, <2>4, <2>5 DEF Scan
<1>2. ASSUME NEW n \in Blocks, NEW lag \in 0..Lag, FetchBlock(n, lag) PROVE Scan'
    <2>1. pc = "scanning" /\ n \in next..target /\ n <= target /\ Final(target)
        BY <1>2 DEF FetchBlock, InFlight, Scan
    <2>2. n <= head - lag
        BY <2>1, SizesAssumption, FinalityAssumption DEF Final
    <2>3. Decoded(n, lag) \in Readable => Decoded(n, lag) = content[n]
        <3>1. ~(n > head - lag)
            BY <2>2, SizesAssumption, FinalityAssumption DEF Blocks
        <3> QED BY <3>1, Values DEF Decoded
    <2>4. \A k \in next..target : fetched'[k] \in Readable => fetched'[k] = content[k]
        BY <1>2, <2>1, <2>3 DEF FetchBlock, Scan
    <2> QED BY <1>2, <2>1, <2>4 DEF FetchBlock, Scan, chainVars, True, Event, Ascending, Lists, Final
<1>3. ASSUME NEW n \in Blocks, FetchFails(n) PROVE Scan'
    <2>1. \A k \in next..target : fetched'[k] \in Readable => fetched'[k] = content[k]
        BY <1>3, Values DEF FetchFails, Scan
    <2> QED BY <1>3, <2>1 DEF FetchFails, Scan, chainVars, True, Event, Ascending, Lists, Final
<1>4. CASE TakeBlock
    <2>1. /\ pc = "scanning" /\ at \in next..target /\ fetched[at] = content[at]
          /\ at' = at + 1 /\ next' = next /\ target' = target /\ Final(at)
        BY <1>4, SizesAssumption DEF TakeBlock, Scan, Final, Blocks
    <2>2. UNCHANGED <<pc, pending, confirmed, fetched, head, content>>
        BY <1>4 DEF TakeBlock, chainVars
    <2>3. /\ pending = <<>> /\ next <= target /\ target <= confirmed /\ Final(target)
          /\ \A n \in next..target : fetched[n] \in Readable => fetched[n] = content[n]
          /\ True(acc) /\ Ascending(acc) /\ Lists(acc, next, at - 1)
          /\ \A i \in 1..Len(acc) : acc[i].block >= next /\ acc[i].block < at
          /\ acc \in Seq(Record) /\ Len(acc) \in Nat
          /\ at \in Nat /\ next \in Nat /\ target \in Int
        BY <2>1 DEF Scan
    <2>4. Final(target)'
        BY <2>1, <2>2, <2>3 DEF Final
    <2> DEFINE Collected ==
            /\ True(acc)' /\ Ascending(acc)' /\ Lists(acc, next, at - 1)'
            /\ \A i \in 1..Len(acc') : acc'[i].block >= next /\ acc'[i].block < at + 1
    <2>5. ASSUME content[at] = 0 PROVE Collected
        <3>1. acc' = acc
            BY <1>4, <2>1, <2>5 DEF TakeBlock
        <3>2. Lists(acc, next, at - 1)'
            <4>1. ASSUME NEW n \in next..at, content[n] # 0 PROVE Has(acc, Event(n))
                BY <4>1, <2>3, <2>5 DEF Lists
            <4> QED BY <4>1, <2>1, <2>2, <2>3, <3>1 DEF Lists, Has, Event
        <3>3. True(acc)' /\ Ascending(acc)'
            BY <2>2, <2>3, <3>1 DEF True, Event, Ascending, Final
        <3>4. \A i \in 1..Len(acc') : acc'[i].block < at + 1
            <4> SUFFICES ASSUME NEW i \in 1..Len(acc) PROVE acc[i].block < at + 1
                BY <3>1
            <4>1. acc[i].block < at /\ acc[i].block \in Int
                BY <2>3 DEF True, Final, Blocks
            <4> QED BY <4>1, <2>3
        <3> QED BY <2>3, <3>1, <3>2, <3>3, <3>4
    <2>6. ASSUME content[at] # 0 PROVE Collected
        <3>1. Event(at) \in Record /\ Event(at).block = at
            BY <1>4, <2>1, <2>6 DEF TakeBlock, Event, Record, Readable, Final
        <3>2. acc' = Append(acc, Event(at)) /\ Len(acc') = Len(acc) + 1
            BY <1>4, <2>1, <2>3, <2>6 DEF TakeBlock, Event
        <3>3. /\ \A i \in 1..Len(acc) : acc'[i] = acc[i]
              /\ acc'[Len(acc) + 1] = Event(at)
            BY <2>3, <3>2
        <3>4. \A i \in 1..Len(acc') : i \in 1..Len(acc) \/ i = Len(acc) + 1
            BY <2>3, <3>2
        <3>5. True(acc)'
            <4> SUFFICES ASSUME NEW i \in 1..Len(acc')
                         PROVE  Final(acc'[i].block) /\ acc'[i] = Event(acc'[i].block)
                BY <2>2 DEF True, Final, Event
            <4>1. CASE i \in 1..Len(acc)
                BY <4>1, <2>3, <3>3 DEF True
            <4>2. CASE i = Len(acc) + 1
                BY <4>2, <2>1, <3>1, <3>3
            <4> QED BY <4>1, <4>2, <3>4
        <3>6. \A i \in 1..Len(acc') : acc'[i].block >= next /\ acc'[i].block < at + 1
            <4> SUFFICES ASSUME NEW i \in 1..Len(acc')
                         PROVE  acc'[i].block >= next /\ acc'[i].block < at + 1
                OBVIOUS
            <4>1. CASE i \in 1..Len(acc)
                <5>1. acc[i].block < at /\ acc[i].block \in Int /\ acc[i].block >= next
                    BY <4>1, <2>3 DEF True, Final, Blocks
                <5> QED BY <4>1, <5>1, <2>3, <3>3
            <4>2. CASE i = Len(acc) + 1
                BY <4>2, <2>1, <2>3, <3>1, <3>3
            <4> QED BY <4>1, <4>2, <3>4
        <3>7. Ascending(acc)'
            <4> SUFFICES ASSUME NEW i \in 1..Len(acc'), NEW j \in 1..Len(acc'), i < j
                         PROVE  acc'[i].block < acc'[j].block
                BY DEF Ascending
            <4>1. i \in 1..Len(acc)
                BY <2>3, <3>2
            <4>2. CASE j \in 1..Len(acc)
                BY <4>1, <4>2, <2>3, <3>3 DEF Ascending
            <4>3. CASE j = Len(acc) + 1
                BY <4>1, <4>3, <2>3, <3>1, <3>3
            <4> QED BY <4>2, <4>3, <3>4
        <3>8. Lists(acc, next, at - 1)'
            <4>1. ASSUME NEW n \in next..at, content[n] # 0 PROVE Has(acc', Event(n))
                <5>1. CASE n = at
                    <6>1. Len(acc) + 1 \in DOMAIN acc'
                        BY <2>3, <3>2
                    <6> QED BY <5>1, <6>1, <3>3 DEF Has
                <5>2. CASE n # at
                    <6>1. PICK i \in 1..Len(acc) : acc[i] = Event(n)
                        BY <5>2, <4>1, <2>3 DEF Lists, Has
                    <6>2. i \in DOMAIN acc'
                        BY <2>3, <3>2
                    <6> QED BY <6>1, <6>2, <3>3 DEF Has
                <5> QED BY <5>1, <5>2
            <4> QED BY <4>1, <2>1, <2>2, <2>3 DEF Lists, Has, Event
        <3> QED BY <3>5, <3>6, <3>7, <3>8
    <2>7. Collected
        BY <2>5, <2>6
    <2> HIDE DEF Collected
    <2>8. next' <= at' /\ at' <= target' + 1
        BY <2>1, <2>3
    <2>9. True(acc)' /\ Ascending(acc)' /\ Lists(acc, next, at - 1)'
        BY <2>7 DEF Collected
    <2>10. \A i \in 1..Len(acc') : acc'[i].block >= next' /\ acc'[i].block < at'
        BY <2>1, <2>7 DEF Collected
    <2>11. \A n \in next'..target' : fetched'[n] \in Readable => fetched'[n] = content'[n]
        BY <2>1, <2>2, <2>3
    <2>12. pending' = <<>> /\ next' <= target' /\ target' <= confirmed'
        BY <2>1, <2>2, <2>3
    <2> QED BY <2>4, <2>8, <2>9, <2>10, <2>11, <2>12 DEF Scan
<1>5. CASE pc' # "scanning"
    BY <1>5 DEF Scan
<1>6. CASE UNCHANGED <<pc, next, confirmed, target, scanVars, pending>>
    BY <1>6, ScanKept
<1>7. ASSUME NEW e \in Contents, Produce(e) \/ \E d \in 1..Depth : Reorganize(d, e) PROVE Scan'
    BY <1>6, <1>7 DEF Produce, Reorganize, pollVars
<1>8. CASE Persist \/ UNCHANGED vars
    BY <1>6, <1>8 DEF Persist, pollVars, vars, scanVars
<1>9. ASSUME NEW lag \in 0..Lag, PollNothing(lag) PROVE Scan'
    BY <1>5, <1>9 DEF PollNothing
<1>10. CASE PollDone \/ PollFails \/ Pop \/ Wake \/ HeadFails \/ DropPoll \/ Crash
    BY <1>5, <1>10 DEF PollDone, PollFails, Pop, Wake, HeadFails, DropPoll, Crash
<1> QED BY <1>1, <1>2, <1>3, <1>4, <1>7, <1>8, <1>9, <1>10 DEF Next, Poll

\* What was told stays told, whatever happens to the chain.
LEMMA ToldKept ==
    ASSUME IInv, [Next]_vars,
           UNCHANGED <<next, saved, pending, delivered, crashed>>
    PROVE  Told'
<1> USE DEF IInv, TypeOK
<1> DEFINE told == delivered \o pending
<1>1. told \in Seq(Record) /\ told' = told
    BY Concat
<1>2. \A n \in 1..(next - 1) : Final(n)
    BY SizesAssumption DEF Cursors, Final, Blocks
<1>3. \A n \in 1..(saved - 1) : Final(n)
    BY <1>2 DEF Cursors
<1>4. \A n : Final(n) => Final(n)' /\ content'[n] = content[n]
    BY FinalStays
<1>5. True(delivered)' /\ True(pending)'
    BY <1>4 DEF Told, True, Event
<1>6. Lists(delivered \o pending, 1, next - 1)'
    <2>1. Lists(told, 1, next - 1)
        BY DEF Told
    <2> HIDE DEF told
    <2>2. Lists(told, 1, next - 1)'
        BY <1>1, <1>2, <1>4, <2>1 DEF Lists, Has, Event
    <2> QED BY <2>2 DEF told
<1>7. Lists(delivered, 1, saved - 1)'
    BY <1>3, <1>4 DEF Told, Lists, Has, Event
<1>8. ~crashed' => /\ Ascending(delivered \o pending)'
                   /\ \A i \in 1..Len(delivered') : delivered'[i].block < next'
                   /\ \A i \in 1..Len(pending') : pending'[i].block < next'
    BY DEF Told, Ascending
<1> QED BY <1>5, <1>6, <1>7, <1>8 DEF Told

LEMMA ToldStep ==
    ASSUME IInv, [Next]_vars
    PROVE  Told'
<1> USE DEF IInv, TypeOK
<1>1. CASE PollDone
    <2>1. /\ pc = "scanning" /\ pending' = acc /\ next' = target + 1 /\ at > target
          /\ UNCHANGED <<head, content, delivered, saved, crashed>>
        BY <1>1 DEF PollDone, chainVars, resumeVars
    <2>2. /\ pending = <<>> /\ at <= target + 1 /\ next <= target
          /\ True(acc) /\ Ascending(acc) /\ Lists(acc, next, at - 1)
          /\ \A i \in 1..Len(acc) : acc[i].block >= next /\ acc[i].block < at
        BY <2>1 DEF Scan
    <2>3. at - 1 = target /\ next' = at /\ next < next' /\ next \in Int /\ next' \in Int
        BY <2>1, <2>2
    <2>4. delivered \o pending = delivered
        BY <2>2
    <2>5. /\ True(delivered) /\ Lists(delivered, 1, next - 1) /\ Lists(delivered, 1, saved - 1)
          /\ ~crashed => /\ Ascending(delivered)
                         /\ \A i \in 1..Len(delivered) : delivered[i].block < next
        BY <2>4 DEF Told
    <2>6. True(delivered)' /\ True(pending)' /\ Lists(delivered, 1, saved - 1)'
        BY <2>1, <2>2, <2>5 DEF True, Final, Lists, Has, Event
    <2>7. Lists(delivered \o pending, 1, next - 1)'
        <3>1. ASSUME NEW n \in 1..target, content[n] # 0 PROVE Has(delivered \o acc, Event(n))
            <4>1. CASE n < next
                BY <3>1, <4>1, <2>5, HasConcat DEF Lists
            <4>2. CASE n >= next
                BY <3>1, <4>2, <2>2, <2>3, HasConcat DEF Lists
            <4> QED BY <4>1, <4>2
        <3>2. next' - 1 = target
            BY <2>1
        <3> QED BY <3>1, <3>2, <2>1 DEF Lists, Has, Event
    <2>8. ASSUME ~crashed
          PROVE  /\ Ascending(delivered \o acc)
                 /\ \A i \in 1..Len(delivered) : delivered[i].block < next'
                 /\ \A i \in 1..Len(acc) : acc[i].block < next'
        <3>1. Ascending(delivered \o acc)
            BY <2>2, <2>3, <2>5, <2>8, AscendingConcat
        <3>2. \A i \in 1..Len(delivered) : delivered[i].block \in Int
            BY BlockNumber
        <3> QED BY <3>1, <3>2, <2>2, <2>3, <2>5, <2>8
    <2>9. ~crashed' => /\ Ascending(delivered \o pending)'
                       /\ \A i \in 1..Len(delivered') : delivered'[i].block < next'
                       /\ \A i \in 1..Len(pending') : pending'[i].block < next'
        BY <2>1, <2>8 DEF Ascending
    <2> QED BY <2>6, <2>7, <2>9 DEF Told
<1>2. CASE Pop
    <2>1. /\ pending # <<>> /\ delivered' = Append(delivered, Head(pending)) /\ pending' = Tail(pending)
          /\ UNCHANGED <<head, content, next, saved, crashed>>
        BY <1>2 DEF Pop, chainVars, resumeVars
    <2>2. (delivered \o pending)' = delivered \o pending
        BY <2>1, PopKeeps
    <2>3. /\ Len(delivered) \in Nat /\ Len(pending) \in Nat \ {0}
          /\ Len(delivered') = Len(delivered) + 1 /\ Len(pending') = Len(pending) - 1
          /\ \A i \in 1..Len(delivered) : delivered'[i] = delivered[i]
          /\ delivered'[Len(delivered) + 1] = pending[1] /\ 1 \in 1..Len(pending)
          /\ \A i \in 1..Len(pending') : pending'[i] = pending[i + 1] /\ i + 1 \in 1..Len(pending)
        BY <2>1
    <2>4. \A i \in 1..Len(delivered') : i \in 1..Len(delivered) \/ i = Len(delivered) + 1
        BY <2>3
    <2>5. True(delivered)'
        <3> SUFFICES ASSUME NEW i \in 1..Len(delivered')
                     PROVE  /\ Final(delivered'[i].block)
                            /\ delivered'[i] = Event(delivered'[i].block)
            BY <2>1 DEF True, Final, Event
        <3>1. True(delivered) /\ True(pending)
            BY DEF Told
        <3> QED BY <2>3, <2>4, <3>1 DEF True
    <2>6. True(pending)'
        <3>1. True(pending)
            BY DEF Told
        <3> QED BY <2>1, <2>3, <3>1 DEF True, Final, Event
    <2>7. Lists(delivered \o pending, 1, next - 1)'
        <3>1. Lists(delivered \o pending, 1, next - 1)
            BY DEF Told
        <3> QED BY <2>1, <2>2, <3>1 DEF Lists, Has, Event
    <2>8. Lists(delivered, 1, saved - 1)'
        <3>1. ASSUME NEW n \in 1..(saved - 1), content[n] # 0 PROVE Has(delivered', Event(n))
            <4>1. PICK i \in 1..Len(delivered) : delivered[i] = Event(n)
                BY <3>1 DEF Told, Lists, Has
            <4>2. i \in DOMAIN delivered'
                BY <2>1, <2>3
            <4> QED BY <4>1, <4>2, <2>3 DEF Has
        <3> QED BY <3>1, <2>1 DEF Lists, Has, Event
    <2>9. ~crashed' => /\ Ascending(delivered \o pending)'
                       /\ \A i \in 1..Len(delivered') : delivered'[i].block < next'
                       /\ \A i \in 1..Len(pending') : pending'[i].block < next'
        <3>1. ASSUME ~crashed PROVE Ascending(delivered \o pending)
            BY <3>1 DEF Told
        <3>2. ASSUME ~crashed
              PROVE  /\ \A i \in 1..Len(delivered') : delivered'[i].block < next
                     /\ \A i \in 1..Len(pending') : pending'[i].block < next
            <4>1. /\ \A i \in 1..Len(delivered) : delivered[i].block < next
                  /\ \A i \in 1..Len(pending) : pending[i].block < next
                BY <3>2 DEF Told
            <4> QED BY <4>1, <2>3, <2>4
        <3> QED BY <3>1, <3>2, <2>1, <2>2 DEF Ascending
    <2> QED BY <2>5, <2>6, <2>7, <2>8, <2>9 DEF Told
<1>3. CASE Persist
    <2>1. /\ pending = <<>> /\ saved' = next
          /\ UNCHANGED <<head, content, delivered, pending, next, crashed>>
        BY <1>3 DEF Persist, chainVars
    <2>2. delivered \o pending = delivered
        BY <2>1
    <2>3. Lists(delivered, 1, saved - 1)'
        <3>1. Lists(delivered, 1, next - 1)
            BY <2>2 DEF Told
        <3> QED BY <3>1, <2>1 DEF Lists, Has, Event
    <2>4. True(delivered)' /\ True(pending)'
        BY <2>1 DEF Told, True, Final, Event
    <2>5. Lists(delivered \o pending, 1, next - 1)'
        BY <2>1 DEF Told, Lists, Has, Event
    <2> QED BY <2>1, <2>3, <2>4, <2>5 DEF Told, Ascending
<1>4. CASE Crash
    <2>1. /\ pending' = <<>> /\ next' = saved /\ crashed'
          /\ UNCHANGED <<head, content, delivered, saved>>
        BY <1>4 DEF Crash, chainVars
    <2>2. (delivered \o pending)' = delivered
        BY <2>1
    <2>3. Lists(delivered, 1, saved - 1)'
        BY <2>1 DEF Told, Lists, Has, Event
    <2>4. Lists(delivered \o pending, 1, next - 1)'
        <3>1. Lists(delivered, 1, saved - 1)
            BY DEF Told
        <3> QED BY <3>1, <2>1, <2>2 DEF Lists, Has, Event
    <2>5. True(delivered)' /\ True(pending)'
        BY <2>1 DEF Told, True, Final, Event
    <2> QED BY <2>1, <2>3, <2>4, <2>5 DEF Told
<1>5. ASSUME ~PollDone, ~Pop, ~Persist, ~Crash
      PROVE  UNCHANGED <<next, saved, pending, delivered, crashed>>
    BY <1>5 DEF Next, Poll, Produce, Reorganize, PollNothing, PollStart, FetchBlock, TakeBlock,
                PollFails, Wake, HeadFails, DropPoll, FetchFails, resumeVars, vars
<1> QED BY <1>1, <1>2, <1>3, <1>4, <1>5, ToldKept

-------------------------------------------------------------------------------
(* The theorems.                                                           *)

LEMMA Invariance == Spec => []IInv
<1>1. IInv /\ [Next]_vars => IInv'
    <2> SUFFICES ASSUME IInv, [Next]_vars PROVE IInv'
        OBVIOUS
    <2>1. TypeOK'
        BY TypeStep DEF IInv
    <2>2. Cursors' /\ Scan' /\ Told'
        BY CursorsStep, ScanStep, ToldStep
    <2> QED BY <2>1, <2>2 DEF IInv
<1> QED BY <1>1, InitIInv, PTL DEF Spec

(***************************************************************************)
(* The watcher's state keeps its types: the cursors stay block numbers and *)
(* the queues stay lists of events of real blocks.                         *)
(***************************************************************************)
THEOREM TypeCorrect == Spec => []TypeOK
<1>1. IInv => TypeOK
    BY DEF IInv
<1> QED BY <1>1, Invariance, PTL

(***************************************************************************)
(* No event of a block behind the cursor is missed (poll, query_range).    *)
(***************************************************************************)
THEOREM NoneMissedHolds == Spec => []NoneMissed
<1>1. IInv => NoneMissed
    BY DEF IInv, Told, Lists, NoneMissed, Reported
<1> QED BY <1>1, Invariance, PTL

(***************************************************************************)
(* No event is handed out or queued that is not on the chain: a poll only  *)
(* reads blocks that no reorganization reaches.                            *)
(***************************************************************************)
THEOREM NoneRevertedHolds == Spec => []NoneReverted
<1>1. IInv => NoneReverted
    <2> SUFFICES ASSUME IInv, NEW i \in DOMAIN Reported
                 PROVE  Reported[i] = Event(Reported[i].block)
        BY DEF NoneReverted
    <2>1. delivered \in Seq(Record) /\ pending \in Seq(Record)
        BY DEF IInv, TypeOK
    <2>2. i \in 1..Len(delivered \o pending) /\ Len(delivered) \in Nat
        BY <2>1 DEF Reported
    <2>3. True(delivered) /\ True(pending)
        BY DEF IInv, Told
    <2>4. CASE i <= Len(delivered)
        BY <2>1, <2>2, <2>3, <2>4, Concat DEF True, Reported
    <2>5. CASE i > Len(delivered)
        BY <2>1, <2>2, <2>3, <2>5, Concat DEF True, Reported
    <2> QED BY <2>2, <2>4, <2>5
<1> QED BY <1>1, Invariance, PTL

(***************************************************************************)
(* Without a crash every event is handed out once, in block order, however *)
(* many polls failed or were dropped on the way (next_block, `pending`).   *)
(***************************************************************************)
THEOREM InOrderOnceHolds == Spec => []InOrderOnce
<1>1. IInv => InOrderOnce
    <2> SUFFICES ASSUME IInv, ~crashed, NEW i \in DOMAIN Reported, NEW j \in DOMAIN Reported, i < j
                 PROVE  Reported[i].block < Reported[j].block
        BY DEF InOrderOnce
    <2>1. Reported \in Seq(Record) /\ Ascending(Reported)
        BY Concat DEF IInv, TypeOK, Told, Reported
    <2> QED BY <2>1 DEF Ascending
<1> QED BY <1>1, Invariance, PTL

(***************************************************************************)
(* Resuming from the persisted cursor loses nothing: what lies before it   *)
(* was handed out (next_block, watch_from).                                *)
(***************************************************************************)
THEOREM ResumeLosesNothingHolds == Spec => []ResumeLosesNothing
<1>1. IInv => ResumeLosesNothing
    BY DEF IInv, Told, Lists, ResumeLosesNothing
<1> QED BY <1>1, Invariance, PTL
=============================================================================
