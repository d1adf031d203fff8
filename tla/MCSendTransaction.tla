--------------------------- MODULE MCSendTransaction ---------------------------
(* SendTransaction for TLC.  The wire shows a timeout and a proxy's 504 when *)
(* the outcome is unknown, and a proxy's 401 when the call was turned away.  *)
(* MCSpec runs one of two instances that have no variable in common: the one *)
(* the configuration describes, and Shared, two senders of the same payment  *)
(* who may also re-broadcast.                                                *)
EXTENDS SendTransaction

CONSTANTS alice, bob, coffee

MCLostAs == {[code |-> "DeadlineExceeded", http |-> 0], [code |-> "Unknown", http |-> 504]}
MCRefusedAs == {[code |-> "Unknown", http |-> 401]}
Alone == [s \in {alice} |-> coffee]

VARIABLES scenario, clock2, tapos2, pc2, cur2, err2, sends2, mine2, inbox2, replies2, pool2,
          chain2

Shared == INSTANCE SendTransaction WITH
    Senders <- {alice, bob}, Payload <- [s \in {alice, bob} |-> coffee],
    Expiry <- 1, BlockTtl <- 1, MaxClock <- 2, MaxSends <- 2,
    LostAs <- {[code |-> "DeadlineExceeded", http |-> 0]}, MayRebroadcast <- TRUE,
    clock <- clock2, tapos <- tapos2, pc <- pc2, cur <- cur2, err <- err2, sends <- sends2,
    mine <- mine2, inbox <- inbox2, replies <- replies2, pool <- pool2, chain <- chain2

sharedVars == <<clock2, tapos2, pc2, cur2, err2, sends2, mine2, inbox2, replies2, pool2,
                chain2>>

MCInit == Init /\ Shared!Init /\ scenario \in {"alone", "shared"}
MCNext == \/ scenario = "alone" /\ Next /\ UNCHANGED <<scenario, sharedVars>>
          \/ scenario = "shared" /\ Shared!Next /\ UNCHANGED <<scenario, vars>>
MCSpec == MCInit /\ [][MCNext]_<<scenario, vars, sharedVars>>

\* PendingWasTaken where two callers ask for the same payment, so that both may
\* hold the same transaction, and where signed bytes are broadcast again.
SharedPendingWasTaken == Shared!PendingWasTaken
===============================================================================
