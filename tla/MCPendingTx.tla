------------------------------ MODULE MCPendingTx ------------------------------
(* PendingTx for TLC: one status that the transport does not retry but that *)
(* is worth asking again, and one unreadable answer, which is not.          *)
EXTENDS PendingTx

MCFaults == {Rpc("DeadlineExceeded"), Plain("Malformed")}
===============================================================================
