------------------------------ MODULE MCGrpcCore ------------------------------
(* GrpcCore for TLC: two reads and a broadcast behind two limiters with one *)
(* slot each, three attempts, one transient and one final status.           *)
EXTENDS GrpcCore

MCFaults == {Rpc("Unavailable"), Rpc("DeadlineExceeded")}
===============================================================================
