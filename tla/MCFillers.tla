------------------------------ MODULE MCFillers ------------------------------
(* Fillers for TLC: two builds, each one of four jobs.  A call that must not *)
(* be guessed and one that may fall back run the recommended chain, a        *)
(* deployment meets the EnergyFiller first, and a call that names its own    *)
(* limit and reference block also meets the default limit.  Amounts have 8   *)
(* and 16 bits (i64 and i128 scaled down), and a node names a negative, a    *)
(* small and the largest energy.                                             *)
EXTENDS Fillers

Recommended == <<"energy", "tapos", "wallet">>
Job(kind, given, anchored, chain, onFailure) ==
    [kind |-> kind, given |-> given, anchored |-> anchored, chain |-> chain,
     onFailure |-> onFailure]

MCJobs ==
    {Job("call", NoLimit, FALSE, Recommended, "Fail"),
     Job("call", NoLimit, FALSE, Recommended, "UseFallback"),
     Job("deploy", NoLimit, FALSE, Recommended, "Fail"),
     Job("call", 9, TRUE, <<"tapos", "energy", "feelimit">>, "Fail")}
MCEnergies == {-1, 3, 127}
MCPrices == {2, 127}
===============================================================================
