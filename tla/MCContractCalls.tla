-------------------------- MODULE MCContractCalls --------------------------
(* Bounds for the model checker: the two accounts are interchangeable.     *)
(* The facts about the tables that the proofs start from are evaluated.    *)
EXTENDS ContractCalls

Symmetry == Permutations(Signers)

ASSUME EncodersAssumption == EncodersAgree
ASSUME DecodersAssumption == DecodersAgree
=============================================================================
