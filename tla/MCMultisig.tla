------------------------------ MODULE MCMultisig ------------------------------
(* Bounds for the model checker: the parties are interchangeable.          *)
EXTENDS Multisig

\* The usual path, one near and one at the last index, one component, and none.
AllPaths == {<<44, 0>>, <<44, MaxIndex - 1>>, <<44, MaxIndex>>, <<7>>, <<>>}

Symmetry == Permutations(Parties)
=============================================================================
