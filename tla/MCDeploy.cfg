SPECIFICATION Spec
CONSTANTS
    Signers = {a, b}
    Watcher = w
    Zero = zero
    Kinds = {"trc20", "trc721", "vault"}
    Valued = {"vault"}
    MaxSends = 2
INVARIANTS
    DeployErrsOnRevert
CHECK_DEADLOCK FALSE
SYMMETRY Symmetry
