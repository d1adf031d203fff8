SPECIFICATION Spec
CONSTANTS
    Signers = {a, b}
    Watcher = w
    Zero = zero
    Kinds = {"trc20", "trc721", "vault"}
    Valued = {"vault"}
    MaxSends = 2
INVARIANTS
    LedgerAsAsked
    EstimateForesees
    ReadsTellTheLedger
    DeployedAsGiven
    LogsReadAsEmitted
CHECK_DEADLOCK FALSE
SYMMETRY Symmetry
