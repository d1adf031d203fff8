--------------------------- MODULE TransportErrors ---------------------------
(***************************************************************************)
(* The error algebra of the provider crate: what a transport can fail      *)
(* with, which failures are worth another attempt, and how a failed        *)
(* broadcast is told apart from a refused one.  Messages and causes are    *)
(* left out; only the variant and the status code decide anything.         *)
(***************************************************************************)
EXTENDS Naturals

\* The status codes a node can answer with (enum RpcStatusCode).
RpcStatusCode ==
    {"Cancelled", "Unknown", "InvalidArgument", "DeadlineExceeded",
     "NotFound", "AlreadyExists", "PermissionDenied", "ResourceExhausted",
     "FailedPrecondition", "Aborted", "OutOfRange", "Unimplemented",
     "Internal", "Unavailable", "DataLoss", "Unauthenticated"}

\* enum TransportErrorKind: one variant carries a code, the others do not.
Rpc(code) == [kind |-> "Rpc", code |-> code]
Plain(kind) == [kind |-> kind, code |-> "none"]
PlainKinds == {"Connect", "Proto", "Malformed", "NodeError", "Unsupported",
               "Custom", "NonRetryable"}
TransportErrorKind == {Rpc(c) : c \in RpcStatusCode}
                        \cup {Plain(k) : k \in PlainKinds}

(***************************************************************************)
(* How tonic's answer becomes a TransportErrorKind.  A proxy that answers  *)
(* HTTP instead of gRPC has its status embedded in tonic's message; it     *)
(* wins over tonic's own code when it is one of the mapped statuses.       *)
(***************************************************************************)
MapHttpStatus(http) ==
    CASE http = 401 -> "Unauthenticated"
      [] http = 403 -> "PermissionDenied"
      [] http = 429 -> "ResourceExhausted"
      [] http \in 502..504 -> "Unavailable"
      [] OTHER -> "none"

MapCode(code) == IF code = "Ok" THEN "Unknown" ELSE code

\* http = 0 stands for a message that embeds no HTTP status.
MapStatus(code, http) ==
    Rpc(IF MapHttpStatus(http) # "none" THEN MapHttpStatus(http) ELSE MapCode(code))

\* TransportErrorKind::is_retryable: DeadlineExceeded is left out on purpose.
IsRetryable(e) ==
    e.kind = "Rpc" /\ e.code \in {"Unavailable", "ResourceExhausted", "Aborted"}

(***************************************************************************)
(* RpcError<E>.  `tx` is the id carried by the Broadcast variant only.     *)
(***************************************************************************)
NoTx == "no tx id"
NoSource == "no source"

\* From<TransportErrorKind>: a node error is promoted, the rest is wrapped.
FromTransport(e) ==
    IF e.kind = "NodeError" THEN [kind |-> "NodeError", tx |-> NoTx, source |-> NoSource]
    ELSE [kind |-> "Transport", tx |-> NoTx, source |-> e]

LocalUsage == [kind |-> "LocalUsageError", tx |-> NoTx, source |-> NoSource]

\* Mutated form: any status the node or the channel ended with is a refusal.
RefusedByAnyStatus(e) == e.kind \in {"NodeError", "Unsupported", "Rpc"}

\* The `refused` test of RpcError::broadcast.
RefusedBy(e) ==
    \/ e.kind \in {"NodeError", "Unsupported"}
    \/ /\ e.kind = "Rpc"
       /\ e.code \in {"InvalidArgument", "PermissionDenied",
                      "Unauthenticated", "Unimplemented"}

\* RpcError::broadcast: only an open outcome carries the transaction's id.
BroadcastError(tx, e) ==
    IF RefusedBy(e) THEN FromTransport(e)
    ELSE [kind |-> "Broadcast", tx |-> tx, source |-> e]

\* pending.rs, is_worth_reasking: any status, or a lost channel.
IsWorthReasking(err) ==
    err.kind = "Transport" /\ err.source.kind \in {"Rpc", "Connect"}
==============================================================================
