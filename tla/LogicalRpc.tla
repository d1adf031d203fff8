------------------------------ MODULE LogicalRpc ------------------------------
(***************************************************************************)
(* What a transport promises whoever calls it: one logical RPC.  However   *)
(* many attempts it takes, the node executes the request at most `Limit`   *)
(* times, never before the call is made nor after it has returned; a call  *)
(* that was refused reached nobody, and a call that succeeds reached the   *)
(* node.  An answer, once given, is final.                                 *)
(***************************************************************************)
EXTENDS Naturals

CONSTANTS
    Calls,
    Limit,       \* call -> most executions it may cause
    Answers,     \* what a call can return
    Success,     \* the answer that needs an execution
    Refused,     \* the answer that excludes one
    Unanswered   \* not an answer yet

VARIABLES phase, executions, answer

rpcVars == <<phase, executions, answer>>

Init ==
    /\ phase = [c \in Calls |-> "idle"]
    /\ executions = [c \in Calls |-> 0]
    /\ answer = [c \in Calls |-> Unanswered]

Open(c) ==
    /\ phase[c] = "idle"
    /\ phase' = [phase EXCEPT ![c] = "open"]
    /\ UNCHANGED <<executions, answer>>

Execute(c) ==
    /\ phase[c] = "open"
    /\ executions[c] < Limit[c]
    /\ executions' = [executions EXCEPT ![c] = @ + 1]
    /\ UNCHANGED <<phase, answer>>

Close(c, r) ==
    /\ phase[c] = "open"
    /\ r = Success => executions[c] > 0
    /\ r = Refused => executions[c] = 0
    /\ phase' = [phase EXCEPT ![c] = "closed"]
    /\ answer' = [answer EXCEPT ![c] = r]
    /\ UNCHANGED executions

\* The caller walked away; what the node did is no longer anyone's business.
Abandon(c) ==
    /\ phase[c] = "open"
    /\ phase' = [phase EXCEPT ![c] = "abandoned"]
    /\ UNCHANGED <<executions, answer>>

Next ==
    \E c \in Calls :
        \/ Open(c) \/ Execute(c) \/ Abandon(c)
        \/ \E r \in Answers : Close(c, r)

Spec == Init /\ [][Next]_rpcVars
===============================================================================
