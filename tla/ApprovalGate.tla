----------------------------- MODULE ApprovalGate -----------------------------
(***************************************************************************)
(* What the agent graph promises about write tools, whatever the models    *)
(* say: a transaction is performed only after a human was shown it and     *)
(* agreed to it, with the arguments the human agreed to, and one agreement *)
(* is good for one transaction.                                            *)
(***************************************************************************)
EXTENDS Sequences

CONSTANTS Tool, Arg, None

VARIABLES
    shown,      \* the call a human is looking at, or None
    granted,    \* the call a human agreed to and that is not performed yet, or None
    performed   \* the calls performed so far

gate == <<shown, granted, performed>>

WriteCall == [tool : Tool, args : Arg]

Init == shown = None /\ granted = None /\ performed = <<>>

Show(c) ==
    /\ shown = None /\ granted = None
    /\ shown' = c
    /\ UNCHANGED <<granted, performed>>

(* The human accepts the call, or replaces its arguments.                  *)
Agree(args) ==
    /\ shown # None
    /\ granted' = [tool |-> shown.tool, args |-> args]
    /\ shown' = None
    /\ UNCHANGED performed

Perform ==
    /\ granted # None
    /\ performed' = Append(performed, granted)
    /\ granted' = None
    /\ UNCHANGED shown

(* A refusal, an answer in words, a failure, or a new request instead.     *)
Withdraw ==
    /\ shown' = None /\ granted' = None
    /\ UNCHANGED performed

Next ==
    \/ \E c \in WriteCall : Show(c)
    \/ \E a \in Arg : Agree(a)
    \/ Perform
    \/ Withdraw

Spec == Init /\ [][Next]_gate

=============================================================================
