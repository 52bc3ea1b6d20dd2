----------------------------- MODULE MCAgentGraph -----------------------------
(* Instances of AgentGraph for TLC: two specialists that hand over to each *)
(* other; both read, one writes.                                           *)
EXTENDS AgentGraph, TLC

CONSTANTS discovery, booking, search, quote, book, to_booking, to_discovery, a1, a2

TwoToolboxes ==
    [r \in Roles |-> IF r = discovery THEN {search, quote, to_booking}
                     ELSE {quote, book, to_discovery}]

TwoTargets == [h \in Handoffs |-> IF h = to_booking THEN booking ELSE discovery]

Symmetry == Permutations(Args)

=============================================================================
