------------------------------ MODULE MCWorkspace ------------------------------
(* Instances of Workspace for TLC: a second session and a second task are    *)
(* enough for one to get in the way of the other.                          *)
EXTENDS Workspace

=============================================================================
