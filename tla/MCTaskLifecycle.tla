--------------------------- MODULE MCTaskLifecycle ---------------------------
(* Instances of TaskLifecycle for TLC.  No symmetry: LifecycleOneTab       *)
(* checks liveness, and tasks and tabs are model values of the cfg.        *)
EXTENDS TaskLifecycle

=============================================================================
