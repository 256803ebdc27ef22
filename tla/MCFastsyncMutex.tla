-------------------------- MODULE MCFastsyncMutex --------------------------
(* FastsyncMutex on small instances: the threads are model values and the  *)
(* number of spins is chosen by the .cfg.  Symmetry is not used, because   *)
(* the run checks liveness.                                                *)
EXTENDS FastsyncMutex

=============================================================================
