---------------------------- MODULE MCLifecycle ----------------------------
(* Lifecycle on small instances.  The calls of SaveConfig are              *)
(* interchangeable, as long as no liveness is checked.                     *)
EXTENDS Lifecycle, TLC

SaverSymmetry == Permutations(Savers)
=============================================================================
